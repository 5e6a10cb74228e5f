------------------------- MODULE ParallelMergeProofs -------------------------
(***************************************************************************)
(* The merge of one hash set is right for any number of tasks and items:   *)
(* the tasks go in lock step, and what they leave is one item per hash, the *)
(* best, by falling scores.                                                *)
(*                                                                         *)
(* The argument, in the order of the sections.  The barrier keeps the      *)
(* tasks together.  The chunks, and later the chunks moved past the runs   *)
(* of equal hashes, share the places among the tasks.  The prefix sums are *)
(* the sizes of sets, so that the place a task computes for an item is the *)
(* item's rank by bucket and former place.  A pass therefore permutes its  *)
(* source and keeps the former order within a bucket, and two passes sort. *)
(* No region cuts a run, so the tasks drop duplicates independently of     *)
(* each other.  DataInv says what of this holds, task by task and buffer   *)
(* by buffer, while the segments are worked on; SizeRight accounts for the *)
(* late subtractions.                                                      *)
(***************************************************************************)
EXTENDS ParallelMerge, FiniteSetTheorems, TLAPS

-----------------------------------------------------------------------------
(* The barrier.                                                            *)

\* Past the fetch-and-add and not yet in the next segment.
Inside == {"load", "wait", "asleep", "wake"}

ControlOK ==
    /\ seg \in [Tid -> Segment]
    /\ pc \in [Tid -> PC]
    /\ seen \in [Tid -> 0..MergeWorkers]
    /\ bar \in [{0, 1} -> 0..MergeWorkers]

\* Some task is in segment s and none is further.
Front(s) == (\E t \in Tid : seg[t] = s) /\ \A t \in Tid : seg[t] <= s

Arrived(s) == {t \in Tid : seg[t] = s /\ pc[t] \notin {"work", "arrive"}}

\* The counter of the foremost barrier says how many have arrived ...
Gathering(s) ==
    /\ bar[s % 2] = Cardinality(Arrived(s))
    /\ \A t \in Arrived(s) : pc[t] # "wake"

\* ... until it is put back, and then all tasks are behind it.
Open(s) == bar[s % 2] = 0 /\ \A t \in Tid : seg[t] = s /\ pc[t] \in Inside

BarrierInv ==
    /\ ControlOK
    /\ LockStep
    /\ \A t \in Tid : pc[t] \in Inside \cup {"release"} => seg[t] <= 6
    /\ \A t \in Tid : pc[t] \in {"subtract", "done"} => seg[t] = 7
    /\ \A t \in Tid : pc[t] = "release" => bar[Bi(t)] = MergeWorkers
    /\ \A t, u \in Tid : pc[t] = "release" /\ pc[u] = "release" => t = u
    /\ \A s \in Segment : Front(s) => bar[1 - (s % 2)] = 0 /\ (Gathering(s) \/ Open(s))

LEMMA Workers == MergeWorkers \in Nat /\ MergeWorkers > 0 /\ MaxItems \in Nat /\ Tid = 0..MergeWorkers - 1
BY MergeAssumption DEF Tid

LEMMA Tasks == IsFiniteSet(Tid) /\ Cardinality(Tid) = MergeWorkers
<1>1. 0 \in Int /\ MergeWorkers - 1 \in Int
  BY Workers
<1>2. /\ IsFiniteSet(0..MergeWorkers - 1)
      /\ Cardinality(0..MergeWorkers - 1) = IF 0 > MergeWorkers - 1 THEN 0 ELSE (MergeWorkers - 1) - 0 + 1
  BY <1>1, FS_Interval
<1> QED BY <1>2, Workers

\* Neighbouring barriers use different counters.
LEMMA Parity ==
    ASSUME NEW s \in Segment
    PROVE  /\ s % 2 \in {0, 1}
           /\ s + 1 \in Segment => (s + 1) % 2 = 1 - (s % 2)
BY DEF Segment

LEMMA ArrivedSize ==
    ASSUME NEW s
    PROVE  /\ IsFiniteSet(Arrived(s)) /\ Cardinality(Arrived(s)) \in 0..MergeWorkers
           /\ Cardinality(Arrived(s)) = MergeWorkers => Arrived(s) = Tid
           /\ \A t \in Arrived(s) : Cardinality(Arrived(s)) > 0
<1>1. Arrived(s) \in SUBSET Tid
  BY DEF Arrived
<1>2. /\ IsFiniteSet(Arrived(s)) /\ Cardinality(Arrived(s)) <= Cardinality(Tid)
      /\ Cardinality(Tid) = Cardinality(Arrived(s)) => Tid = Arrived(s)
  BY <1>1, Tasks, FS_Subset
<1>3. Cardinality(Arrived(s)) \in Nat
  BY <1>2, FS_CardinalityType
<1>4. Cardinality(Arrived(s)) = 0 => Arrived(s) = {}
  BY <1>2, FS_EmptySet
<1> QED BY <1>2, <1>3, <1>4, Tasks, Workers

\* A task that is not behind a barrier is with the foremost.
LEMMA AtFront ==
    ASSUME BarrierInv, NEW t \in Tid, pc[t] \notin Inside
    PROVE  /\ Front(seg[t]) /\ seg[t] \in Segment /\ ~ Open(seg[t]) /\ Gathering(seg[t])
           /\ bar[1 - Bi(t)] = 0 /\ Bi(t) \in {0, 1}
<1>1. seg \in [Tid -> Segment] /\ seg[t] \in Segment
  BY DEF BarrierInv, ControlOK
<1>2. \A u \in Tid : ~ (seg[t] < seg[u])
  BY DEF BarrierInv, LockStep, Inside
<1>3. Front(seg[t])
  BY <1>1, <1>2 DEF Front, Segment
<1> QED BY <1>1, <1>3, Parity DEF BarrierInv, Open, Bi

LEMMA Behind ==
    ASSUME BarrierInv, NEW t \in Tid
    PROVE  \/ Front(seg[t])
           \/ /\ Front(seg[t] + 1) /\ pc[t] \in Inside /\ bar[Bi(t)] = 0
              /\ \A u \in Tid : seg[u] \in {seg[t], seg[t] + 1}
<1>1. seg \in [Tid -> Segment]
  BY DEF BarrierInv, ControlOK
<1>2. CASE \A u \in Tid : seg[u] <= seg[t]
  BY <1>2 DEF Front
<1>3. CASE ~ \A u \in Tid : seg[u] <= seg[t]
  <2>1. PICK u \in Tid : seg[t] < seg[u]
    BY <1>1, <1>3 DEF Segment
  <2>2. seg[u] = seg[t] + 1 /\ pc[t] \in Inside /\ bar[Bi(t)] = 0
    BY <2>1 DEF BarrierInv, LockStep, Inside
  <2>3. \A v \in Tid : seg[v] \in {seg[t], seg[t] + 1}
    <3> TAKE v \in Tid
    <3>1. /\ seg[t] < seg[v] => seg[v] = seg[t] + 1
          /\ seg[v] < seg[u] => seg[u] = seg[v] + 1
      BY DEF BarrierInv, LockStep
    <3> QED BY <1>1, <2>2, <3>1 DEF Segment
  <2>4. Front(seg[t] + 1)
    BY <1>1, <2>2, <2>3 DEF Front, Segment
  <2> QED BY <2>2, <2>3, <2>4
<1> QED BY <1>2, <1>3

\* A step of a task that stays in its segment and leaves the counters alone.
LEMMA StayKeeps ==
    ASSUME BarrierInv, NEW t \in Tid, NEW label \in PC, pc' = [pc EXCEPT ![t] = label],
           seen' \in [Tid -> 0..MergeWorkers], UNCHANGED <<seg, bar>>,
           \/ pc[t] = "work" /\ label = "arrive"
           \/ pc[t] = "subtract" /\ label = "done"
           \/ pc[t] = "load" /\ label = "wait"
           \/ pc[t] = "wait" /\ label \in {"asleep", "load"}
    PROVE  BarrierInv'
<1>0. seg \in [Tid -> Segment] /\ pc \in [Tid -> PC] /\ bar \in [{0, 1} -> 0..MergeWorkers]
  BY DEF BarrierInv, ControlOK
<1>1. pc'[t] = label /\ \A u \in Tid \ {t} : pc'[u] = pc[u]
  BY <1>0
<1>2. ControlOK'
  BY <1>0 DEF BarrierInv, ControlOK
<1>3. \A u \in Tid : /\ pc'[u] \in Inside <=> pc[u] \in Inside
                     /\ pc'[u] = "release" <=> pc[u] = "release"
                     /\ pc'[u] = "wake" <=> pc[u] = "wake"
                     /\ pc'[u] \in {"work", "arrive"} <=> pc[u] \in {"work", "arrive"}
                     /\ pc'[u] \in {"subtract", "done"} <=> pc[u] \in {"subtract", "done"}
  BY <1>1 DEF Inside
<1>4. LockStep'
  BY <1>3 DEF BarrierInv, LockStep, Inside, Bi
<1>5. \A s \in Segment : /\ Front(s)' <=> Front(s)
                         /\ Arrived(s)' = Arrived(s)
                         /\ Open(s)' <=> Open(s)
  BY <1>3 DEF Front, Arrived, Open
<1>6. \A s \in Segment : Gathering(s)' <=> Gathering(s)
  <2> TAKE s \in Segment
  <2>1. Arrived(s)' = Arrived(s) /\ Arrived(s) \subseteq Tid
    BY <1>5 DEF Arrived
  <2>2. \A u \in Arrived(s) : pc'[u] # "wake" <=> pc[u] # "wake"
    BY <1>3, <2>1
  <2> QED BY <2>1, <2>2 DEF Gathering
<1>7. /\ \A u \in Tid : pc'[u] \in Inside \cup {"release"} => seg[u] <= 6
      /\ \A u \in Tid : pc'[u] \in {"subtract", "done"} => seg[u] = 7
      /\ \A u \in Tid : pc'[u] = "release" => bar[Bi(u)] = MergeWorkers
      /\ \A u, v \in Tid : pc'[u] = "release" /\ pc'[v] = "release" => u = v
  BY <1>3 DEF BarrierInv
<1>8. \A u \in Tid : Bi(u)' = Bi(u)
  BY DEF Bi
<1> QED BY <1>2, <1>4, <1>5, <1>6, <1>7, <1>8 DEF BarrierInv

\* A task that counts itself in.
LEMMA CountIn ==
    ASSUME BarrierInv, NEW t \in Tid, pc[t] = "arrive", NEW label \in PC,
           pc' = [pc EXCEPT ![t] = label], bar' = [bar EXCEPT ![Bi(t)] = @ + 1],
           UNCHANGED <<seg, seen>>,
           \/ seg[t] # 7 /\ label = "load" /\ bar[Bi(t)] # MergeWorkers - 1
           \/ seg[t] # 7 /\ label = "release" /\ bar[Bi(t)] = MergeWorkers - 1
           \/ seg[t] = 7 /\ label \in {"subtract", "done"}
    PROVE  BarrierInv' /\ bar[Bi(t)] < MergeWorkers
<1>a. seg \in [Tid -> Segment] /\ pc \in [Tid -> PC] /\ bar \in [{0, 1} -> 0..MergeWorkers]
  BY DEF BarrierInv, ControlOK
<1>b. PICK g \in Segment : seg[t] = g
  BY <1>a
<1>0. /\ seg \in [Tid -> Segment] /\ pc \in [Tid -> PC] /\ bar \in [{0, 1} -> 0..MergeWorkers]
      /\ seg[t] = g
  BY <1>a, <1>b
<1>1. /\ Front(g) /\ g \in Segment /\ Gathering(g) /\ bar[1 - Bi(t)] = 0 /\ Bi(t) \in {0, 1}
      /\ Bi(t) = g % 2
  <2>1. pc[t] \notin Inside
    BY DEF Inside
  <2> QED BY <1>0, <2>1, AtFront DEF Bi
<1>2. pc'[t] = label /\ \A u \in Tid \ {t} : pc'[u] = pc[u]
  BY <1>0
<1>3. t \notin Arrived(g) /\ Arrived(g)' = Arrived(g) \cup {t}
  BY <1>0, <1>2 DEF Arrived
<1>4. /\ bar[Bi(t)] = Cardinality(Arrived(g)) /\ bar[Bi(t)] \in 0..MergeWorkers - 1
      /\ Cardinality(Arrived(g))' = bar[Bi(t)] + 1
  <2>1. bar[Bi(t)] = Cardinality(Arrived(g))
    BY <1>1 DEF Gathering
  <2>2. bar[Bi(t)] # MergeWorkers
    BY <1>3, <2>1, ArrivedSize
  <2>3. Cardinality(Arrived(g))' = Cardinality(Arrived(g)) + 1
    BY <1>3, ArrivedSize, FS_AddElement
  <2> QED BY <1>0, <1>1, <2>1, <2>2, <2>3, Workers
<1>5. /\ bar' \in [{0, 1} -> 0..MergeWorkers] /\ bar'[Bi(t)] = bar[Bi(t)] + 1
      /\ bar'[1 - Bi(t)] = 0
  BY <1>0, <1>1, <1>4, Workers
<1>6. \A u \in Tid : Bi(u)' = Bi(u) /\ seg'[u] = seg[u]
  BY DEF Bi
<1>7. ControlOK'
  BY <1>0, <1>5 DEF BarrierInv, ControlOK
<1>8. \A u \in Tid : seg[u] < g => bar[Bi(u)] = 0 /\ Bi(u) = 1 - Bi(t) /\ bar'[Bi(u)] = 0
  <2> SUFFICES ASSUME NEW u \in Tid, seg[u] < g
               PROVE  bar[Bi(u)] = 0 /\ Bi(u) = 1 - Bi(t) /\ bar'[Bi(u)] = 0
    OBVIOUS
  <2>1. g = seg[u] + 1 /\ bar[Bi(u)] = 0
    BY <1>0 DEF BarrierInv, LockStep
  <2>2. Bi(u) = 1 - Bi(t)
    <3>1. seg[u] \in Segment /\ (seg[u] + 1) % 2 = 1 - (seg[u] % 2) /\ seg[u] % 2 \in {0, 1}
      BY <1>0, <1>1, <2>1, Parity
    <3> QED BY <1>1, <2>1, <3>1 DEF Bi
  <2> QED BY <1>5, <2>1, <2>2
<1>9. \A u \in Tid : seg[u] <= g
  BY <1>1 DEF Front
<1>10. LockStep'
  <2> SUFFICES ASSUME NEW u \in Tid, NEW v \in Tid, seg[u] < seg[v]
               PROVE  /\ seg[v] = seg[u] + 1
                      /\ pc'[u] \in {"load", "wait", "asleep", "wake"}
                      /\ bar'[Bi(u)] = 0
    BY <1>6 DEF LockStep
  <2>1. seg[u] < g
    BY <1>0, <1>1, <1>9 DEF Segment
  <2>2. u # t
    BY <1>0, <1>1, <2>1 DEF Segment
  <2> QED BY <1>2, <1>8, <2>1, <2>2 DEF BarrierInv, LockStep
<1>11. \A u \in Tid : pc'[u] = "release" => bar'[Bi(u)] = MergeWorkers
  <2> SUFFICES ASSUME NEW u \in Tid, pc'[u] = "release" PROVE bar'[Bi(u)] = MergeWorkers
    OBVIOUS
  <2>1. CASE u = t
    BY <1>2, <1>5, <2>1, Workers
  <2>2. CASE u # t
    <3>1. pc[u] = "release" /\ bar[Bi(u)] = MergeWorkers
      BY <1>2, <2>2 DEF BarrierInv
    <3>2. Bi(u) = Bi(t)
      <4>1. Front(seg[u])
        BY <3>1, AtFront DEF Inside
      <4>2. seg[u] = g
        BY <1>0, <1>1, <4>1 DEF Front, Segment
      <4> QED BY <1>0, <4>2 DEF Bi
    <3> QED BY <1>4, <3>1, <3>2, Workers
  <2> QED BY <2>1, <2>2
<1>12. \A u, v \in Tid : pc'[u] = "release" /\ pc'[v] = "release" => u = v
  <2>1. \A u \in Tid : pc[u] # "release"
    <3> SUFFICES ASSUME NEW u \in Tid, pc[u] = "release" PROVE FALSE
      OBVIOUS
    <3>1. bar[Bi(u)] = MergeWorkers /\ Front(seg[u])
      BY AtFront DEF Inside, BarrierInv
    <3>2. seg[u] = g
      BY <1>0, <1>1, <3>1 DEF Front, Segment
    <3> QED BY <1>0, <1>4, <3>1, <3>2, Workers DEF Bi
  <2> QED BY <1>2, <2>1
<1>13. ASSUME NEW s \in Segment, Front(s)'
       PROVE  bar'[1 - (s % 2)] = 0 /\ Gathering(s)'
  <2>1. s = g
    BY <1>0, <1>1, <1>13 DEF Front, Segment
  <2>2. \A u \in Arrived(g)' : pc'[u] # "wake"
    BY <1>1, <1>2, <1>3 DEF Gathering
  <2> QED BY <1>1, <1>4, <1>5, <2>1, <2>2 DEF Gathering
<1>14. /\ \A u \in Tid : pc'[u] \in Inside \cup {"release"} => seg[u] <= 6
       /\ \A u \in Tid : pc'[u] \in {"subtract", "done"} => seg[u] = 7
  <2>1. /\ pc'[t] \in Inside \cup {"release"} => seg[t] <= 6
        /\ pc'[t] \in {"subtract", "done"} => seg[t] = 7
    BY <1>0, <1>1, <1>2 DEF Inside, Segment
  <2> QED BY <1>2, <2>1 DEF BarrierInv
<1> QED BY <1>4, <1>6, <1>7, <1>10, <1>11, <1>12, <1>13, <1>14, Workers DEF BarrierInv

\* The last to arrive opens the barrier.
LEMMA ReleaseKeeps ==
    ASSUME BarrierInv, NEW t \in Tid, Release(t)
    PROVE  BarrierInv'
<1>a. seg \in [Tid -> Segment] /\ pc \in [Tid -> PC] /\ bar \in [{0, 1} -> 0..MergeWorkers]
  BY DEF BarrierInv, ControlOK
<1>b. PICK g \in Segment : seg[t] = g
  BY <1>a
<1>1. /\ pc[t] = "release" /\ pc' = [pc EXCEPT ![t] = "wake"]
      /\ bar' = [bar EXCEPT ![Bi(t)] = 0] /\ UNCHANGED <<seg, seen>>
  BY DEF Release
<1>2. /\ Front(g) /\ Gathering(g) /\ bar[1 - Bi(t)] = 0 /\ Bi(t) \in {0, 1} /\ Bi(t) = g % 2
      /\ bar[Bi(t)] = MergeWorkers /\ g <= 6
  <2>1. pc[t] \notin Inside
    BY <1>1 DEF Inside
  <2>2. bar[Bi(t)] = MergeWorkers /\ seg[t] <= 6
    BY <1>1 DEF BarrierInv
  <2> QED BY <1>b, <2>1, <2>2, AtFront DEF Bi
<1>3. Arrived(g) = Tid
  BY <1>2, ArrivedSize DEF Gathering
<1>4. \A u \in Tid : /\ seg[u] = g /\ pc[u] \in PC /\ pc[u] \notin {"work", "arrive", "wake", "subtract", "done"}
                     /\ pc[u] = "release" => u = t
  <2>1. \A u \in Tid : seg[u] = g /\ pc[u] \notin {"work", "arrive", "wake"}
    BY <1>2, <1>3 DEF Arrived, Gathering
  <2>2. \A u \in Tid : pc[u] \in {"subtract", "done"} => seg[u] = 7
    BY DEF BarrierInv
  <2>3. \A u \in Tid : pc[u] = "release" => u = t
    BY <1>1 DEF BarrierInv
  <2> QED BY <1>a, <1>2, <2>1, <2>2, <2>3
<1>5. \A u \in Tid : seg'[u] = g /\ pc'[u] \in Inside
  BY <1>a, <1>1, <1>4 DEF PC, Inside
<1>6. bar' \in [{0, 1} -> 0..MergeWorkers] /\ bar'[g % 2] = 0 /\ bar'[1 - (g % 2)] = 0
  BY <1>a, <1>1, <1>2, Workers
<1>7. ControlOK'
  BY <1>a, <1>1, <1>6 DEF BarrierInv, ControlOK, PC
<1>8. LockStep'
  BY <1>5, <1>b DEF LockStep, Segment
<1>9. ASSUME NEW s \in Segment, Front(s)' PROVE bar'[1 - (s % 2)] = 0 /\ Open(s)'
  <2>1. s = g
    BY <1>5, <1>9 DEF Front
  <2> QED BY <1>5, <1>6, <2>1 DEF Open
<1>10. \A u \in Tid : pc'[u] # "release" /\ pc'[u] \notin {"subtract", "done"} /\ seg'[u] <= 6
  BY <1>2, <1>5 DEF Inside
<1> QED BY <1>7, <1>8, <1>9, <1>10 DEF BarrierInv

\* A task goes on to the next segment; it may wake others on the way.
LEMMA EnterKeeps ==
    ASSUME BarrierInv, NEW t \in Tid,
           \/ pc[t] = "load" /\ bar[Bi(t)] = 0
           \/ pc[t] = "wake",
           seg' = [seg EXCEPT ![t] = @ + 1], pc' \in [Tid -> PC], pc'[t] = "work",
           \A u \in Tid \ {t} : pc'[u] = pc[u] \/ (pc[u] = "asleep" /\ pc'[u] = "load"),
           UNCHANGED bar, seen' \in [Tid -> 0..MergeWorkers]
    PROVE  BarrierInv' /\ seg[t] <= 6
<1>a. seg \in [Tid -> Segment] /\ pc \in [Tid -> PC] /\ bar \in [{0, 1} -> 0..MergeWorkers]
  BY DEF BarrierInv, ControlOK
<1>b. PICK g \in Segment : seg[t] = g
  BY <1>a
<1>1. g <= 6 /\ g + 1 \in Segment /\ pc[t] \in Inside
  <2>1. pc[t] \in Inside
    BY DEF Inside
  <2> QED BY <1>b, <2>1 DEF BarrierInv, Segment
<1>2. /\ seg' \in [Tid -> Segment] /\ seg'[t] = g + 1 /\ \A u \in Tid \ {t} : seg'[u] = seg[u]
  BY <1>a, <1>b, <1>1 DEF Segment
<1>3. ControlOK'
  BY <1>2 DEF BarrierInv, ControlOK
<1>4. \A u \in Tid \ {t} : /\ pc'[u] \in Inside <=> pc[u] \in Inside
                           /\ pc'[u] = "release" <=> pc[u] = "release"
                           /\ pc'[u] = "wake" <=> pc[u] = "wake"
                           /\ pc'[u] \in {"work", "arrive"} <=> pc[u] \in {"work", "arrive"}
                           /\ pc'[u] \in {"subtract", "done"} <=> pc[u] \in {"subtract", "done"}
                           /\ Bi(u)' = Bi(u)
  BY <1>2 DEF Inside, Bi
<1>5. /\ \A u \in Tid : pc'[u] \in Inside \cup {"release"} => seg'[u] <= 6
      /\ \A u \in Tid : pc'[u] \in {"subtract", "done"} => seg'[u] = 7
      /\ \A u \in Tid : pc'[u] = "release" => bar[Bi(u)'] = MergeWorkers
      /\ \A u, v \in Tid : pc'[u] = "release" /\ pc'[v] = "release" => u = v
  <2>1. pc'[t] \notin Inside \cup {"release", "subtract", "done"}
    BY DEF Inside
  <2> QED BY <1>2, <1>4, <2>1 DEF BarrierInv
<1>6. /\ (g + 1) % 2 = 1 - (g % 2) /\ g % 2 \in {0, 1} /\ Bi(t) = g % 2
  BY <1>b, <1>1, Parity DEF Bi
<1>7. CASE Front(g)
  <2>1. Open(g) /\ bar[1 - (g % 2)] = 0
    <3>1. (Gathering(g) \/ Open(g)) /\ bar[1 - (g % 2)] = 0
      BY <1>7 DEF BarrierInv
    <3>2. t \in Arrived(g)
      BY <1>b DEF Arrived
    <3>3. ~ Gathering(g)
      BY <1>6, <3>2, ArrivedSize DEF Gathering
    <3> QED BY <3>1, <3>3
  <2>2. \A u \in Tid \ {t} : seg'[u] = g /\ pc'[u] \in Inside
    BY <1>2, <1>4, <2>1 DEF Open
  <2>3. bar[g % 2] = 0
    BY <2>1 DEF Open
  <2>4. LockStep'
    <3> SUFFICES ASSUME NEW u \in Tid, NEW v \in Tid, seg'[u] < seg'[v]
                 PROVE  /\ seg'[v] = seg'[u] + 1
                        /\ pc'[u] \in {"load", "wait", "asleep", "wake"}
                        /\ bar'[Bi(u)'] = 0
      BY DEF LockStep
    <3>1. u # t /\ v = t
      BY <1>2, <2>2 DEF Segment
    <3>2. Bi(u)' = g % 2
      BY <2>2, <3>1 DEF Bi
    <3> QED BY <1>2, <2>2, <2>3, <3>1, <3>2 DEF Inside
  <2>5. ASSUME NEW s \in Segment, Front(s)'
        PROVE  bar[1 - (s % 2)] = 0 /\ Gathering(s)'
    <3>1. s = g + 1
      <4>1. \E u \in Tid : seg'[u] = s
        BY <2>5 DEF Front
      <4>2. g + 1 <= s
        BY <1>2, <2>5 DEF Front
      <4> QED BY <1>2, <2>2, <4>1, <4>2 DEF Segment
    <3>2. Arrived(s)' = {}
      BY <1>2, <2>2, <3>1 DEF Arrived, Segment
    <3>3. Cardinality(Arrived(s)') = 0
      BY <3>2, FS_EmptySet
    <3>4. s % 2 = 1 - (g % 2) /\ 1 - (s % 2) = g % 2
      BY <1>6, <3>1
    <3> QED BY <2>1, <2>3, <3>2, <3>3, <3>4 DEF Gathering
  <2> QED BY <1>1, <1>3, <1>5, <2>4, <2>5, <1>b DEF BarrierInv
<1>8. CASE ~ Front(g)
  <2>1. /\ Front(g + 1) /\ bar[g % 2] = 0
        /\ \A u \in Tid : seg[u] \in {g, g + 1}
    BY <1>b, <1>6, <1>8, Behind
  <2>2. Gathering(g + 1) /\ bar[1 - ((g + 1) % 2)] = 0
    <3>1. ~ Open(g + 1)
      BY <1>b, <1>1 DEF Open, Segment
    <3> QED BY <1>1, <2>1, <3>1 DEF BarrierInv
  <2>3. \A u \in Tid : seg'[u] \in {g, g + 1}
    BY <1>2, <2>1
  <2>4. LockStep'
    <3> SUFFICES ASSUME NEW u \in Tid, NEW v \in Tid, seg'[u] < seg'[v]
                 PROVE  /\ seg'[v] = seg'[u] + 1
                        /\ pc'[u] \in {"load", "wait", "asleep", "wake"}
                        /\ bar'[Bi(u)'] = 0
      BY DEF LockStep
    <3>1. u # t /\ seg'[u] = g /\ seg'[v] = g + 1 /\ seg[u] = g
      BY <1>2, <2>3 DEF Segment
    <3>2. PICK w \in Tid : seg[w] = g + 1
      BY <2>1 DEF Front
    <3>3. pc[u] \in Inside
      BY <3>1, <3>2 DEF BarrierInv, LockStep, Inside, Segment
    <3>4. Bi(u)' = g % 2
      BY <3>1 DEF Bi
    <3> QED BY <1>4, <2>1, <3>1, <3>3, <3>4 DEF Inside
  <2>5. Arrived(g + 1)' = Arrived(g + 1)
    BY <1>2, <1>4, <1>b DEF Arrived, Segment
  <2>6. ASSUME NEW s \in Segment, Front(s)'
        PROVE  bar[1 - (s % 2)] = 0 /\ Gathering(s)'
    <3>1. s = g + 1
      <4>1. \E u \in Tid : seg'[u] = s
        BY <2>6 DEF Front
      <4>2. g + 1 <= s
        BY <1>2, <2>6 DEF Front
      <4> QED BY <2>3, <4>1, <4>2 DEF Segment
    <3>2. Arrived(s)' = Arrived(s) /\ Gathering(s) /\ bar[1 - (s % 2)] = 0
      BY <2>2, <2>5, <3>1
    <3>3. \A u \in Arrived(s) : u # t /\ u \in Tid
      BY <1>b, <3>1 DEF Arrived, Segment
    <3>4. \A u \in Arrived(s)' : pc'[u] # "wake"
      BY <1>4, <3>2, <3>3 DEF Gathering
    <3> QED BY <3>2, <3>4 DEF Gathering
  <2> QED BY <1>1, <1>3, <1>5, <2>4, <2>6, <1>b DEF BarrierInv
<1> QED BY <1>7, <1>8

LEMMA BarrierInit == Init => BarrierInv
<1> SUFFICES ASSUME Init PROVE BarrierInv
  OBVIOUS
<1>1. /\ \A t \in Tid : seg[t] = 0 /\ pc[t] = "work"
      /\ bar \in [{0, 1} -> 0..MergeWorkers] /\ bar[0] = 0 /\ bar[1] = 0
      /\ seg \in [Tid -> Segment] /\ pc \in [Tid -> PC] /\ seen \in [Tid -> 0..MergeWorkers]
  BY Workers DEF Init, Segment, PC
<1>2. ControlOK
  BY <1>1 DEF ControlOK
<1>3. LockStep
  BY <1>1 DEF LockStep
<1>4. ASSUME NEW s \in Segment, Front(s) PROVE bar[1 - (s % 2)] = 0 /\ Gathering(s)
  <2>1. s = 0 /\ 0 % 2 = 0
    BY <1>1, <1>4 DEF Front
  <2>2. Arrived(s) = {}
    BY <1>1 DEF Arrived
  <2>3. Cardinality(Arrived(s)) = 0
    BY <2>2, FS_EmptySet
  <2> QED BY <1>1, <2>1, <2>2, <2>3 DEF Gathering
<1> QED BY <1>1, <1>2, <1>3, <1>4 DEF BarrierInv, Inside

LEMMA BarrierStep ==
    ASSUME BarrierInv, NEW t \in Tid, Step(t)
    PROVE  BarrierInv'
<1>0. seg \in [Tid -> Segment] /\ pc \in [Tid -> PC] /\ seen \in [Tid -> 0..MergeWorkers]
      /\ bar \in [{0, 1} -> 0..MergeWorkers] /\ Bi(t) \in {0, 1}
  <2>1. seg[t] \in Segment
    BY DEF BarrierInv, ControlOK
  <2> QED BY <2>1, Parity DEF BarrierInv, ControlOK, Bi
<1>1. CASE Count(t) \/ Scatter(t)
  <2>1. pc[t] = "work" /\ pc' = [pc EXCEPT ![t] = "arrive"] /\ UNCHANGED <<seg, seen, bar>>
    BY <1>1 DEF Count, Scatter
  <2> QED BY <1>0, <2>1, StayKeeps DEF PC
<1>2. CASE Arrive(t)
  BY <1>0, <1>2, CountIn DEF Arrive, PC
<1>3. CASE Release(t)
  BY <1>3, ReleaseKeeps
<1>4. CASE Wake(t)
  <2>1. /\ pc[t] = "wake" /\ seg' = [seg EXCEPT ![t] = @ + 1] /\ UNCHANGED <<seen, bar>>
        /\ pc' = [s \in Tid |-> IF s = t THEN "work"
                                ELSE IF pc[s] = "asleep" /\ Bi(s) = Bi(t) THEN "load"
                                ELSE pc[s]]
    BY <1>4 DEF Wake
  <2>2. /\ pc' \in [Tid -> PC] /\ pc'[t] = "work"
        /\ \A u \in Tid \ {t} : pc'[u] = pc[u] \/ (pc[u] = "asleep" /\ pc'[u] = "load")
    BY <1>0, <2>1 DEF PC
  <2> QED BY <1>0, <2>1, <2>2, EnterKeeps
<1>5. CASE Load(t)
  <2>0. seen' \in [Tid -> 0..MergeWorkers] /\ pc[t] = "load" /\ UNCHANGED bar
    BY <1>0, <1>5 DEF Load
  <2>1. CASE bar[Bi(t)] = 0
    <3>1. pc' = [pc EXCEPT ![t] = "work"] /\ seg' = [seg EXCEPT ![t] = @ + 1]
      BY <1>5, <2>1 DEF Load, Enter
    <3>2. /\ pc' \in [Tid -> PC] /\ pc'[t] = "work" /\ \A u \in Tid \ {t} : pc'[u] = pc[u]
      BY <1>0, <3>1 DEF PC
    <3> QED BY <2>0, <2>1, <3>1, <3>2, EnterKeeps
  <2>2. CASE bar[Bi(t)] # 0
    <3>1. pc' = [pc EXCEPT ![t] = "wait"] /\ UNCHANGED seg
      BY <1>5, <2>2 DEF Load
    <3> QED BY <2>0, <3>1, StayKeeps DEF PC
  <2> QED BY <2>1, <2>2
<1>6. CASE FutexWait(t)
  BY <1>0, <1>6, StayKeeps DEF FutexWait, PC
<1>7. CASE Finish(t)
  BY <1>0, <1>7, CountIn DEF Finish, PC
<1>8. CASE Subtract(t)
  BY <1>0, <1>8, StayKeeps DEF Subtract, PC
<1> QED BY <1>1, <1>2, <1>3, <1>4, <1>5, <1>6, <1>7, <1>8 DEF Step

LEMMA BarrierNext == BarrierInv /\ [Next]_vars => BarrierInv'
<1> SUFFICES ASSUME BarrierInv, [Next]_vars PROVE BarrierInv'
  OBVIOUS
<1>1. CASE UNCHANGED vars
  <2>1. UNCHANGED <<seg, pc, seen, bar>>
    BY <1>1 DEF vars
  <2>2. ControlOK' /\ LockStep'
    BY <2>1 DEF BarrierInv, ControlOK, LockStep, Bi
  <2>3. \A s \in Segment : /\ Front(s)' <=> Front(s)
                           /\ Arrived(s)' = Arrived(s)
                           /\ Open(s)' <=> Open(s)
    BY <2>1 DEF Front, Arrived, Open
  <2>4. \A s \in Segment : Gathering(s)' <=> Gathering(s)
    BY <2>1, <2>3 DEF Gathering
  <2> QED BY <2>1, <2>2, <2>3, <2>4 DEF BarrierInv, Bi
<1>2. CASE Next
  BY <1>2, BarrierStep DEF Next
<1> QED BY <1>1, <1>2

\* No task works on a segment while another is still at the one before.
THEOREM TasksInLockStep == Spec => []LockStep
<1>1. BarrierInv => LockStep
  BY DEF BarrierInv
<1> QED BY BarrierInit, BarrierNext, <1>1, PTL DEF Spec

-----------------------------------------------------------------------------
(* Counting and places.                                                    *)

LEMMA KeyRange ==
    ASSUME NEW p \in 0..3, NEW x \in Item
    PROVE  Key(p, x) \in {0, 1}
<1>1. x.hash \in 0..3 /\ x.score \in 0..3
  BY DEF Item
<1>2. CASE p = 0
  BY <1>1, <1>2 DEF Key
<1>3. CASE p = 1
  BY <1>1, <1>3 DEF Key
<1>4. CASE p = 2
  BY <1>1, <1>4 DEF Key
<1>5. CASE p = 3
  BY <1>1, <1>5 DEF Key
<1> QED BY <1>2, <1>3, <1>4, <1>5

\* The order in which a pass arranges the places of its source: by bucket, and
\* within a bucket as before.
Before(p, b, j, k) == Key(p, b[j]) < Key(p, b[k]) \/ (Key(p, b[j]) = Key(p, b[k]) /\ j < k)

Earlier(N, p, b, k) == {j \in 0..N - 1 : Before(p, b, j, k)}

Rank(N, p, b, k) == Cardinality(Earlier(N, p, b, k))

LEMMA Counted0 ==
    ASSUME NEW N \in Nat
    PROVE  IsFiniteSet(0..N - 1) /\ Cardinality(0..N - 1) = N
<1>1. 0 \in Int /\ N - 1 \in Int
  OBVIOUS
<1>2. /\ IsFiniteSet(0..N - 1)
      /\ Cardinality(0..N - 1) = IF 0 > N - 1 THEN 0 ELSE (N - 1) - 0 + 1
  BY <1>1, FS_Interval
<1> QED BY <1>2

LEMMA RankFacts ==
    ASSUME NEW N \in Nat, NEW p \in 0..3, NEW b \in [0..N - 1 -> Item]
    PROVE  /\ \A k \in 0..N - 1 : Rank(N, p, b, k) \in 0..N - 1
           /\ \A j, k \in 0..N - 1 : Before(p, b, j, k) => Rank(N, p, b, j) < Rank(N, p, b, k)
           /\ \A j, k \in 0..N - 1 : Rank(N, p, b, j) = Rank(N, p, b, k) => j = k
<1> DEFINE Pos == 0..N - 1
           R(k) == Rank(N, p, b, k)
<1>1. IsFiniteSet(Pos) /\ Cardinality(Pos) = N
  BY Counted0
<1>2. \A k \in Pos : Key(p, b[k]) \in {0, 1}
  BY KeyRange
<1>3. ASSUME NEW k \in Pos
      PROVE  /\ IsFiniteSet(Earlier(N, p, b, k)) /\ R(k) \in Nat /\ R(k) < N
             /\ k \notin Earlier(N, p, b, k) /\ Earlier(N, p, b, k) \in SUBSET Pos
  <2>1. k \notin Earlier(N, p, b, k) /\ Earlier(N, p, b, k) \in SUBSET Pos
    BY <1>2 DEF Earlier, Before
  <2>2. /\ IsFiniteSet(Earlier(N, p, b, k)) /\ Cardinality(Earlier(N, p, b, k)) <= N
        /\ Cardinality(Earlier(N, p, b, k)) = N => Pos = Earlier(N, p, b, k)
    BY <1>1, <2>1, FS_Subset
  <2>3. Cardinality(Earlier(N, p, b, k)) \in Nat
    BY <2>2, FS_CardinalityType
  <2> QED BY <2>1, <2>2, <2>3 DEF Rank
<1>4. ASSUME NEW j \in Pos, NEW k \in Pos, Before(p, b, j, k)
      PROVE  R(j) < R(k)
  <2>1. Earlier(N, p, b, j) \in SUBSET Earlier(N, p, b, k)
    <3> SUFFICES ASSUME NEW i \in Pos, Before(p, b, i, j) PROVE Before(p, b, i, k)
      BY DEF Earlier
    <3> QED BY <1>2, <1>4 DEF Before
  <2>2. j \in Earlier(N, p, b, k) /\ j \notin Earlier(N, p, b, j)
    BY <1>3, <1>4 DEF Earlier
  <2>3. /\ Cardinality(Earlier(N, p, b, j)) <= Cardinality(Earlier(N, p, b, k))
        /\ Cardinality(Earlier(N, p, b, j)) # Cardinality(Earlier(N, p, b, k))
    BY <1>3, <2>1, <2>2, FS_Subset
  <2> QED BY <1>3, <2>3 DEF Rank
<1>5. \A j, k \in Pos : j = k \/ Before(p, b, j, k) \/ Before(p, b, k, j)
  BY <1>2 DEF Before
<1>6. \A j, k \in Pos : R(j) = R(k) => j = k
  BY <1>3, <1>4, <1>5, SMTT(60)
<1>7. \A k \in Pos : R(k) \in Pos
  BY <1>3
<1> QED BY <1>4, <1>6, <1>7

LEMMA RankOnto ==
    ASSUME NEW N \in Nat, NEW p \in 0..3, NEW b \in [0..N - 1 -> Item], NEW x \in 0..N - 1
    PROVE  \E k \in 0..N - 1 : Rank(N, p, b, k) = x
<1> DEFINE Pos == 0..N - 1
           f == [k \in Pos |-> Rank(N, p, b, k)]
<1>1. IsFiniteSet(Pos)
  BY Counted0
<1>2. f \in [Pos -> Pos] /\ \A j, k \in Pos : f[j] = f[k] => j = k
  BY RankFacts, ZenonT(60)
<1>3. f \in Injection(Pos, Pos)
  BY <1>2 DEF Injection, IsInjective
<1>4. f \in Surjection(Pos, Pos)
  <2> HIDE DEF f, Pos
  <2> QED BY <1>1, <1>3, FS_Injection
<1> QED BY <1>4 DEF Surjection

\* A pass puts its items in the order of its key, and keeps the order it found
\* within a bucket.
LEMMA PassSorts ==
    ASSUME NEW N \in Nat, NEW p \in 0..3, NEW b \in [0..N - 1 -> Item], NEW c \in [0..N - 1 -> Item],
           \A k \in 0..N - 1 : c[Rank(N, p, b, k)] = b[k]
    PROVE  /\ \A x, y \in 0..N - 1 : x < y =>
                 \E j, k \in 0..N - 1 : c[x] = b[j] /\ c[y] = b[k] /\ Before(p, b, j, k)
           /\ \A x \in 0..N - 1 : \E k \in 0..N - 1 : c[x] = b[k]
           /\ \A k \in 0..N - 1 : \E x \in 0..N - 1 : c[x] = b[k]
<1>1. /\ \A k \in 0..N - 1 : Rank(N, p, b, k) \in 0..N - 1
      /\ \A j, k \in 0..N - 1 : Before(p, b, j, k) => Rank(N, p, b, j) < Rank(N, p, b, k)
  BY RankFacts
<1>0. ASSUME NEW x \in 0..N - 1 PROVE \E k \in 0..N - 1 : Rank(N, p, b, k) = x
  BY RankOnto, Zenon
<1> DEFINE Pos == 0..N - 1
           R(k) == Rank(N, p, b, k)
<1>2. \A j, k \in Pos : j = k \/ Before(p, b, j, k) \/ Before(p, b, k, j)
  <2>1. \A k \in Pos : Key(p, b[k]) \in {0, 1}
    BY KeyRange
  <2> QED BY <2>1 DEF Before
<1>3. ASSUME NEW x \in Pos, NEW y \in Pos, x < y
      PROVE  \E j, k \in Pos : c[x] = b[j] /\ c[y] = b[k] /\ Before(p, b, j, k)
  <2>1. PICK j \in Pos : R(j) = x
    BY <1>0
  <2>2. PICK k \in Pos : R(k) = y
    BY <1>0
  <2>3. j # k /\ ~ Before(p, b, k, j)
    <3>1. j # k
      BY <1>3, <2>1, <2>2
    <3>2. Before(p, b, k, j) => R(k) < R(j)
      BY <1>1
    <3>3. ~ (R(k) < R(j))
      BY <1>3, <2>1, <2>2
    <3> QED BY <3>1, <3>2, <3>3
  <2>4. Before(p, b, j, k)
    BY <1>2, <2>3
  <2> QED BY <2>1, <2>2, <2>4
<1>4. \A x \in Pos : \E k \in Pos : c[x] = b[k]
  BY <1>0
<1>5. \A k \in Pos : \E x \in Pos : c[x] = b[k]
  BY <1>1
<1> QED BY <1>3, <1>4, <1>5

-----------------------------------------------------------------------------
(* The chunks of the tasks.                                                *)

LEMMA Least ==
    ASSUME NEW S, S \subseteq Nat, S # {}
    PROVE  \E m \in S : \A k \in S : m <= k
<1> DEFINE Below(k) == 0..k - 1
           T == {Below(k) : k \in S}
<1>1. T \subseteq FiniteSubsetsOf(Nat) /\ T # {}
  <2>1. \A k \in S : IsFiniteSet(Below(k)) /\ Below(k) \in SUBSET Nat
    BY Counted0
  <2> QED BY <2>1 DEF FiniteSubsetsOf
<1>2. PICK x \in T : \A y \in T : ~ (<<y, x>> \in StrictSubsetOrdering(Nat))
  <2> HIDE DEF T
  <2> QED BY <1>1, FS_StrictSubsetOrderingWellFounded, WFMin
<1>3. PICK m \in S : x = Below(m)
  BY <1>2
<1>4. ASSUME NEW k \in S, k < m PROVE FALSE
  <2>1. /\ Below(k) \in T /\ Below(k) \in SUBSET Nat /\ Below(m) \in SUBSET Nat
        /\ Below(k) \subseteq Below(m)
    BY <1>4
  <2>2. k \in Below(m) /\ k \notin Below(k)
    BY <1>4
  <2>3. <<Below(k), Below(m)>> \in StrictSubsetOrdering(Nat)
    <3> HIDE DEF Below
    <3> QED BY <2>1, <2>2 DEF StrictSubsetOrdering
  <2> QED BY <1>2, <1>3, <2>1, <2>3
<1> QED BY <1>4

First(t) == t * Chunk(n)
Last(t) == Smaller((t + 1) * Chunk(n), n)

LEMMA Products ==
    ASSUME NEW c \in Nat
    PROVE  /\ \A i \in Nat : i * c \in Nat
           /\ \A i, j \in Nat : i <= j => i * c <= j * c
<1>1. \A i \in Nat : i * c \in Nat
  OBVIOUS
<1>2. ASSUME NEW i \in Nat, NEW j \in Nat, i <= j
      PROVE  i * c <= j * c
  <2>1. PICK d \in Nat : j = i + d
    BY <1>2
  <2>2. j * c = i * c + d * c /\ d * c \in Nat /\ i * c \in Nat
    BY <2>1
  <2> QED BY <2>2
<1> QED BY <1>1, <1>2

LEMMA ChunkCovers ==
    ASSUME n \in Nat
    PROVE  Chunk(n) \in Nat /\ n <= MergeWorkers * Chunk(n)
<1> DEFINE m == n + MergeWorkers - 1
           q == m \div MergeWorkers
<1>1. m \in Nat /\ MergeWorkers \in Nat \ {0} /\ m = n + MergeWorkers - 1
  BY Workers
<1>2. q \in Nat /\ MergeWorkers * q <= m /\ m < MergeWorkers * q + MergeWorkers
  BY <1>1
<1> QED BY <1>1, <1>2 DEF Chunk

\* The tasks share the places among them, in their order.
Split(lo, hi) ==
    /\ \A t \in Tid : lo[t] \in Nat /\ hi[t] \in 0..n
    /\ \A s, t \in Tid : s < t => hi[s] <= lo[t]
    /\ \A k \in 0..n - 1 : \E t \in Tid : lo[t] <= k /\ k < hi[t]

LEMMA Chunks ==
    ASSUME n \in Nat
    PROVE  /\ \A t \in Tid : /\ t \in Nat /\ First(t) \in Nat /\ Last(t) \in 0..n
                             /\ Last(t) = First(t + 1) \/ Last(t) = n
                             /\ Last(t) <= First(t + 1)
           /\ \A s, t \in Tid : s < t => First(s + 1) <= First(t)
           /\ First(0) = 0 /\ Last(MergeWorkers - 1) = n /\ 0 \in Tid /\ MergeWorkers - 1 \in Tid
<1> DEFINE c == Chunk(n)
           f(i) == i * c
<1>1. c \in Nat /\ n <= f(MergeWorkers)
  BY ChunkCovers
<1>2. (\A i \in Nat : f(i) \in Nat) /\ \A i, j \in Nat : i <= j => f(i) <= f(j)
  <2> HIDE DEF c
  <2> QED BY <1>1, Products
<1>3. f(0) = 0
  <2> HIDE DEF c
  <2> QED BY <1>1
<1>4. \A t \in Tid : t \in Nat /\ t + 1 \in Nat
  BY Workers
<1>5. \A t \in Tid : First(t) = f(t) /\ First(t + 1) = f(t + 1) /\ Last(t) = Smaller(f(t + 1), n)
  BY DEF First, Last
<1>6. First(0) = f(0) /\ Last(MergeWorkers - 1) = Smaller(f(MergeWorkers), n)
  <2>1. (MergeWorkers - 1) + 1 = MergeWorkers
    BY Workers
  <2> QED BY <2>1 DEF First, Last
<1> HIDE DEF f, c
<1>7. \A s, t \in Tid : s < t => f(s + 1) <= f(t)
  BY <1>2, <1>4
<1>8. 0 \in Tid /\ MergeWorkers - 1 \in Tid /\ MergeWorkers \in Nat
  BY Workers
<1>9. Last(MergeWorkers - 1) = n
  BY <1>1, <1>2, <1>6, <1>8 DEF Smaller
<1>10. \A t \in Tid : /\ First(t) \in Nat /\ Last(t) \in 0..n
                      /\ Last(t) = First(t + 1) \/ Last(t) = n
                      /\ Last(t) <= First(t + 1)
  BY <1>2, <1>4, <1>5 DEF Smaller
<1> QED BY <1>3, <1>4, <1>5, <1>6, <1>7, <1>8, <1>9, <1>10

\* They still do when every border is moved in the same way.
LEMMA SplitBy ==
    ASSUME n \in Nat, NEW e \in [Nat -> Nat], e[0] = 0,
           \A i, j \in Nat : i <= j => e[i] <= e[j],
           \A i \in Nat : (i <= n => e[i] <= n) /\ (i >= n => e[i] = i)
    PROVE  Split([t \in Tid |-> e[First(t)]], [t \in Tid |-> e[Last(t)]])
<1>1. \A t \in Tid : e[First(t)] \in Nat /\ e[Last(t)] \in 0..n
  BY Chunks
<1>2. ASSUME NEW s \in Tid, NEW t \in Tid, s < t
      PROVE  e[Last(s)] <= e[First(t)]
  <2>1. Last(s) \in Nat /\ First(s + 1) \in Nat /\ First(t) \in Nat
        /\ Last(s) <= First(s + 1) /\ First(s + 1) <= First(t)
    <3>1. s + 1 \in Nat /\ First(s + 1) = (s + 1) * Chunk(n)
      BY Workers DEF First
    <3>2. First(s + 1) \in Nat
      BY <3>1, ChunkCovers, Products
    <3> QED BY <1>2, <3>2, Chunks
  <2> QED BY <2>1
<1>3. ASSUME NEW k \in 0..n - 1
      PROVE  \E t \in Tid : e[First(t)] <= k /\ k < e[Last(t)]
  <2> DEFINE S == {t \in Tid : k < e[Last(t)]}
  <2>1. S \subseteq Nat /\ MergeWorkers - 1 \in S
    <3>1. e[n] = n /\ k < n
      OBVIOUS
    <3> QED BY <3>1, Chunks
  <2>2. PICK t \in S : \A s \in S : t <= s
    <3> HIDE DEF S
    <3> QED BY <2>1, Least
  <2>3. CASE t = 0
    BY <2>2, <2>3, Chunks
  <2>4. CASE t # 0
    <3>1. t - 1 \in Tid /\ (t - 1) + 1 = t /\ t \in Tid /\ t \in Nat
      BY <2>2, <2>4, Workers
    <3>2. ~ (k < e[Last(t - 1)])
      BY <2>2, <3>1
    <3>3. Last(t - 1) \in 0..n /\ (Last(t - 1) = First(t) \/ Last(t - 1) = n)
      BY <3>1, Chunks
    <3>4. Last(t - 1) # n
      BY <3>2
    <3> QED BY <2>2, <3>1, <3>2, <3>3, <3>4
  <2> QED BY <2>3, <2>4
<1> QED BY <1>1, <1>2, <1>3 DEF Split

-----------------------------------------------------------------------------
(* The borders move past the runs of equal hashes.                         *)

IsBorder(h, k, e) ==
    /\ k = 0 \/ k >= n => e = k
    /\ 0 < k /\ k < n => /\ e \in k..n
                         /\ \A i \in k..e - 1 : h[i].hash = h[k - 1].hash
                         /\ e = n \/ h[e].hash # h[e - 1].hash

LEMMA BoundaryIs ==
    ASSUME n \in Nat, NEW h, NEW k \in Nat
    PROVE  IsBorder(h, k, Boundary(h, k))
<1>1. CASE ~ (0 < k /\ k < n /\ h[k].hash = h[k - 1].hash)
  BY <1>1 DEF IsBorder, Boundary
<1>2. CASE 0 < k /\ k < n /\ h[k].hash = h[k - 1].hash
  <2> DEFINE Ends(e) == /\ \A i \in k..e - 1 : h[i].hash = h[k].hash
                        /\ e = n \/ h[e].hash # h[k].hash
             S == {e \in k..n : e = n \/ h[e].hash # h[k].hash}
  <2>1. S \subseteq Nat /\ n \in S
    BY <1>2
  <2>2. PICK m \in S : \A e \in S : m <= e
    <3> HIDE DEF S
    <3> QED BY <2>1, Least
  <2>3. m \in k..n /\ Ends(m)
    <3>1. m \in k..n /\ (m = n \/ h[m].hash # h[k].hash)
      BY <2>2
    <3>2. ASSUME NEW i \in k..m - 1 PROVE h[i].hash = h[k].hash
      <4>1. i \in k..n /\ ~ (m <= i)
        BY <3>1
      <4> QED BY <2>2, <4>1
    <3> QED BY <3>1, <3>2
  <2>4. Boundary(h, k) = CHOOSE e \in k..n : Ends(e)
    BY <1>2 DEF Boundary, RunEnd
  <2>5. Boundary(h, k) \in k..n /\ Ends(Boundary(h, k))
    <3> HIDE DEF Ends
    <3> QED BY <2>3, <2>4
  <2> DEFINE e == Boundary(h, k)
  <2>6. e > k
    BY <1>2, <2>5
  <2>7. e - 1 \in k..e - 1 /\ h[e - 1].hash = h[k].hash
    BY <2>5, <2>6
  <2> HIDE DEF e
  <2> QED BY <1>2, <2>5, <2>7 DEF IsBorder, e
<1> QED BY <1>1, <1>2

LEMMA BorderOrder ==
    ASSUME n \in Nat, NEW h, NEW g, \A i \in 0..n - 1 : g[i].hash = h[i].hash,
           NEW j \in Nat, NEW k \in Nat, NEW d, NEW e,
           IsBorder(h, j, d), IsBorder(g, k, e), j <= k
    PROVE  d <= e
<1>1. CASE j = 0
  BY <1>1 DEF IsBorder
<1>2. CASE j >= n
  BY <1>2 DEF IsBorder
<1>3. CASE 0 < j /\ j < n /\ k >= n
  BY <1>3 DEF IsBorder
<1>4. CASE 0 < j /\ j < n /\ k < n
  <2>1. /\ d \in j..n /\ e \in k..n
        /\ \A i \in j..d - 1 : h[i].hash = h[j - 1].hash
        /\ e = n \/ g[e].hash # g[e - 1].hash
    BY <1>4 DEF IsBorder
  <2>2. ASSUME e < d PROVE FALSE
    <3>1. e \in j..d - 1 /\ e \in 0..n - 1 /\ e - 1 \in 0..n - 1 /\ e # n
      BY <1>4, <2>1, <2>2
    <3>2. h[e].hash = h[j - 1].hash
      BY <2>1, <3>1
    <3>3. h[e - 1].hash = h[j - 1].hash
      <4>1. e - 1 = j - 1 \/ e - 1 \in j..d - 1
        BY <1>4, <2>1, <3>1
      <4> QED BY <2>1, <4>1
    <3> QED BY <2>1, <3>1, <3>2, <3>3
  <2> QED BY <2>1, <2>2
<1> QED BY <1>1, <1>2, <1>3, <1>4

LEMMA Boundaries ==
    ASSUME n \in Nat, NEW h
    PROVE  /\ \A k \in Nat : Boundary(h, k) \in Nat
           /\ Boundary(h, 0) = 0
           /\ \A j, k \in Nat : j <= k => Boundary(h, j) <= Boundary(h, k)
           /\ \A k \in Nat : /\ k <= n => Boundary(h, k) <= n
                             /\ k >= n => Boundary(h, k) = k
<1>1. \A k \in Nat : IsBorder(h, k, Boundary(h, k))
  BY BoundaryIs
<1>2. \A j, k \in Nat : j <= k => Boundary(h, j) <= Boundary(h, k)
  BY <1>1, BorderOrder
<1>3. \A k \in Nat : /\ Boundary(h, k) \in Nat
                     /\ k <= n => Boundary(h, k) <= n
                     /\ k >= n => Boundary(h, k) = k
  BY <1>1 DEF IsBorder
<1>4. Boundary(h, 0) = 0
  BY <1>1 DEF IsBorder
<1> QED BY <1>2, <1>3, <1>4

\* They depend on the hashes alone.
LEMMA SameBoundaries ==
    ASSUME n \in Nat, NEW h, NEW g, \A i \in 0..n - 1 : g[i].hash = h[i].hash, NEW k \in Nat
    PROVE  Boundary(g, k) = Boundary(h, k)
<1>1. IsBorder(h, k, Boundary(h, k)) /\ IsBorder(g, k, Boundary(g, k))
  BY BoundaryIs
<1>2. Boundary(h, k) <= Boundary(g, k) /\ Boundary(g, k) <= Boundary(h, k)
  <2>1. \A i \in 0..n - 1 : h[i].hash = g[i].hash
    OBVIOUS
  <2>2. Boundary(h, k) <= Boundary(g, k)
    BY <1>1, BorderOrder
  <2>3. Boundary(g, k) <= Boundary(h, k)
    <3>1. k <= k
      OBVIOUS
    <3> QED BY <1>1, <2>1, <3>1, BorderOrder, Zenon
  <2> QED BY <2>2, <2>3
<1>3. Boundary(h, k) \in Nat /\ Boundary(g, k) \in Nat
  BY Boundaries
<1> QED BY <1>2, <1>3

LEMMA BorderSplit ==
    ASSUME n \in Nat, NEW h
    PROVE  Split([t \in Tid |-> Boundary(h, First(t))], [t \in Tid |-> Boundary(h, Last(t))])
<1> DEFINE e == [k \in Nat |-> Boundary(h, k)]
<1>1. /\ e \in [Nat -> Nat] /\ e[0] = 0
      /\ \A i, j \in Nat : i <= j => e[i] <= e[j]
      /\ \A i \in Nat : (i <= n => e[i] <= n) /\ (i >= n => e[i] = i)
  BY Boundaries
<1>2. \A t \in Tid : e[First(t)] = Boundary(h, First(t)) /\ e[Last(t)] = Boundary(h, Last(t))
  BY Chunks
<1> HIDE DEF e
<1>3. Split([t \in Tid |-> e[First(t)]], [t \in Tid |-> e[Last(t)]])
  BY <1>1, SplitBy
<1> QED BY <1>2, <1>3

LEMMA RawSplit ==
    ASSUME n \in Nat
    PROVE  Split([t \in Tid |-> First(t)], [t \in Tid |-> Last(t)])
<1> DEFINE e == [k \in Nat |-> k]
<1>1. /\ e \in [Nat -> Nat] /\ e[0] = 0
      /\ \A i, j \in Nat : i <= j => e[i] <= e[j]
      /\ \A i \in Nat : (i <= n => e[i] <= n) /\ (i >= n => e[i] = i)
  OBVIOUS
<1>2. \A t \in Tid : e[First(t)] = First(t) /\ e[Last(t)] = Last(t)
  BY Chunks
<1> HIDE DEF e
<1>3. Split([t \in Tid |-> e[First(t)]], [t \in Tid |-> e[Last(t)]])
  BY <1>1, SplitBy
<1> QED BY <1>2, <1>3

-----------------------------------------------------------------------------
(* The prefix sums.                                                        *)

Of(p, b, d, S) == {k \in S : Key(p, b[k]) = d}

LEMMA Counted ==
    ASSUME n \in Nat, NEW lo, NEW hi, Split(lo, hi), NEW p, NEW b, NEW d, NEW t \in Tid
    PROVE  /\ Of(p, b, d, lo[t]..hi[t] - 1) \subseteq 0..n - 1
           /\ IsFiniteSet(Of(p, b, d, lo[t]..hi[t] - 1))
           /\ InBucket(p, b, lo[t], hi[t], d) = Cardinality(Of(p, b, d, lo[t]..hi[t] - 1))
           /\ InBucket(p, b, lo[t], hi[t], d) \in 0..n
<1>1. Of(p, b, d, lo[t]..hi[t] - 1) \in SUBSET (0..n - 1)
  BY DEF Split, Of
<1>2. IsFiniteSet(0..n - 1) /\ Cardinality(0..n - 1) = n
  BY Counted0
<1>3. /\ IsFiniteSet(Of(p, b, d, lo[t]..hi[t] - 1))
      /\ Cardinality(Of(p, b, d, lo[t]..hi[t] - 1)) <= n
  BY <1>1, <1>2, FS_Subset
<1>4. Cardinality(Of(p, b, d, lo[t]..hi[t] - 1)) \in Nat
  BY <1>3, FS_CardinalityType
<1>5. InBucket(p, b, lo[t], hi[t], d) = Cardinality(Of(p, b, d, lo[t]..hi[t] - 1))
  BY DEF InBucket, Of
<1> QED BY <1>1, <1>3, <1>4, <1>5

\* The places of the tasks before t.
Sooner(lo, hi, t) == {k \in 0..n - 1 : \E s \in Tid : s < t /\ lo[s] <= k /\ k < hi[s]}

\* The sum over the tasks before t counts the items of the bucket in their places.
LEMMA TotalIs ==
    ASSUME n \in Nat, n <= MaxItems, NEW lo, NEW hi, Split(lo, hi), NEW p, NEW b, NEW d,
           \A u \in Tid : counts[u][d] = InBucket(p, b, lo[u], hi[u], d),
           NEW t \in 0..MergeWorkers
    PROVE  Total(t, d) = Cardinality(Of(p, b, d, Sooner(lo, hi, t)))
<1> DEFINE B(u) == Of(p, b, d, lo[u]..hi[u] - 1)
           N(u) == counts[u][d]
           F(u) == CHOOSE f : f \in Bijection(1..N(u), B(u))
           P == {c \in Tid \X (1..MaxItems) : c[1] < t /\ c[2] <= N(c[1])}
           T == Of(p, b, d, Sooner(lo, hi, t))
           g == [c \in P |-> F(c[1])[c[2]]]
<1>1. \A u \in Tid : IsFiniteSet(B(u)) /\ N(u) = Cardinality(B(u)) /\ N(u) \in 0..n /\ B(u) \subseteq 0..n - 1
  <2> TAKE u \in Tid
  <2>1. B(u) \subseteq 0..n - 1
    BY Counted
  <2>2. IsFiniteSet(B(u))
    BY Counted
  <2>3. InBucket(p, b, lo[u], hi[u], d) = Cardinality(B(u))
    BY DEF InBucket, Of
  <2>4. InBucket(p, b, lo[u], hi[u], d) \in 0..n
    BY Counted
  <2> QED BY <2>1, <2>2, <2>3, <2>4
<1>2. \A u \in Tid : F(u) \in Bijection(1..N(u), B(u))
  <2> TAKE u \in Tid
  <2>1. ExistsBijection(1..N(u), B(u))
    <3> HIDE DEF B, N
    <3> QED BY <1>1, FS_CardinalityType
  <2>2. \E f : f \in Bijection(1..N(u), B(u))
    <3> HIDE DEF B, N
    <3> QED BY <2>1 DEF ExistsBijection
  <2> HIDE DEF B, N
  <2> QED BY <2>2
<1>3. \A u \in Tid : /\ \A i \in 1..N(u) : F(u)[i] \in B(u)
                     /\ \A i, j \in 1..N(u) : F(u)[i] = F(u)[j] => i = j
                     /\ \A k \in B(u) : \E i \in 1..N(u) : F(u)[i] = k
  <2> HIDE DEF B, N, F
  <2> QED BY <1>2 DEF Bijection, Injection, IsInjective, Surjection
<1>4. \A u \in Tid : \A k : k \in B(u) <=> k \in 0..n - 1 /\ lo[u] <= k /\ k < hi[u] /\ Key(p, b[k]) = d
  BY DEF Split, Of
<1>5. \A u, v \in Tid : \A k : k \in B(u) /\ k \in B(v) => u = v
  <2> SUFFICES ASSUME NEW u \in Tid, NEW v \in Tid, NEW k \in 0..n - 1, u < v,
                      lo[u] <= k, k < hi[u], lo[v] <= k, k < hi[v]
               PROVE  FALSE
    BY <1>4, Workers, SMTT(60)
  <2> QED BY DEF Split
<1>6. \A k : k \in T <=> \E u \in Tid : u < t /\ k \in B(u)
  BY <1>4 DEF Of, Sooner
<1>7. \A c \in P : c[1] \in Tid /\ c[1] < t /\ c[2] \in 1..N(c[1]) /\ c = <<c[1], c[2]>>
  BY <1>1, Workers
<1>8. \A u \in Tid, i \in Nat : u < t /\ i \in 1..N(u) => <<u, i>> \in P
  BY <1>1, Workers
<1>9. IsFiniteSet(P)
  <2>1. IsFiniteSet(Tid) /\ IsFiniteSet(1..MaxItems)
    BY Tasks, Workers, FS_Interval
  <2>2. IsFiniteSet(Tid \X (1..MaxItems))
    BY <2>1, FS_Product
  <2>3. P \in SUBSET (Tid \X (1..MaxItems))
    OBVIOUS
  <2> HIDE DEF P
  <2> QED BY <2>2, <2>3, FS_Subset
<1> HIDE DEF B, N, F, P, T
<1>10. g \in [P -> T]
  BY <1>3, <1>6, <1>7
<1>11. \A c, e \in P : g[c] = g[e] => c = e
  BY <1>3, <1>5, <1>7
<1>12. \A k \in T : \E c \in P : g[c] = k
  <2> TAKE k \in T
  <2>1. PICK u \in Tid : u < t /\ k \in B(u)
    BY <1>6
  <2>2. PICK i \in 1..N(u) : F(u)[i] = k
    BY <1>3, <2>1
  <2>3. <<u, i>> \in P
    BY <1>8, <2>1, <2>2
  <2> WITNESS <<u, i>> \in P
  <2> QED BY <2>2, <2>3
<1>13. ExistsBijection(P, T)
  BY <1>10, <1>11, <1>12, ZenonT(60) DEF ExistsBijection, Bijection, Injection, IsInjective, Surjection
<1>14. Cardinality(T) = Cardinality(P)
  BY <1>9, <1>13, FS_Bijection
<1> QED BY <1>14 DEF Total, T, P, N

LEMMA DisjointUnion ==
    ASSUME NEW S, NEW T, IsFiniteSet(S), IsFiniteSet(T), S \cap T = {}
    PROVE  /\ IsFiniteSet(S \cup T) /\ Cardinality(S) \in Nat /\ Cardinality(T) \in Nat
           /\ Cardinality(S \cup T) = Cardinality(S) + Cardinality(T)
<1>1. Cardinality(S) \in Nat /\ Cardinality(T) \in Nat /\ Cardinality(S \cap T) = 0
  BY FS_CardinalityType, FS_EmptySet
<1>2. /\ IsFiniteSet(S \cup T)
      /\ Cardinality(S \cup T) = Cardinality(S) + Cardinality(T) - Cardinality(S \cap T)
  BY FS_Union
<1> QED BY <1>1, <1>2

\* Each item goes to the place of its rank.
LEMMA Placed ==
    ASSUME n \in Nat, n <= MaxItems, NEW lo, NEW hi, Split(lo, hi),
           NEW p \in 0..3, NEW b \in [0..n - 1 -> Item],
           \A u \in Tid, d \in {0, 1} : counts[u][d] = InBucket(p, b, lo[u], hi[u], d),
           NEW t \in Tid, NEW k \in lo[t]..hi[t] - 1
    PROVE  /\ k \in 0..n - 1
           /\ Offset(t, Key(p, b[k])) + InBucket(p, b, lo[t], k, Key(p, b[k])) = Rank(n, p, b, k)
<1> DEFINE A(d) == Of(p, b, d, Sooner(lo, hi, t))
           C(d) == Of(p, b, d, lo[t]..k - 1)
           Z == Of(p, b, 0, 0..n - 1)
<1>1. /\ lo[t] \in Nat /\ hi[t] \in 0..n /\ k \in 0..n - 1
      /\ lo[t] <= k /\ k < hi[t]
  BY DEF Split
<1>2. PICK d \in {0, 1} : Key(p, b[k]) = d
  <2>1. b[k] \in Item
    BY <1>1
  <2> QED BY <2>1, KeyRange
<1>3. \A j \in 0..n - 1 : Key(p, b[j]) \in {0, 1}
  BY KeyRange
<1>4. Sooner(lo, hi, MergeWorkers) = 0..n - 1
  <2>1. \A s \in Tid : s < MergeWorkers
    BY Workers
  <2>2. \A j \in 0..n - 1 : \E s \in Tid : lo[s] <= j /\ j < hi[s]
    BY DEF Split
  <2> QED BY <2>1, <2>2 DEF Sooner
<1>5. \A j \in 0..n - 1 : j < k <=> j \in Sooner(lo, hi, t) \/ j \in lo[t]..k - 1
  <2> TAKE j \in 0..n - 1
  <2>1. j \in Sooner(lo, hi, t) => j < k
    BY <1>1 DEF Sooner, Split
  <2>2. ASSUME j < k PROVE j \in Sooner(lo, hi, t) \/ j \in lo[t]..k - 1
    <3>1. PICK s \in Tid : lo[s] <= j /\ j < hi[s]
      BY DEF Split
    <3>2. ~ (t < s)
      <4>1. lo[s] \in Nat /\ (t < s => hi[t] <= lo[s])
        BY DEF Split
      <4> QED BY <1>1, <2>2, <3>1, <4>1
    <3>3. s < t \/ s = t
      BY <3>2, Workers
    <3>4. CASE s < t
      BY <3>1, <3>4 DEF Sooner
    <3>5. CASE s = t
      BY <1>1, <2>2, <3>1, <3>5
    <3> QED BY <3>3, <3>4, <3>5
  <2> QED BY <1>1, <2>1, <2>2
<1>6. \A j \in lo[t]..k - 1 : j \in 0..n - 1 /\ j \notin Sooner(lo, hi, t)
  <2> SUFFICES ASSUME NEW j \in lo[t]..k - 1, NEW s \in Tid, s < t, j < hi[s]
               PROVE  FALSE
    BY <1>1 DEF Sooner
  <2>1. hi[s] <= lo[t] /\ hi[s] \in Nat
    BY DEF Split
  <2> QED BY <1>1, <2>1
<1>7. /\ IsFiniteSet(A(d)) /\ IsFiniteSet(C(d)) /\ IsFiniteSet(Z)
      /\ Cardinality(A(d)) \in Nat /\ Cardinality(C(d)) \in Nat /\ Cardinality(Z) \in Nat
  <2>1. A(d) \in SUBSET (0..n - 1) /\ C(d) \in SUBSET (0..n - 1) /\ Z \in SUBSET (0..n - 1)
    BY <1>6 DEF Of, Sooner
  <2> HIDE DEF A, C, Z
  <2>2. IsFiniteSet(0..n - 1)
    BY Counted0
  <2>3. IsFiniteSet(A(d)) /\ IsFiniteSet(C(d)) /\ IsFiniteSet(Z)
    BY <2>1, <2>2, FS_Subset
  <2> QED BY <2>3, FS_CardinalityType
<1>8. Cardinality(A(d) \cup C(d)) = Cardinality(A(d)) + Cardinality(C(d)) /\ IsFiniteSet(A(d) \cup C(d))
  <2>1. A(d) \cap C(d) = {}
    BY <1>6 DEF Of
  <2> HIDE DEF A, C
  <2> QED BY <1>7, <2>1, DisjointUnion
<1>9. /\ Total(t, d) = Cardinality(A(d)) /\ InBucket(p, b, lo[t], k, d) = Cardinality(C(d))
      /\ Total(MergeWorkers, 0) = Cardinality(Z)
  <2>1. t \in 0..MergeWorkers /\ MergeWorkers \in 0..MergeWorkers
    BY Workers
  <2>2. /\ \A u \in Tid : counts[u][d] = InBucket(p, b, lo[u], hi[u], d)
        /\ \A u \in Tid : counts[u][0] = InBucket(p, b, lo[u], hi[u], 0)
    OBVIOUS
  <2>3. Total(t, d) = Cardinality(A(d))
    BY <2>1, <2>2, TotalIs
  <2>4. Total(MergeWorkers, 0) = Cardinality(Of(p, b, 0, Sooner(lo, hi, MergeWorkers)))
    BY <2>1, <2>2, TotalIs
  <2>5. InBucket(p, b, lo[t], k, d) = Cardinality(C(d))
    BY DEF InBucket, Of
  <2> QED BY <1>4, <2>3, <2>4, <2>5
<1>10. CASE d = 0
  <2>1. Earlier(n, p, b, k) = A(d) \cup C(d)
    <3>1. \A j : j \in A(d) \cup C(d) <=> j \in 0..n - 1 /\ j < k /\ Key(p, b[j]) = d
      BY <1>5, <1>6 DEF Of, Sooner
    <3>2. \A j \in 0..n - 1 : Before(p, b, j, k) <=> j < k /\ Key(p, b[j]) = d
      BY <1>2, <1>3, <1>10 DEF Before
    <3> HIDE DEF A, C
    <3> QED BY <3>1, <3>2 DEF Earlier
  <2>2. Offset(t, d) = Total(t, d)
    BY <1>7, <1>9, <1>10 DEF Offset
  <2> QED BY <1>1, <1>2, <1>8, <1>9, <2>1, <2>2 DEF Rank
<1>11. CASE d = 1
  <2>1. Earlier(n, p, b, k) = Z \cup (A(d) \cup C(d))
    <3>1. \A j : j \in A(d) \cup C(d) <=> j \in 0..n - 1 /\ j < k /\ Key(p, b[j]) = d
      BY <1>5, <1>6 DEF Of, Sooner
    <3>2. \A j \in 0..n - 1 : Before(p, b, j, k) <=> Key(p, b[j]) = 0 \/ (j < k /\ Key(p, b[j]) = d)
      BY <1>2, <1>3, <1>11 DEF Before
    <3>3. \A j : j \in Z <=> j \in 0..n - 1 /\ Key(p, b[j]) = 0
      BY DEF Of
    <3> HIDE DEF A, C, Z
    <3> QED BY <3>1, <3>2, <3>3 DEF Earlier
  <2>2. Z \cap (A(d) \cup C(d)) = {}
    BY <1>11 DEF Of
  <2>3. Cardinality(Z \cup (A(d) \cup C(d))) = Cardinality(Z) + Cardinality(A(d) \cup C(d))
    <3> HIDE DEF A, C, Z
    <3> QED BY <1>7, <1>8, <2>2, DisjointUnion
  <2>4. Offset(t, d) = Total(MergeWorkers, 0) + Total(t, d)
    BY <1>11 DEF Offset
  <2> HIDE DEF A, C, Z
  <2> QED BY <1>1, <1>2, <1>7, <1>8, <1>9, <2>1, <2>3, <2>4 DEF Rank
<1> QED BY <1>2, <1>10, <1>11

-----------------------------------------------------------------------------
(* The items.                                                              *)

InputOK ==
    /\ n \in 0..MaxItems
    /\ input \in [0..n - 1 -> Item]
    /\ \A k \in 0..n - 1 : input[k].id = k /\ ~ input[k].dup /\ input[k].score \in Scores

\* Of the items with a hash there is a best.
LEMMA BestIs ==
    ASSUME InputOK, NEW v \in Found
    PROVE  \E i \in 0..n - 1 : Best(v) = input[i] /\ input[i].hash = v
<1> DEFINE K == {j \in 0..n - 1 : input[j].hash = v}
           S == {input[k] : k \in K}
           Bests(x) == \A y \in S : x = y \/ Better(x, y)
<1>1. /\ n \in Nat
      /\ \A k \in K : k \in 0..n - 1 /\ input[k] \in Item /\ input[k].id = k /\ input[k].score \in 0..3
  BY DEF InputOK, Item
<1>2. K # {}
  BY DEF Found
<1>3. PICK k \in K : \A j \in K : input[j].score <= input[k].score
  <2> DEFINE T == {3 - input[j].score : j \in K}
  <2>0. \A j \in K : input[j].score \in 0..3
    BY <1>1
  <2> HIDE DEF K
  <2>1. T \subseteq Nat /\ T # {}
    <3>1. \A j \in K : 3 - input[j].score \in Nat
      BY <2>0
    <3> QED BY <1>2, <3>1
  <2>2. PICK m \in T : \A x \in T : m <= x
    <3> HIDE DEF T
    <3> QED BY <2>1, Least
  <2>3. PICK j \in K : m = 3 - input[j].score
    BY <2>2
  <2>4. ASSUME NEW i \in K PROVE input[i].score <= input[j].score
    <3>1. m <= 3 - input[i].score
      BY <2>2
    <3> QED BY <2>0, <2>3, <3>1
  <2> QED BY <2>3, <2>4
<1>4. PICK i \in K : /\ input[i].score = input[k].score
                     /\ \A j \in K : input[j].score = input[k].score => j <= i
  <2> DEFINE T == {n - j : j \in {x \in K : input[x].score = input[k].score}}
  <2>1. T \subseteq Nat /\ n - k \in T
    BY <1>1
  <2>2. PICK m \in T : \A x \in T : m <= x
    <3> HIDE DEF T
    <3> QED BY <2>1, Least
  <2>3. PICK j \in K : m = n - j /\ input[j].score = input[k].score
    BY <2>2
  <2>4. ASSUME NEW x \in K, input[x].score = input[k].score PROVE x <= j
    <3>1. m <= n - x
      BY <2>2, <2>4
    <3>2. n \in Nat /\ x \in Nat /\ j \in Nat
      BY <1>1
    <3> QED BY <2>3, <3>1, <3>2
  <2> QED BY <2>3, <2>4
<1>5. input[i] \in S /\ Bests(input[i])
  <2> SUFFICES ASSUME NEW j \in K PROVE input[i] = input[j] \/ Better(input[i], input[j])
    OBVIOUS
  <2> QED BY <1>1, <1>3, <1>4 DEF Better
<1>6. Best(v) = CHOOSE x \in S : Bests(x)
  BY DEF Best, BestOf
<1>7. Best(v) \in S
  <2> HIDE DEF S, Bests
  <2> QED BY <1>5, <1>6
<1> QED BY <1>7

\* What a pass makes of its source.
Arranged(p, b, c) ==
    /\ \A x, y \in 0..n - 1 : x < y =>
          \E j, k \in 0..n - 1 : c[x] = b[j] /\ c[y] = b[k] /\ Before(p, b, j, k)
    /\ \A x \in 0..n - 1 : \E k \in 0..n - 1 : c[x] = b[k]
    /\ \A k \in 0..n - 1 : \E x \in 0..n - 1 : c[x] = b[k]

\* All items are there.
Whole(c) ==
    /\ \A x \in 0..n - 1 : \E k \in 0..n - 1 : c[x] = input[k]
    /\ \A k \in 0..n - 1 : \E x \in 0..n - 1 : c[x] = input[k]

\* The best items are there, each in one place, and duplicates of score 0.
Tidy(c) ==
    /\ \A x \in 0..n - 1 : (c[x].dup /\ c[x].score = 0) \/ \E v \in Found : c[x] = Best(v)
    /\ \A v \in Found : \E x \in 0..n - 1 : c[x] = Best(v)
    /\ \A x, y \in 0..n - 1 : ~ c[x].dup /\ ~ c[y].dup /\ c[x].hash = c[y].hash => x = y

Ordered(p, c) == \A x, y \in 0..n - 1 : x < y => Key(p, c[x]) <= Key(p, c[y])
ByHash(c) == \A x, y \in 0..n - 1 : x < y => c[x].hash <= c[y].hash
ByScore(c) == \A x, y \in 0..n - 1 : x < y => c[x].score >= c[y].score

LEMMA ArrangedWhole ==
    ASSUME NEW p, NEW b, NEW c, Whole(b), Arranged(p, b, c)
    PROVE  Whole(c)
<1>1. ASSUME NEW x \in 0..n - 1 PROVE \E k \in 0..n - 1 : c[x] = input[k]
  <2>1. PICK j \in 0..n - 1 : c[x] = b[j]
    BY DEF Arranged
  <2> QED BY <2>1 DEF Whole
<1>2. ASSUME NEW k \in 0..n - 1 PROVE \E x \in 0..n - 1 : c[x] = input[k]
  <2>1. PICK j \in 0..n - 1 : b[j] = input[k]
    BY DEF Whole
  <2>2. PICK x \in 0..n - 1 : c[x] = b[j]
    BY DEF Arranged
  <2> QED BY <2>1, <2>2
<1> QED BY <1>1, <1>2 DEF Whole

LEMMA ArrangedTidy ==
    ASSUME n \in Nat, NEW p \in 0..3, NEW b \in [0..n - 1 -> Item], NEW c, Tidy(b), Arranged(p, b, c)
    PROVE  Tidy(c)
<1>1. ASSUME NEW x \in 0..n - 1
      PROVE  (c[x].dup /\ c[x].score = 0) \/ \E v \in Found : c[x] = Best(v)
  <2>1. PICK j \in 0..n - 1 : c[x] = b[j]
    BY DEF Arranged
  <2> QED BY <2>1 DEF Tidy
<1>2. ASSUME NEW v \in Found PROVE \E x \in 0..n - 1 : c[x] = Best(v)
  <2>1. PICK j \in 0..n - 1 : b[j] = Best(v)
    BY DEF Tidy
  <2>2. PICK x \in 0..n - 1 : c[x] = b[j]
    BY DEF Arranged
  <2> QED BY <2>1, <2>2
<1>3. ASSUME NEW x \in 0..n - 1, NEW y \in 0..n - 1, x < y,
             ~ c[x].dup, ~ c[y].dup, c[x].hash = c[y].hash
      PROVE  FALSE
  <2>1. PICK j \in 0..n - 1, k \in 0..n - 1 : c[x] = b[j] /\ c[y] = b[k] /\ Before(p, b, j, k)
    BY <1>3 DEF Arranged
  <2>2. j = k
    BY <1>3, <2>1 DEF Tidy
  <2>3. Key(p, b[j]) \in {0, 1}
    BY KeyRange
  <2> QED BY <2>1, <2>2, <2>3 DEF Before
<1> QED BY <1>1, <1>2, <1>3 DEF Tidy

\* A pass orders by its key and keeps the order of the pass before.
LEMMA ArrangedOrder ==
    ASSUME n \in Nat, NEW p \in 0..3, NEW b \in [0..n - 1 -> Item], NEW c, Arranged(p, b, c)
    PROVE  Ordered(p, c)
<1> SUFFICES ASSUME NEW x \in 0..n - 1, NEW y \in 0..n - 1, x < y
             PROVE  Key(p, c[x]) <= Key(p, c[y])
  BY DEF Ordered
<1>1. PICK j \in 0..n - 1, k \in 0..n - 1 : c[x] = b[j] /\ c[y] = b[k] /\ Before(p, b, j, k)
  BY ZenonT(60) DEF Arranged
<1>2. Key(p, b[j]) \in {0, 1} /\ Key(p, b[k]) \in {0, 1}
  BY KeyRange
<1> QED BY <1>1, <1>2 DEF Before

LEMMA ArrangedKeeps ==
    ASSUME n \in Nat, NEW p \in 0..3, NEW q \in 0..3, NEW b \in [0..n - 1 -> Item], NEW c,
           Arranged(p, b, c), Ordered(q, b),
           NEW x \in 0..n - 1, NEW y \in 0..n - 1, x < y
    PROVE  \/ Key(p, c[x]) < Key(p, c[y])
           \/ Key(p, c[x]) = Key(p, c[y]) /\ Key(q, c[x]) <= Key(q, c[y])
<1>1. PICK j \in 0..n - 1, k \in 0..n - 1 : c[x] = b[j] /\ c[y] = b[k] /\ Before(p, b, j, k)
  BY ZenonT(60) DEF Arranged
<1>2. j < k => Key(q, b[j]) <= Key(q, b[k])
  BY DEF Ordered
<1> QED BY <1>1, <1>2 DEF Before

LEMMA HashSorted ==
    ASSUME n \in Nat, NEW b \in [0..n - 1 -> Item], NEW c \in [0..n - 1 -> Item],
           Arranged(1, b, c), Ordered(0, b)
    PROVE  ByHash(c)
<1> SUFFICES ASSUME NEW x \in 0..n - 1, NEW y \in 0..n - 1, x < y
             PROVE  c[x].hash <= c[y].hash
  BY DEF ByHash
<1>1. \/ Key(1, c[x]) < Key(1, c[y])
      \/ Key(1, c[x]) = Key(1, c[y]) /\ Key(0, c[x]) <= Key(0, c[y])
  BY ArrangedKeeps
<1>2. c[x].hash \in 0..3 /\ c[y].hash \in 0..3
  BY DEF Item
<1> QED BY <1>1, <1>2 DEF Key

LEMMA ScoreSorted ==
    ASSUME n \in Nat, NEW b \in [0..n - 1 -> Item], NEW c \in [0..n - 1 -> Item],
           Arranged(3, b, c), Ordered(2, b)
    PROVE  ByScore(c)
<1> SUFFICES ASSUME NEW x \in 0..n - 1, NEW y \in 0..n - 1, x < y
             PROVE  c[x].score >= c[y].score
  BY DEF ByScore
<1>1. \/ Key(3, c[x]) < Key(3, c[y])
      \/ Key(3, c[x]) = Key(3, c[y]) /\ Key(2, c[x]) <= Key(2, c[y])
  BY ArrangedKeeps
<1>2. c[x].score \in 0..3 /\ c[y].score \in 0..3
  BY DEF Item
<1> QED BY <1>1, <1>2 DEF Key

\* The items that are no duplicates are as many as the hashes found.
LEMMA TidyPlaces ==
    ASSUME InputOK, NEW c, Tidy(c)
    PROVE  LET P == {x \in 0..n - 1 : ~ c[x].dup}
           IN  /\ IsFiniteSet(P) /\ Cardinality(P) = Cardinality(Found)
               /\ \A x \in P : \E v \in Found : c[x] = Best(v)
               /\ \A v \in Found : \E x \in P : c[x] = Best(v)
<1> DEFINE P == {x \in 0..n - 1 : ~ c[x].dup}
           g == [x \in P |-> c[x].hash]
<1>1. \A v \in Found : Best(v).hash = v /\ ~ Best(v).dup
  <2> TAKE v \in Found
  <2>1. PICK i \in 0..n - 1 : Best(v) = input[i] /\ input[i].hash = v
    BY BestIs
  <2> QED BY <2>1 DEF InputOK
<1>2. \A x \in P : \E v \in Found : c[x] = Best(v)
  BY DEF Tidy
<1>3. \A v \in Found : \E x \in P : c[x] = Best(v)
  <2> TAKE v \in Found
  <2>1. PICK x \in 0..n - 1 : c[x] = Best(v)
    BY DEF Tidy
  <2>2. x \in P
    BY <1>1, <2>1
  <2> QED BY <2>1, <2>2
<1>4. IsFiniteSet(P)
  <2>1. IsFiniteSet(0..n - 1) /\ P \in SUBSET (0..n - 1)
    BY Counted0 DEF InputOK
  <2> HIDE DEF P
  <2> QED BY <2>1, FS_Subset
<1>5. \A x, y \in P : c[x].hash = c[y].hash => x = y
  BY DEF Tidy
<1> HIDE DEF P
<1>6. g \in [P -> Found] /\ \A v \in Found : \E x \in P : g[x] = v
  <2>1. ASSUME NEW x \in P PROVE c[x].hash \in Found
    <3>1. PICK v \in Found : c[x] = Best(v)
      BY <1>2
    <3> QED BY <1>1, <3>1
  <2>2. ASSUME NEW v \in Found PROVE \E x \in P : g[x] = v
    <3>1. PICK x \in P : c[x] = Best(v)
      BY <1>3
    <3>2. g[x] = c[x].hash
      OBVIOUS
    <3> QED BY <1>1, <3>1, <3>2
  <2> QED BY <2>1, <2>2
<1>7. ExistsBijection(P, Found)
  <2>1. \A x, y \in P : g[x] = g[y] => x = y
    BY <1>5
  <2> HIDE DEF g
  <2> QED BY <1>6, <2>1 DEF ExistsBijection, Bijection, Injection, IsInjective, Surjection
<1>8. Cardinality(Found) = Cardinality(P)
  BY <1>4, <1>7, FS_Bijection
<1> QED BY <1>2, <1>3, <1>4, <1>8 DEF P

LEMMA Prefix ==
    ASSUME n \in Nat, NEW P \in SUBSET (0..n - 1), \A x \in P, y \in 0..n - 1 : y < x => y \in P
    PROVE  P = 0..Cardinality(P) - 1 /\ Cardinality(P) \in 0..n
<1>1. IsFiniteSet(0..n - 1) /\ Cardinality(0..n - 1) = n
  BY Counted0
<1>2. IsFiniteSet(P) /\ Cardinality(P) <= n
  BY <1>1, FS_Subset
<1>3. Cardinality(P) \in Nat
  BY <1>2, FS_CardinalityType
<1>4. ASSUME NEW x \in P PROVE x < Cardinality(P)
  <2>1. 0..(x + 1) - 1 \in SUBSET P /\ x + 1 \in Nat
    BY <1>4
  <2>2. Cardinality(0..(x + 1) - 1) = x + 1
    BY <2>1, Counted0
  <2>3. Cardinality(0..(x + 1) - 1) <= Cardinality(P)
    BY <1>2, <2>1, FS_Subset
  <2> QED BY <1>3, <2>1, <2>2, <2>3
<1>5. P \in SUBSET (0..Cardinality(P) - 1)
  BY <1>3, <1>4
<1>6. IsFiniteSet(0..Cardinality(P) - 1) /\ Cardinality(0..Cardinality(P) - 1) = Cardinality(P)
  BY <1>3, Counted0
<1>7. 0..Cardinality(P) - 1 = P
  BY <1>5, <1>6, FS_Subset
<1> QED BY <1>2, <1>3, <1>7

\* In the sorted list they come first.
LEMMA BestFirst ==
    ASSUME InputOK, 0 \notin Scores, NEW c \in [0..n - 1 -> Item], Tidy(c), ByScore(c)
    PROVE  /\ Cardinality(Found) \in 0..n
           /\ {c[k] : k \in 0..Cardinality(Found) - 1} = {Best(h) : h \in Found}
           /\ \A k \in Cardinality(Found)..n - 1 : c[k].dup
<1> DEFINE P == {x \in 0..n - 1 : ~ c[x].dup}
           M == Cardinality(Found)
<1>1. /\ Cardinality(P) = M
      /\ \A x \in P : \E v \in Found : c[x] = Best(v)
      /\ \A v \in Found : \E x \in P : c[x] = Best(v)
  BY TidyPlaces
<1>2. \A v \in Found : Best(v).score \in 1..3
  <2> TAKE v \in Found
  <2>1. PICK i \in 0..n - 1 : Best(v) = input[i] /\ input[i].hash = v
    BY BestIs
  <2>2. input[i].score \in 0..3 /\ input[i].score # 0
    BY DEF InputOK, Item
  <2> QED BY <2>1, <2>2
<1>3. ASSUME NEW x \in P, NEW y \in 0..n - 1, y < x PROVE y \in P
  <2>1. c[x].score \in 1..3
    BY <1>1, <1>2
  <2>2. x \in 0..n - 1 /\ c[y].score >= c[x].score
    BY <1>3 DEF ByScore
  <2>3. c[y].score # 0
    BY <2>1, <2>2
  <2>4. \E v \in Found : c[y] = Best(v)
    BY <2>3 DEF Tidy
  <2>5. ~ c[y].dup
    <3>1. PICK v \in Found : c[y] = Best(v)
      BY <2>4
    <3>2. PICK i \in 0..n - 1 : Best(v) = input[i]
      BY BestIs
    <3> QED BY <3>1, <3>2 DEF InputOK
  <2> QED BY <2>5
<1>4. P \in SUBSET (0..n - 1) /\ n \in Nat
  BY DEF InputOK
<1>5. P = 0..M - 1 /\ M \in 0..n
  <2> HIDE DEF P
  <2>1. P = 0..Cardinality(P) - 1 /\ Cardinality(P) \in 0..n
    BY <1>3, <1>4, Prefix
  <2> QED BY <1>1, <2>1
<1>6. {c[k] : k \in P} = {Best(h) : h \in Found}
  <2> HIDE DEF P
  <2> QED BY <1>1
<1>7. ASSUME NEW k \in M..n - 1 PROVE c[k].dup
  <2>1. k \in 0..n - 1 /\ k \notin 0..M - 1
    BY <1>4, <1>5
  <2> QED BY <1>5, <2>1
<1> HIDE DEF P
<1> QED BY <1>5, <1>6, <1>7

-----------------------------------------------------------------------------
(* Dropping the duplicates.                                                *)

Region(h, t) == Boundary(h, First(t))..Boundary(h, Last(t)) - 1

Repeated(h, k) == k + 1 < n /\ h[k + 1].hash = h[k].hash

\* A place after the duplicates were dropped there.
Settled(h, k) == IF Repeated(h, k) THEN h[k].dup /\ h[k].score = 0 ELSE h[k] = Best(h[k].hash)

\* In the list sorted by hash the tasks D have dropped their duplicates.
RunsRight(h, D) ==
    /\ ByHash(h)
    /\ \A k \in 0..n - 1 : h[k].hash \in Found
    /\ \A t \in D : \A k \in Region(h, t) : Settled(h, k)
    /\ \A t \in Tid \ D : \A k \in Region(h, t) : \E j \in 0..n - 1 : h[k] = input[j]
    /\ \A j \in 0..n - 1 : \E k \in 0..n - 1 :
          /\ h[k].hash = input[j].hash
          /\ h[k] = input[j] \/ \E t \in D : k \in Region(h, t)

LEMMA Regions ==
    ASSUME n \in Nat, NEW h
    PROVE  /\ \A t \in Tid : Boundary(h, First(t)) \in Nat /\ Boundary(h, Last(t)) \in 0..n
           /\ \A t \in Tid : Region(h, t) \subseteq 0..n - 1
           /\ \A k \in 0..n - 1 : \E t \in Tid : k \in Region(h, t)
           /\ \A s, t \in Tid : \A k : k \in Region(h, s) /\ k \in Region(h, t) => s = t
<1>1. /\ \A t \in Tid : Boundary(h, First(t)) \in Nat /\ Boundary(h, Last(t)) \in 0..n
      /\ \A s, t \in Tid : s < t => Boundary(h, Last(s)) <= Boundary(h, First(t))
      /\ \A k \in 0..n - 1 : \E t \in Tid : Boundary(h, First(t)) <= k /\ k < Boundary(h, Last(t))
  <2> DEFINE lo == [t \in Tid |-> Boundary(h, First(t))]
             hi == [t \in Tid |-> Boundary(h, Last(t))]
  <2>1. Split(lo, hi)
    BY BorderSplit
  <2>2. \A t \in Tid : lo[t] = Boundary(h, First(t)) /\ hi[t] = Boundary(h, Last(t))
    OBVIOUS
  <2> HIDE DEF lo, hi
  <2>3. /\ \A t \in Tid : lo[t] \in Nat /\ hi[t] \in 0..n
        /\ \A s, t \in Tid : s < t => hi[s] <= lo[t]
        /\ \A k \in 0..n - 1 : \E t \in Tid : lo[t] <= k /\ k < hi[t]
    BY <2>1 DEF Split
  <2> QED BY <2>2, <2>3
<1>2. \A t \in Tid : Region(h, t) \subseteq 0..n - 1
  BY <1>1 DEF Region
<1>3. \A k \in 0..n - 1 : \E t \in Tid : k \in Region(h, t)
  BY <1>1 DEF Region
<1>4. ASSUME NEW s \in Tid, NEW t \in Tid, NEW k, k \in Region(h, s), k \in Region(h, t), s < t
      PROVE  FALSE
  BY <1>1, <1>4 DEF Region
<1>5. \A s, t \in Tid : s < t \/ t < s \/ s = t
  BY Workers
<1> QED BY <1>1, <1>2, <1>3, <1>4, <1>5

\* Both borders of a region are borders of runs.
LEMMA RegionEnds ==
    ASSUME n \in Nat, NEW h, NEW t \in Tid, NEW k \in Region(h, t)
    PROVE  /\ k + 1 = Boundary(h, Last(t)) => ~ Repeated(h, k)
           /\ k = Boundary(h, First(t)) /\ k > 0 => h[k].hash # h[k - 1].hash
<1>1. First(t) \in Nat /\ Last(t) \in 0..n
  BY Chunks
<1>2. IsBorder(h, First(t), Boundary(h, First(t))) /\ IsBorder(h, Last(t), Boundary(h, Last(t)))
  BY <1>1, BoundaryIs
<1>3. k \in 0..n - 1
  BY Regions
<1>4. ASSUME k + 1 = Boundary(h, Last(t)) PROVE ~ Repeated(h, k)
  <2>1. IsBorder(h, Last(t), k + 1) /\ (k + 1) - 1 = k
    BY <1>2, <1>3, <1>4
  <2> QED BY <1>1, <1>3, <2>1 DEF IsBorder, Repeated
<1>5. ASSUME k = Boundary(h, First(t)), k > 0 PROVE h[k].hash # h[k - 1].hash
  BY <1>1, <1>2, <1>3, <1>5 DEF IsBorder
<1> QED BY <1>4, <1>5

\* Equal hashes stand together.
LEMMA RunIsWhole ==
    ASSUME n \in Nat, NEW h \in [0..n - 1 -> Item], ByHash(h),
           NEW i \in 0..n - 1, NEW j \in 0..n - 1, i < j, h[i].hash = h[j].hash
    PROVE  Repeated(h, i) /\ \A k \in i..j : h[k].hash = h[i].hash
<1>1. ASSUME NEW k \in i..j PROVE h[k].hash = h[i].hash
  <2>1. k \in 0..n - 1 /\ (k = i \/ i < k) /\ (k = j \/ k < j)
    OBVIOUS
  <2>2. h[k].hash \in 0..3 /\ h[i].hash \in 0..3
    BY <2>1 DEF Item
  <2>3. h[i].hash <= h[k].hash /\ h[k].hash <= h[j].hash
    BY <2>1, <2>2 DEF ByHash
  <2> QED BY <2>2, <2>3
<1>2. i + 1 \in i..j /\ i + 1 < n
  OBVIOUS
<1> QED BY <1>1, <1>2 DEF Repeated

LEMMA RunsStart ==
    ASSUME InputOK, NEW h \in [0..n - 1 -> Item], Whole(h), ByHash(h)
    PROVE  RunsRight(h, {})
<1>1. \A k \in 0..n - 1 : \E j \in 0..n - 1 : h[k] = input[j]
  BY DEF Whole
<1>2. \A k \in 0..n - 1 : h[k].hash \in Found
  BY <1>1 DEF Found
<1>3. \A t \in Tid : Region(h, t) \subseteq 0..n - 1
  BY Regions DEF InputOK
<1>4. \A j \in 0..n - 1 : \E k \in 0..n - 1 : h[k] = input[j]
  BY DEF Whole
<1> QED BY <1>1, <1>2, <1>3, <1>4 DEF RunsRight

\* The last place of a run gets the best of the run.
LEMMA BestOfRun ==
    ASSUME InputOK, NEW h \in [0..n - 1 -> Item], NEW D \in SUBSET Tid, RunsRight(h, D),
           NEW t \in Tid \ D, NEW k \in Region(h, t), ~ Repeated(h, k)
    PROVE  BestOf({h[i] : i \in {j \in Boundary(h, First(t))..k : h[j].hash = h[k].hash}})
               = Best(h[k].hash)
<1> DEFINE lo == Boundary(h, First(t))
           v == h[k].hash
           S == {h[i] : i \in {j \in lo..k : h[j].hash = v}}
           R == {input[i] : i \in {j \in 0..n - 1 : input[j].hash = v}}
<1>1. /\ n \in Nat /\ lo \in Nat /\ k \in 0..n - 1 /\ lo <= k /\ k < Boundary(h, Last(t))
      /\ Boundary(h, Last(t)) \in 0..n
  <2>1. n \in Nat
    BY DEF InputOK
  <2>2. lo \in Nat /\ Boundary(h, Last(t)) \in 0..n
    BY <2>1, Regions
  <2> HIDE DEF lo
  <2> QED BY <2>1, <2>2 DEF Region, lo
<1>2. ASSUME NEW i \in lo..k, h[i].hash = v PROVE h[i] \in R
  <2>1. i \in Region(h, t) /\ i \in 0..n - 1
    <3> HIDE DEF lo
    <3> QED BY <1>1, <1>2 DEF Region, lo
  <2>2. PICK j \in 0..n - 1 : h[i] = input[j]
    BY <2>1 DEF RunsRight
  <2> QED BY <1>2, <2>2
<1>3. ASSUME NEW j \in 0..n - 1, input[j].hash = v
      PROVE  \E i \in lo..k : h[i].hash = v /\ h[i] = input[j]
  <2>1. PICK i \in 0..n - 1 : /\ h[i].hash = v
                              /\ h[i] = input[j] \/ \E u \in D : i \in Region(h, u)
    BY <1>3 DEF RunsRight
  <2>2. ByHash(h)
    BY DEF RunsRight
  <2>3. ~ (k < i)
    BY <1>1, <2>1, <2>2, RunIsWhole
  <2>4. ~ (i < lo)
    <3> SUFFICES ASSUME i < lo PROVE FALSE
      OBVIOUS
    <3> HIDE DEF lo
    <3>1. i < k /\ lo \in i..k /\ lo - 1 \in i..k /\ lo > 0
      BY <1>1, <2>1
    <3>2. h[lo].hash = v /\ h[lo - 1].hash = v
      BY <1>1, <2>1, <2>2, <3>1, RunIsWhole
    <3>3. lo \in Region(h, t)
      BY <1>1 DEF Region, lo
    <3> QED BY <1>1, <3>1, <3>2, <3>3, RegionEnds DEF lo
  <2>5. i \in lo..k
    BY <1>1, <2>1, <2>3, <2>4
  <2>6. i \in Region(h, t)
    <3> HIDE DEF lo
    <3> QED BY <1>1, <2>5 DEF Region, lo
  <2>7. \A u \in D : i \notin Region(h, u)
    BY <1>1, <2>6, Regions
  <2> QED BY <2>1, <2>5, <2>7
<1>4. S = R
  <2> HIDE DEF lo, v
  <2>1. \A x \in S : x \in R
    BY <1>2
  <2>2. \A x \in R : x \in S
    BY <1>3
  <2> HIDE DEF S, R
  <2> QED BY <2>1, <2>2
<1> HIDE DEF S, R
<1>5. BestOf(S) = BestOf(R)
  BY <1>4
<1> QED BY <1>5 DEF S, R, Best

LEMMA SameHashes ==
    ASSUME n \in Nat, NEW h, NEW g, \A k \in 0..n - 1 : g[k].hash = h[k].hash
    PROVE  /\ \A t \in Tid : /\ Boundary(g, First(t)) = Boundary(h, First(t))
                             /\ Boundary(g, Last(t)) = Boundary(h, Last(t))
                             /\ Region(g, t) = Region(h, t)
           /\ \A k \in 0..n - 1 : Repeated(g, k) <=> Repeated(h, k)
           /\ ByHash(h) => ByHash(g)
<1>1. \A t \in Tid : First(t) \in Nat /\ Last(t) \in Nat
  BY Chunks
<1>2. \A t \in Tid : /\ Boundary(g, First(t)) = Boundary(h, First(t))
                     /\ Boundary(g, Last(t)) = Boundary(h, Last(t))
  BY <1>1, SameBoundaries
<1>3. \A t \in Tid : Region(g, t) = Region(h, t)
  BY <1>2 DEF Region
<1>4. \A k \in 0..n - 1 : Repeated(g, k) <=> Repeated(h, k)
  BY DEF Repeated
<1>5. ByHash(h) => ByHash(g)
  BY DEF ByHash
<1> QED BY <1>2, <1>3, <1>4, <1>5

\* A task keeps every item's hash and the items outside its region.
Carried(h, g, t) ==
    \A k \in 0..n - 1 : /\ g[k].hash = h[k].hash
                        /\ k \notin Region(h, t) => g[k] = h[k]

\* One task drops its duplicates.
LEMMA Deduplicated ==
    ASSUME InputOK, NEW h \in [0..n - 1 -> Item], NEW D \in SUBSET Tid, RunsRight(h, D),
           NEW t \in Tid \ D, NEW g,
           g = Deduplicate(h, Boundary(h, First(t)), Boundary(h, Last(t)))
    PROVE  /\ g \in [0..n - 1 -> Item]
           /\ Carried(h, g, t)
           /\ RunsRight(g, D \cup {t})
<1>1. n \in Nat /\ Region(h, t) \subseteq 0..n - 1
      /\ Boundary(h, First(t)) \in Nat /\ Boundary(h, Last(t)) \in 0..n
  <2>1. n \in Nat
    BY DEF InputOK
  <2> QED BY <2>1, Regions
<1>2. \A k \in 0..n - 1 : k \notin Region(h, t) => g[k] = h[k]
  BY DEF Deduplicate, Region
<1>3. ASSUME NEW k \in Region(h, t), Repeated(h, k)
      PROVE  g[k] = [hash |-> h[k].hash, score |-> 0, id |-> 0, dup |-> TRUE]
  <2>1. k \in Boundary(h, First(t))..Boundary(h, Last(t)) - 1 /\ k \in 0..n - 1
    BY <1>1 DEF Region
  <2>2. k + 1 # Boundary(h, Last(t))
    BY <1>1, <1>3, RegionEnds
  <2>3. k + 1 < Boundary(h, Last(t)) /\ h[k + 1].hash = h[k].hash
    BY <1>1, <1>3, <2>1, <2>2 DEF Repeated
  <2> QED BY <2>1, <2>3 DEF Deduplicate
<1>4. ASSUME NEW k \in Region(h, t), ~ Repeated(h, k)
      PROVE  g[k] = Best(h[k].hash)
  <2>1. k \in Boundary(h, First(t))..Boundary(h, Last(t)) - 1 /\ k \in 0..n - 1
    BY <1>1 DEF Region
  <2>2. ~ (k + 1 < Boundary(h, Last(t)) /\ h[k + 1].hash = h[k].hash)
    BY <1>1, <1>4, <2>1 DEF Repeated
  <2>3. g[k] = BestOf({h[i] : i \in {j \in Boundary(h, First(t))..k : h[j].hash = h[k].hash}})
    BY <2>1, <2>2 DEF Deduplicate
  <2> QED BY <1>4, <2>3, BestOfRun
<1>5. \A v \in Found : Best(v) \in Item /\ Best(v).hash = v
  <2> TAKE v \in Found
  <2>1. PICK i \in 0..n - 1 : Best(v) = input[i] /\ input[i].hash = v
    BY BestIs
  <2> QED BY <2>1 DEF InputOK
<1>6. \A k \in 0..n - 1 : h[k] \in Item /\ h[k].hash \in Found /\ h[k].hash \in 0..3
  BY DEF RunsRight, Item
<1>7. ASSUME NEW k \in 0..n - 1 PROVE g[k] \in Item /\ g[k].hash = h[k].hash
  <2>1. CASE k \notin Region(h, t)
    BY <1>2, <1>6, <2>1
  <2>2. CASE k \in Region(h, t) /\ Repeated(h, k)
    <3>1. g[k] = [hash |-> h[k].hash, score |-> 0, id |-> 0, dup |-> TRUE]
      BY <1>3, <2>2
    <3>2. [hash |-> h[k].hash, score |-> 0, id |-> 0, dup |-> TRUE] \in Item
      BY <1>6, Workers DEF Item
    <3> QED BY <3>1, <3>2
  <2>3. CASE k \in Region(h, t) /\ ~ Repeated(h, k)
    BY <1>4, <1>5, <1>6, <2>3
  <2> QED BY <2>1, <2>2, <2>3
<1>8. g \in [0..n - 1 -> Item]
  BY <1>7 DEF Deduplicate
<1>9. /\ \A u \in Tid : Region(g, u) = Region(h, u)
      /\ \A k \in 0..n - 1 : Repeated(g, k) <=> Repeated(h, k)
      /\ ByHash(g)
  <2>1. ByHash(h)
    BY DEF RunsRight
  <2> QED BY <1>1, <1>7, <2>1, SameHashes
<1>10. \A u \in Tid : Region(h, u) \subseteq 0..n - 1
  BY <1>1, Regions
<1>11. ASSUME NEW u \in D \cup {t}, NEW k \in Region(h, u) PROVE Settled(g, k)
  <2>1. k \in 0..n - 1
    BY <1>10
  <2>2. CASE u = t
    <3>1. CASE Repeated(h, k)
      <4>0. g[k] = [hash |-> h[k].hash, score |-> 0, id |-> 0, dup |-> TRUE]
        BY <1>3, <2>2, <3>1
      <4>1. g[k].dup /\ g[k].score = 0
        BY <4>0
      <4> QED BY <1>9, <2>1, <3>1, <4>1 DEF Settled
    <3>2. CASE ~ Repeated(h, k)
      BY <1>4, <1>7, <1>9, <2>1, <2>2, <3>2 DEF Settled
    <3> QED BY <3>1, <3>2
  <2>3. CASE u # t
    <3>1. k \notin Region(h, t)
      BY <1>1, <2>3, Regions
    <3>2. Settled(h, k)
      BY <2>3 DEF RunsRight
    <3> QED BY <1>2, <1>9, <2>1, <3>1, <3>2 DEF Settled
  <2> QED BY <2>2, <2>3
<1>12. ASSUME NEW u \in Tid \ (D \cup {t}), NEW k \in Region(h, u)
       PROVE  \E j \in 0..n - 1 : g[k] = input[j]
  <2>1. k \in 0..n - 1 /\ k \notin Region(h, t)
    BY <1>1, <1>10, Regions
  <2>2. \E j \in 0..n - 1 : h[k] = input[j]
    BY DEF RunsRight
  <2> QED BY <1>2, <2>1, <2>2
<1>13. ASSUME NEW j \in 0..n - 1
       PROVE  \E k \in 0..n - 1 : /\ g[k].hash = input[j].hash
                                  /\ g[k] = input[j] \/ \E u \in D \cup {t} : k \in Region(h, u)
  <2>1. PICK k \in 0..n - 1 : /\ h[k].hash = input[j].hash
                              /\ h[k] = input[j] \/ \E u \in D : k \in Region(h, u)
    BY DEF RunsRight
  <2>2. g[k].hash = input[j].hash
    BY <1>7, <2>1
  <2>3. g[k] = input[j] \/ \E u \in D \cup {t} : k \in Region(h, u)
    BY <1>2, <2>1
  <2> QED BY <2>2, <2>3
<1>14. \A k \in 0..n - 1 : g[k].hash \in Found
  BY <1>6, <1>7
<1>15. RunsRight(g, D \cup {t})
  <2>1. \A u \in D \cup {t} : \A k \in Region(g, u) : Settled(g, k)
    BY <1>9, <1>11
  <2>2. \A u \in Tid \ (D \cup {t}) : \A k \in Region(g, u) : \E j \in 0..n - 1 : g[k] = input[j]
    BY <1>9, <1>12
  <2>3. \A j \in 0..n - 1 : \E k \in 0..n - 1 :
           /\ g[k].hash = input[j].hash
           /\ g[k] = input[j] \/ \E u \in D \cup {t} : k \in Region(g, u)
    BY <1>9, <1>13
  <2> QED BY <1>9, <1>14, <2>1, <2>2, <2>3 DEF RunsRight
<1>16. Carried(h, g, t)
  BY <1>2, <1>7 DEF Carried
<1> QED BY <1>8, <1>15, <1>16

\* All tasks have.
LEMMA RunsEnd ==
    ASSUME InputOK, NEW h \in [0..n - 1 -> Item], RunsRight(h, Tid)
    PROVE  /\ Tidy(h)
           /\ \A k \in 0..n - 1 : h[k].dup <=> Repeated(h, k)
<1>1. n \in Nat
  BY DEF InputOK
<1>2. \A k \in 0..n - 1 : Settled(h, k) /\ h[k].hash \in Found
  <2> TAKE k \in 0..n - 1
  <2>1. PICK t \in Tid : k \in Region(h, t)
    BY <1>1, Regions
  <2> QED BY <2>1 DEF RunsRight
<1>3. \A v \in Found : ~ Best(v).dup
  <2> TAKE v \in Found
  <2>1. PICK i \in 0..n - 1 : Best(v) = input[i]
    BY BestIs
  <2> QED BY <2>1 DEF InputOK
<1>4. \A k \in 0..n - 1 : h[k].dup <=> Repeated(h, k)
  BY <1>2, <1>3 DEF Settled
<1>5. \A x \in 0..n - 1 : (h[x].dup /\ h[x].score = 0) \/ \E v \in Found : h[x] = Best(v)
  BY <1>2 DEF Settled
<1>6. ASSUME NEW v \in Found PROVE \E x \in 0..n - 1 : h[x] = Best(v)
  <2> DEFINE K == {n - x : x \in {i \in 0..n - 1 : h[i].hash = v}}
  <2>1. K \subseteq Nat /\ K # {}
    <3>1. PICK j \in 0..n - 1 : input[j].hash = v
      BY DEF Found
    <3>2. PICK x \in 0..n - 1 : h[x].hash = v
      BY <3>1 DEF RunsRight
    <3>3. n - x \in K
      BY <3>2
    <3> QED BY <1>1, <3>3
  <2>2. PICK m \in K : \A x \in K : m <= x
    <3> HIDE DEF K
    <3> QED BY <2>1, Least
  <2>3. PICK x \in 0..n - 1 : h[x].hash = v /\ m = n - x
    BY <2>2
  <2>4. ~ Repeated(h, x)
    <3> SUFFICES ASSUME x + 1 < n, h[x + 1].hash = v PROVE FALSE
      BY <2>3 DEF Repeated
    <3>1. n - (x + 1) \in K
      <4>1. x + 1 \in {i \in 0..n - 1 : h[i].hash = v}
        BY <1>1
      <4> QED BY <4>1
    <3>2. m <= n - (x + 1)
      BY <2>2, <3>1
    <3> QED BY <1>1, <2>3, <3>2
  <2> QED BY <1>2, <2>3, <2>4 DEF Settled
<1>7. ASSUME NEW x \in 0..n - 1, NEW y \in 0..n - 1, x < y,
             ~ h[x].dup, ~ h[y].dup, h[x].hash = h[y].hash
      PROVE  FALSE
  <2>1. ByHash(h)
    BY DEF RunsRight
  <2>2. Repeated(h, x)
    BY <1>1, <1>7, <2>1, RunIsWhole
  <2> QED BY <1>4, <1>7, <2>2
<1>8. Tidy(h)
  BY <1>1, <1>5, <1>6, <1>7 DEF Tidy
<1> QED BY <1>4, <1>8

-----------------------------------------------------------------------------
(* What the buffers hold, by how far the tasks are.                        *)

\* t has done its part of segment s.  No step of the barrier changes this.
Past(t, s) == seg[t] > s \/ (seg[t] = s /\ pc[t] # "work")

Over(s) == \A t \in Tid : Past(t, s)
Untouched(s) == \A t \in Tid : ~ Past(t, s)

Dropped == {t \in Tid : Past(t, 4)}

DataTyped ==
    /\ buf \in [Buffer -> [0..n - 1 -> Item]]
    /\ counts \in [Tid -> [{0, 1} -> 0..n]]
    /\ from \in [Tid -> Nat]
    /\ to \in [Tid -> 0..n]
    /\ dups \in [Tid -> 0..n]

BoundsRight ==
    \A t \in Tid :
        IF Past(t, 4)
        THEN /\ from[t] = Boundary(buf["hash_items"], First(t))
             /\ to[t] = Boundary(buf["hash_items"], Last(t))
        ELSE from[t] = First(t) /\ to[t] = Last(t)

\* Between counting and the next count the counts are those of the source.
CountsRight ==
    \A p \in 0..3 : \A t \in Tid :
        Past(t, 2 * p) /\ ~ Past(t, 2 * p + 2) =>
            \A d \in {0, 1} : counts[t][d] = InBucket(p, buf[Source(p)], from[t], to[t], d)

\* What a task has moved lies in its place until the next pass.
MovedRight ==
    \A p \in 0..3 : Untouched(2 * p + 2) =>
        \A t \in Tid : Past(t, 2 * p + 1) =>
            \A k \in from[t]..to[t] - 1 :
                buf[Dest(p)][Rank(n, p, buf[Source(p)], k)] = buf[Source(p)][k]

\* What is known of a buffer once all tasks have finished it.
BuffersRight ==
    /\ Untouched(3) => buf["hash_items"] = input
    /\ Over(1) => Whole(buf["tmp"]) /\ Ordered(0, buf["tmp"])
    /\ Over(3) => RunsRight(buf["hash_items"], Dropped)
    /\ Over(5) => Tidy(buf["score_tmp"]) /\ Ordered(2, buf["score_tmp"])
    /\ Over(7) => Tidy(buf["dest"]) /\ ByScore(buf["dest"])

DupsRight ==
    \A t \in Tid : dups[t] = IF Past(t, 4) THEN Cardinality(Repeats(buf["hash_items"], from[t], to[t]))
                             ELSE 0

DataInv ==
    /\ InputOK
    /\ DataTyped
    /\ BoundsRight
    /\ CountsRight
    /\ MovedRight
    /\ BuffersRight
    /\ DupsRight

\* A task that works has everything before its segment behind it, and nobody is
\* further.
LEMMA AtWork ==
    ASSUME BarrierInv, NEW t \in Tid, pc[t] = "work", NEW s \in Segment, seg[t] = s
    PROVE  /\ ~ Past(t, s)
           /\ \A r \in 0..8 : (r < s => Over(r)) /\ (r > s => Untouched(r))
<1>1. seg \in [Tid -> Segment]
  BY DEF BarrierInv, ControlOK
<1>2. ASSUME NEW u \in Tid, seg[u] < s PROVE seg[u] = s - 1 /\ pc[u] # "work"
  <2>1. s = seg[u] + 1 /\ pc[u] # "work"
    BY <1>2 DEF BarrierInv, LockStep
  <2> QED BY <1>1, <2>1 DEF Segment
<1>3. \A u \in Tid : ~ (s < seg[u])
  BY DEF BarrierInv, LockStep
<1>4. ASSUME NEW r \in 0..8, r < s, NEW u \in Tid PROVE Past(u, r)
  BY <1>1, <1>2, <1>4 DEF Past, Segment
<1>5. ASSUME NEW r \in 0..8, r > s, NEW u \in Tid PROVE ~ Past(u, r)
  BY <1>1, <1>3, <1>5 DEF Past, Segment
<1> QED BY <1>4, <1>5 DEF Past, Over, Untouched, Segment

LEMMA PastWork ==
    ASSUME BarrierInv, NEW t \in Tid, pc[t] = "work", NEW s \in Segment, seg[t] = s,
           pc' = [pc EXCEPT ![t] = "arrive"], UNCHANGED seg
    PROVE  \A u \in Tid, r \in 0..8 : Past(u, r)' <=> Past(u, r) \/ (u = t /\ r = s)
<1>1. seg \in [Tid -> Segment] /\ pc \in [Tid -> PC]
  BY DEF BarrierInv, ControlOK
<1>2. pc'[t] = "arrive" /\ \A u \in Tid \ {t} : pc'[u] = pc[u]
  BY <1>1
<1> QED BY <1>1, <1>2 DEF Past, Segment

\* Before and after a task does its part of segment s the segments before it are
\* over and those after it untouched.
LEMMA WorkStep ==
    ASSUME BarrierInv, NEW t \in Tid, pc[t] = "work", NEW s \in Segment, seg[t] = s,
           pc' = [pc EXCEPT ![t] = "arrive"], UNCHANGED seg
    PROVE  /\ \A r \in 0..8 : r < s => Over(r) /\ Over(r)' /\ ~ Untouched(r)'
           /\ \A r \in 0..8 : r > s => Untouched(r) /\ Untouched(r)' /\ ~ Over(r)'
           /\ ~ Past(t, s) /\ Past(t, s)' /\ ~ Untouched(s)'
           /\ \A u \in Tid : Past(u, s)' <=> Past(u, s) \/ u = t
           /\ s # 4 => Dropped' = Dropped
           /\ s = 4 => Dropped' = Dropped \cup {t}
<1>1. ~ Past(t, s) /\ \A r \in 0..8 : (r < s => Over(r)) /\ (r > s => Untouched(r))
  BY AtWork
<1>2. \A u \in Tid, r \in 0..8 : Past(u, r)' <=> Past(u, r) \/ (u = t /\ r = s)
  BY PastWork
<1>3. s \in 0..8
  BY DEF Segment
<1>4. \A r \in 0..8 : r < s => Over(r) /\ Over(r)' /\ ~ Untouched(r)'
  BY <1>1, <1>2 DEF Over, Untouched
<1>5. \A r \in 0..8 : r > s => Untouched(r) /\ Untouched(r)' /\ ~ Over(r)'
  BY <1>1, <1>2 DEF Over, Untouched
<1>6. Past(t, s)' /\ ~ Untouched(s)' /\ \A u \in Tid : Past(u, s)' <=> Past(u, s) \/ u = t
  BY <1>2, <1>3 DEF Untouched
<1>7. 4 \in 0..8
  OBVIOUS
<1>8. (s # 4 => Dropped' = Dropped) /\ (s = 4 => Dropped' = Dropped \cup {t})
  BY <1>2, <1>7 DEF Dropped
<1> QED BY <1>1, <1>4, <1>5, <1>6, <1>8

\* In every pass the tasks share the places among them.
LEMMA SplitNow ==
    ASSUME n \in Nat, BoundsRight, Over(4) \/ Untouched(4)
    PROVE  Split(from, to)
<1>1. CASE Over(4)
  <2> DEFINE h == buf["hash_items"]
             lo == [t \in Tid |-> Boundary(h, First(t))]
             hi == [t \in Tid |-> Boundary(h, Last(t))]
  <2>1. Split(lo, hi)
    BY BorderSplit
  <2>2. \A t \in Tid : from[t] = lo[t] /\ to[t] = hi[t]
    BY <1>1 DEF BoundsRight, Over
  <2> HIDE DEF lo, hi
  <2> QED BY <2>1, <2>2 DEF Split
<1>2. CASE Untouched(4)
  <2> DEFINE lo == [t \in Tid |-> First(t)]
             hi == [t \in Tid |-> Last(t)]
  <2>1. Split(lo, hi)
    BY RawSplit
  <2>2. \A t \in Tid : from[t] = lo[t] /\ to[t] = hi[t]
    BY <1>2 DEF BoundsRight, Untouched
  <2> HIDE DEF lo, hi
  <2> QED BY <2>1, <2>2 DEF Split
<1> QED BY <1>1, <1>2

\* What Count and Scatter do to the task's own entries.
LEMMA CountEffect ==
    ASSUME DataInv, NEW t \in Tid, Count(t), NEW p \in 0..3, seg[t] = 2 * p,
           NEW h, h = buf[Source(p)], NEW g, NEW lo, NEW hi,
           lo = IF p = 2 THEN Boundary(h, from[t]) ELSE from[t],
           hi = IF p = 2 THEN Boundary(h, to[t]) ELSE to[t],
           g = IF p = 2 THEN Deduplicate(h, lo, hi) ELSE h
    PROVE  /\ from' = [from EXCEPT ![t] = lo]
           /\ to' = [to EXCEPT ![t] = hi]
           /\ buf' = [buf EXCEPT ![Source(p)] = g]
           /\ dups' = IF p = 2 THEN [dups EXCEPT ![t] = Cardinality(Repeats(h, lo, hi))] ELSE dups
           /\ counts' = [counts EXCEPT ![t] = [d \in {0, 1} |-> InBucket(p, g, lo, hi, d)]]
           /\ n' = n /\ input' = input /\ seg' = seg
           /\ pc[t] = "work" /\ pc' = [pc EXCEPT ![t] = "arrive"]
<1>1. Pass(seg[t]) = p
  BY DEF Pass
<1> QED BY <1>1 DEF Count

LEMMA PastStays ==
    ASSUME BarrierInv, NEW t \in Tid,
           Arrive(t) \/ Release(t) \/ Wake(t) \/ Load(t) \/ FutexWait(t) \/ Finish(t) \/ Subtract(t)
    PROVE  \A u \in Tid, r \in 0..8 : Past(u, r)' <=> Past(u, r)
<1>1. seg \in [Tid -> Segment] /\ pc \in [Tid -> PC]
  BY DEF BarrierInv, ControlOK
<1>2. CASE Arrive(t) \/ Release(t) \/ FutexWait(t) \/ Finish(t) \/ Subtract(t) \/ (Load(t) /\ bar[Bi(t)] # 0)
  <2>1. UNCHANGED seg /\ pc[t] # "work" /\ \E x \in PC : x # "work" /\ pc' = [pc EXCEPT ![t] = x]
    BY <1>2 DEF Arrive, Release, FutexWait, Finish, Subtract, Load, PC
  <2>2. pc'[t] # "work" /\ \A u \in Tid \ {t} : pc'[u] = pc[u]
    BY <1>1, <2>1
  <2> QED BY <1>1, <2>1, <2>2 DEF Past
<1>3. CASE Wake(t) \/ (Load(t) /\ bar[Bi(t)] = 0)
  <2>1. seg' = [seg EXCEPT ![t] = @ + 1] /\ pc[t] # "work"
    BY <1>3 DEF Wake, Load, Enter
  <2>2. pc'[t] = "work" /\ \A u \in Tid \ {t} : pc'[u] = "work" <=> pc[u] = "work"
    BY <1>1, <1>3 DEF Wake, Load, Enter
  <2>3. seg'[t] = seg[t] + 1 /\ seg[t] \in 0..7 /\ \A u \in Tid \ {t} : seg'[u] = seg[u]
    BY <1>1, <2>1 DEF Segment
  <2>4. \A r \in 0..8 : Past(t, r)' <=> Past(t, r)
    BY <2>1, <2>2, <2>3 DEF Past
  <2>5. \A u \in Tid \ {t}, r \in 0..8 : Past(u, r)' <=> Past(u, r)
    BY <2>2, <2>3 DEF Past
  <2> QED BY <2>4, <2>5
<1> QED BY <1>2, <1>3

LEMMA BuffersNext ==
    ASSUME n \in Nat, n' = n, input' = input, NEW b, buf' = b, NEW D, Dropped' = D,
           Untouched(3)' => b["hash_items"] = input,
           Over(1)' => Whole(b["tmp"]) /\ Ordered(0, b["tmp"]),
           Over(3)' => RunsRight(b["hash_items"], D),
           Over(5)' => Tidy(b["score_tmp"]) /\ Ordered(2, b["score_tmp"]),
           Over(7)' => Tidy(b["dest"]) /\ ByScore(b["dest"])
    PROVE  BuffersRight'
<1>1. Found' = Found
  BY DEF Found
<1>2. \A v : Best(v)' = Best(v)
  BY DEF Best, BestOf
<1>3. (Untouched(3) => buf["hash_items"] = input)'
  OBVIOUS
<1>4. (Over(1) => Whole(buf["tmp"]) /\ Ordered(0, buf["tmp"]))'
  BY DEF Whole, Ordered
<1>5. ASSUME Over(3)' PROVE RunsRight(buf["hash_items"], Dropped)'
  <2>1. PICK h : h = b["hash_items"]
    OBVIOUS
  <2>2. RunsRight(h, D) /\ buf["hash_items"]' = h
    BY <1>5, <2>1
  <2>3. \A k : Settled(buf["hash_items"], k)' <=> Settled(h, k)
    BY <1>2, <2>2 DEF Settled, Repeated, Best, BestOf
  <2>4. \A t \in Tid : Region(buf["hash_items"], t)' = Region(h, t)
    <3>1. \A t \in Tid : Region(buf["hash_items"], t)' = Region(b["hash_items"], t)
      BY DEF Region, Boundary, RunEnd, First, Last, Chunk, Smaller
    <3> QED BY <2>1, <3>1
  <2>5. (\A t \in Dropped : \A k \in Region(buf["hash_items"], t) : Settled(buf["hash_items"], k))'
    <3>1. \A t \in D : t \in Tid
      BY DEF Dropped
    <3>2. ASSUME NEW t \in D, NEW k \in Region(buf["hash_items"], t)' PROVE Settled(buf["hash_items"], k)'
      BY <2>2, <2>3, <2>4, <3>1, <3>2 DEF RunsRight
    <3> QED BY <3>2
  <2>6. (\A t \in Tid \ Dropped : \A k \in Region(buf["hash_items"], t) :
             \E j \in 0..n - 1 : buf["hash_items"][k] = input[j])'
    BY <2>2, <2>4 DEF RunsRight
  <2>7. (\A j \in 0..n - 1 : \E k \in 0..n - 1 :
           /\ buf["hash_items"][k].hash = input[j].hash
           /\ buf["hash_items"][k] = input[j] \/ \E t \in Dropped : k \in Region(buf["hash_items"], t))'
    <3>0. \A t \in D : t \in Tid
      BY DEF Dropped
    <3>1. ASSUME NEW j \in 0..n - 1
          PROVE  \E k \in 0..n - 1 :
                    /\ h[k].hash = input[j].hash
                    /\ h[k] = input[j] \/ \E t \in D : k \in Region(h, t)
      BY <2>2 DEF RunsRight
    <3>2. ASSUME NEW k
          PROVE  (\E t \in D : k \in Region(h, t)) => \E t \in D : k \in Region(buf["hash_items"], t)'
      BY <2>4, <3>0
    <3> QED BY <2>2, <3>1, <3>2
  <2>8. ByHash(buf["hash_items"])' /\ (\A k \in 0..n - 1 : buf["hash_items"][k].hash \in Found)'
    BY <1>1, <2>2 DEF RunsRight, ByHash
  <2> QED BY <2>5, <2>6, <2>7, <2>8 DEF RunsRight
<1>6. ASSUME Over(5)' PROVE Tidy(buf["score_tmp"])' /\ Ordered(2, buf["score_tmp"])'
  <2>1. Tidy(buf["score_tmp"])'
    BY <1>1, <1>2, <1>6 DEF Tidy
  <2> QED BY <1>6, <2>1 DEF Ordered
<1>7. ASSUME Over(7)' PROVE Tidy(buf["dest"])' /\ ByScore(buf["dest"])'
  <2>1. Tidy(buf["dest"])'
    BY <1>1, <1>2, <1>7 DEF Tidy
  <2> QED BY <1>7, <2>1 DEF ByScore
<1> QED BY <1>3, <1>4, <1>5, <1>6, <1>7 DEF BuffersRight

\* A step of the barrier leaves the data as they are.
LEMMA DataStays ==
    ASSUME DataInv, UNCHANGED data, \A u \in Tid, r \in 0..8 : Past(u, r)' <=> Past(u, r)
    PROVE  DataInv'
<1>1. UNCHANGED <<n, input, buf, counts, from, to, dups>>
  BY DEF data
<1>2. /\ \A r \in 0..8 : Over(r)' <=> Over(r)
      /\ \A r \in 0..8 : Untouched(r)' <=> Untouched(r)
      /\ Dropped' = Dropped
  BY DEF Over, Untouched, Dropped
<1>3. \A k : First(k)' = First(k) /\ Last(k)' = Last(k)
  BY <1>1 DEF First, Last, Chunk, Smaller
<1>4. InputOK' /\ DataTyped'
  BY <1>1 DEF DataInv, InputOK, DataTyped
<1>5. BoundsRight'
  BY <1>1, <1>3 DEF DataInv, BoundsRight, Boundary, RunEnd
<1>6. CountsRight'
  BY <1>1 DEF DataInv, CountsRight
<1>7. MovedRight'
  BY <1>1, <1>2 DEF DataInv, MovedRight
<1>8. BuffersRight'
  <2>1. PICK b : b = buf
    OBVIOUS
  <2>2. PICK D : D = Dropped
    OBVIOUS
  <2>3. /\ Untouched(3)' => b["hash_items"] = input
        /\ Over(1)' => Whole(b["tmp"]) /\ Ordered(0, b["tmp"])
        /\ Over(3)' => RunsRight(b["hash_items"], D)
        /\ Over(5)' => Tidy(b["score_tmp"]) /\ Ordered(2, b["score_tmp"])
        /\ Over(7)' => Tidy(b["dest"]) /\ ByScore(b["dest"])
    BY <1>2, <2>1, <2>2 DEF DataInv, BuffersRight
  <2>4. n \in Nat
    BY DEF DataInv, InputOK
  <2>5. buf' = b /\ Dropped' = D /\ n' = n /\ input' = input
    BY <1>1, <1>2, <2>1, <2>2
  <2> QED BY <2>3, <2>4, <2>5, BuffersNext
<1>9. DupsRight'
  BY <1>1 DEF DataInv, DupsRight
<1> QED BY <1>4, <1>5, <1>6, <1>7, <1>8, <1>9 DEF DataInv

LEMMA CountKeeps ==
    ASSUME BarrierInv, DataInv, NEW t \in Tid, Count(t), NEW p \in {0, 1, 3}, seg[t] = 2 * p
    PROVE  DataInv'
<1> DEFINE s == 2 * p
<1>1. s \in Segment /\ seg[t] = s /\ s # 4 /\ p \in 0..3 /\ p # 2
  BY DEF Segment
<1>2. DataTyped /\ n \in Nat /\ InputOK
  BY DEF DataInv, InputOK
<1>3. /\ from' = [from EXCEPT ![t] = from[t]] /\ to' = [to EXCEPT ![t] = to[t]]
      /\ buf' = [buf EXCEPT ![Source(p)] = buf[Source(p)]] /\ dups' = dups
      /\ counts' = [counts EXCEPT ![t] = [d \in {0, 1} |-> InBucket(p, buf[Source(p)], from[t], to[t], d)]]
      /\ n' = n /\ input' = input /\ seg' = seg
      /\ pc[t] = "work" /\ pc' = [pc EXCEPT ![t] = "arrive"]
  BY <1>1, CountEffect
<1>4. from' = from /\ to' = to /\ buf' = buf
  BY <1>2, <1>3 DEF DataTyped
<1>5. /\ \A r \in 0..8 : r < s => Over(r) /\ Over(r)' /\ ~ Untouched(r)'
      /\ \A r \in 0..8 : r > s => Untouched(r) /\ Untouched(r)' /\ ~ Over(r)'
      /\ \A u \in Tid : Past(u, s)' <=> Past(u, s) \/ u = t
      /\ Dropped' = Dropped
  BY <1>1, <1>3, WorkStep
<1>6. \A u \in Tid, r \in 0..8 : r # s => (Past(u, r)' <=> Past(u, r))
  BY <1>1, <1>3, PastWork
<1>7. /\ counts'[t] = [d \in {0, 1} |-> InBucket(p, buf[Source(p)], from[t], to[t], d)]
      /\ \A u \in Tid : u # t => counts'[u] = counts[u]
  BY <1>2, <1>3 DEF DataTyped
<1> HIDE DEF s
<1>8. DataTyped'
  <2>1. Split(from, to)
    <3>1. Over(4) \/ Untouched(4)
      BY <1>1, <1>5 DEF Segment
    <3> QED BY <1>2, <3>1, SplitNow DEF DataInv
  <2>2. \A d \in {0, 1} : InBucket(p, buf[Source(p)], from[t], to[t], d) \in 0..n
    BY <1>2, <2>1, Counted
  <2>3. counts' \in [Tid -> [{0, 1} -> 0..n]]
    BY <1>2, <1>3, <2>2 DEF DataTyped
  <2> QED BY <1>2, <1>3, <1>4, <2>3 DEF DataTyped
<1>9. InputOK'
  BY <1>2, <1>3 DEF InputOK
<1>10. BoundsRight'
  <2>0. UNCHANGED <<n, buf, from, to>>
    BY <1>3, <1>4
  <2>1. \A k : First(k)' = First(k) /\ Last(k)' = Last(k)
    BY <2>0 DEF First, Last, Chunk, Smaller
  <2>2. \A u \in Tid : Past(u, 4)' <=> Past(u, 4)
    BY <1>1, <1>6
  <2> QED BY <2>0, <2>1, <2>2, ZenonT(60) DEF DataInv, BoundsRight, Boundary, RunEnd
<1>11. CountsRight'
  <2> SUFFICES ASSUME NEW q \in 0..3, NEW u \in Tid, Past(u, 2 * q)', ~ Past(u, 2 * q + 2)',
                      NEW d \in {0, 1}
               PROVE  counts'[u][d] = InBucket(q, buf[Source(q)], from[u], to[u], d)
    BY <1>4 DEF CountsRight
  <2>1. 2 * q \in 0..8 /\ 2 * q + 2 \in 0..8
    OBVIOUS
  <2>2. CASE u = t
    <3>1. q = p
      <4>1. ~ (2 * q < s /\ 2 * q + 2 < s) /\ ~ (2 * q > s)
        BY <1>5, <2>1 DEF Over, Untouched
      <4>2. 2 * q + 2 # s
        BY <1>5, <1>3, <1>1, <2>2, WorkStep
      <4> QED BY <1>1, <4>1, <4>2 DEF s
    <3> QED BY <1>7, <2>2, <3>1
  <2>3. CASE u # t
    <3>1. Past(u, 2 * q) /\ ~ Past(u, 2 * q + 2)
      BY <1>5, <1>6, <2>1, <2>3
    <3> QED BY <1>7, <2>3, <3>1 DEF DataInv, CountsRight
  <2> QED BY <2>2, <2>3
<1>12. MovedRight'
  <2> SUFFICES ASSUME NEW q \in 0..3, Untouched(2 * q + 2)', NEW u \in Tid, Past(u, 2 * q + 1)'
               PROVE  FALSE
    BY DEF MovedRight
  <2>1. 2 * q + 2 \in 0..8 /\ 2 * q + 1 \in 0..8
    OBVIOUS
  <2>2. ~ (2 * q + 2 < s) /\ ~ (2 * q + 1 > s)
    BY <1>5, <2>1 DEF Untouched
  <2>3. 2 * q + 2 = s
    BY <1>1, <2>2 DEF s
  <2> QED BY <1>1, <1>3, <2>3, WorkStep
<1>13. BuffersRight'
  <2>1. PICK b : b = buf
    OBVIOUS
  <2>2. PICK D : D = Dropped
    OBVIOUS
  <2>3. /\ Untouched(3)' => Untouched(3)
        /\ Over(1)' => Over(1)
        /\ Over(3)' => Over(3)
        /\ Over(5)' => Over(5)
        /\ Over(7)' => Over(7)
    BY <1>1, <1>5 DEF Segment, s
  <2>4. /\ Untouched(3)' => b["hash_items"] = input
        /\ Over(1)' => Whole(b["tmp"]) /\ Ordered(0, b["tmp"])
        /\ Over(3)' => RunsRight(b["hash_items"], D)
        /\ Over(5)' => Tidy(b["score_tmp"]) /\ Ordered(2, b["score_tmp"])
        /\ Over(7)' => Tidy(b["dest"]) /\ ByScore(b["dest"])
    BY <2>1, <2>2, <2>3 DEF DataInv, BuffersRight
  <2>5. buf' = b /\ Dropped' = D
    BY <1>4, <1>5, <2>1, <2>2
  <2> QED BY <1>2, <1>3, <2>4, <2>5, BuffersNext
<1>14. DupsRight'
  <2>1. \A u \in Tid : Past(u, 4)' <=> Past(u, 4)
    BY <1>1, <1>6
  <2> QED BY <1>3, <1>4, <2>1 DEF DataInv, DupsRight
<1> QED BY <1>8, <1>9, <1>10, <1>11, <1>12, <1>13, <1>14 DEF DataInv

LEMMA DropKeeps ==
    ASSUME BarrierInv, DataInv, NEW t \in Tid, Count(t), seg[t] = 4
    PROVE  DataInv'
<1>1. DataTyped /\ n \in Nat /\ InputOK
  BY DEF DataInv, InputOK
<1>2. PICK h : h = buf["hash_items"]
  OBVIOUS
<1>3. PICK D : D = Dropped
  OBVIOUS
<1>4. PICK lo, hi : lo = Boundary(h, from[t]) /\ hi = Boundary(h, to[t])
  OBVIOUS
<1>5. PICK g : g = Deduplicate(h, lo, hi)
  OBVIOUS
<1>6. /\ from' = [from EXCEPT ![t] = lo] /\ to' = [to EXCEPT ![t] = hi]
      /\ buf' = [buf EXCEPT !["hash_items"] = g]
      /\ dups' = [dups EXCEPT ![t] = Cardinality(Repeats(h, lo, hi))]
      /\ counts' = [counts EXCEPT ![t] = [d \in {0, 1} |-> InBucket(2, g, lo, hi, d)]]
      /\ n' = n /\ input' = input /\ seg' = seg
      /\ pc[t] = "work" /\ pc' = [pc EXCEPT ![t] = "arrive"]
  <2>1. Source(2) = "hash_items" /\ 2 \in 0..3 /\ seg[t] = 2 * 2
    BY DEF Source
  <2> QED BY <1>2, <1>4, <1>5, <2>1, CountEffect
<1>7. /\ \A r \in 0..8 : r < 4 => Over(r) /\ Over(r)' /\ ~ Untouched(r)'
      /\ \A r \in 0..8 : r > 4 => Untouched(r) /\ Untouched(r)' /\ ~ Over(r)'
      /\ ~ Past(t, 4) /\ Past(t, 4)' /\ ~ Untouched(4)'
      /\ \A u \in Tid : Past(u, 4)' <=> Past(u, 4) \/ u = t
      /\ Dropped' = D \cup {t}
  <2>1. 4 \in Segment
    BY DEF Segment
  <2> QED BY <1>3, <1>6, <2>1, WorkStep
<1>8. lo = Boundary(h, First(t)) /\ hi = Boundary(h, Last(t))
  BY <1>4, <1>7 DEF DataInv, BoundsRight
<1>9. h \in [0..n - 1 -> Item] /\ RunsRight(h, D) /\ D \in SUBSET Tid /\ t \in Tid \ D
  <2>1. Over(3)
    BY <1>7
  <2>2. h \in [0..n - 1 -> Item]
    BY <1>1, <1>2 DEF DataTyped, Buffer
  <2> QED BY <1>2, <1>3, <1>7, <2>1, <2>2 DEF DataInv, BuffersRight, Dropped
<1>10. /\ g \in [0..n - 1 -> Item]
       /\ \A k \in 0..n - 1 : g[k].hash = h[k].hash
       /\ \A k \in 0..n - 1 : k \notin Region(h, t) => g[k] = h[k]
       /\ RunsRight(g, D \cup {t})
  <2>1. g = Deduplicate(h, Boundary(h, First(t)), Boundary(h, Last(t)))
    BY <1>5, <1>8
  <2>2. InputOK
    BY <1>1
  <2>3. h \in [0..n - 1 -> Item] /\ RunsRight(h, D) /\ D \in SUBSET Tid /\ t \in Tid \ D
    BY <1>9
  <2>4. g \in [0..n - 1 -> Item]
    BY <2>1, <2>2, <2>3, Deduplicated
  <2>5. Carried(h, g, t)
    BY <2>1, <2>2, <2>3, Deduplicated
  <2>6. RunsRight(g, D \cup {t})
    BY <2>1, <2>2, <2>3, Deduplicated
  <2> QED BY <2>4, <2>5, <2>6 DEF Carried
<1>11. \A u \in Tid : /\ Boundary(g, First(u)) = Boundary(h, First(u))
                      /\ Boundary(g, Last(u)) = Boundary(h, Last(u))
  BY <1>1, <1>10, SameHashes
<1>12. /\ buf'["hash_items"] = g /\ \A x \in Buffer : x # "hash_items" => buf'[x] = buf[x]
       /\ buf' \in [Buffer -> [0..n - 1 -> Item]]
  BY <1>1, <1>6, <1>10 DEF DataTyped, Buffer
<1>13. /\ from'[t] = lo /\ to'[t] = hi /\ dups'[t] = Cardinality(Repeats(h, lo, hi))
       /\ counts'[t] = [d \in {0, 1} |-> InBucket(2, g, lo, hi, d)]
       /\ \A u \in Tid : u # t => /\ from'[u] = from[u] /\ to'[u] = to[u]
                                  /\ counts'[u] = counts[u] /\ dups'[u] = dups[u]
  BY <1>1, <1>6 DEF DataTyped
<1>14. \A u \in Tid : Boundary(h, First(u)) \in Nat /\ Boundary(h, Last(u)) \in 0..n
  BY <1>1, Regions
<1>15. \A u \in Tid : Past(u, 4)' => /\ from'[u] = Boundary(h, First(u)) /\ to'[u] = Boundary(h, Last(u))
                                     /\ u # t => from[u] = from'[u] /\ to[u] = to'[u] /\ Past(u, 4)
  <2> SUFFICES ASSUME NEW u \in Tid, Past(u, 4)'
               PROVE  /\ from'[u] = Boundary(h, First(u)) /\ to'[u] = Boundary(h, Last(u))
                      /\ u # t => from[u] = from'[u] /\ to[u] = to'[u] /\ Past(u, 4)
    OBVIOUS
  <2>1. CASE u = t
    BY <1>8, <1>13, <2>1
  <2>2. CASE u # t
    BY <1>2, <1>7, <1>13, <2>2 DEF DataInv, BoundsRight
  <2> QED BY <2>1, <2>2
<1>16. \A u \in Tid : /\ Boundary(h, First(u)) \in Nat /\ Boundary(h, Last(u)) \in 0..n
                      /\ Repeats(g, Boundary(h, First(u)), Boundary(h, Last(u)))
                           = Repeats(h, Boundary(h, First(u)), Boundary(h, Last(u)))
                      /\ Cardinality(Repeats(h, Boundary(h, First(u)), Boundary(h, Last(u)))) \in 0..n
  <2> TAKE u \in Tid
  <2>1. PICK a \in Nat, e \in 0..n : a = Boundary(h, First(u)) /\ e = Boundary(h, Last(u))
    BY <1>14
  <2>2. \A k \in a..e - 2 : k \in 0..n - 1 /\ k + 1 \in 0..n - 1
    BY <1>1
  <2>3. Repeats(g, a, e) = Repeats(h, a, e)
    BY <1>10, <2>2 DEF Repeats
  <2>4. Repeats(h, a, e) \in SUBSET (0..n - 1)
    BY <2>2 DEF Repeats
  <2>5. IsFiniteSet(0..n - 1) /\ Cardinality(0..n - 1) = n
    BY <1>1, Counted0
  <2>6. IsFiniteSet(Repeats(h, a, e)) /\ Cardinality(Repeats(h, a, e)) <= n
    BY <2>4, <2>5, FS_Subset, ZenonT(60)
  <2>7. Cardinality(Repeats(h, a, e)) \in Nat
    BY <2>6, FS_CardinalityType
  <2> QED BY <1>1, <2>1, <2>3, <2>6, <2>7
<1>17. DataTyped'
  <2>1. from' \in [Tid -> Nat] /\ to' \in [Tid -> 0..n]
    BY <1>1, <1>6, <1>8, <1>14 DEF DataTyped
  <2>2. dups' \in [Tid -> 0..n]
    BY <1>1, <1>6, <1>8, <1>16 DEF DataTyped
  <2>3. \A d \in {0, 1} : InBucket(2, g, lo, hi, d) \in 0..n
    <3> DEFINE los == [u \in Tid |-> Boundary(h, First(u))]
               his == [u \in Tid |-> Boundary(h, Last(u))]
    <3>1. Split(los, his)
      BY <1>1, BorderSplit
    <3>2. los[t] = lo /\ his[t] = hi
      BY <1>8
    <3> HIDE DEF los, his
    <3>3. \A d : InBucket(2, g, los[t], his[t], d) \in 0..n
      BY <1>1, <3>1, Counted
    <3> QED BY <3>2, <3>3
  <2>4. counts' \in [Tid -> [{0, 1} -> 0..n]]
    BY <1>1, <1>6, <2>3 DEF DataTyped
  <2> QED BY <1>6, <1>12, <2>1, <2>2, <2>4 DEF DataTyped
<1>18. InputOK'
  BY <1>1, <1>6 DEF InputOK
<1>19. BoundsRight'
  <2>1. n' = n
    BY <1>6
  <2>2. \A k : First(k)' = First(k) /\ Last(k)' = Last(k)
    BY <2>1 DEF First, Last, Chunk, Smaller
  <2>4. \A u \in Tid : ~ Past(u, 4)' => from'[u] = First(u) /\ to'[u] = Last(u)
    BY <1>7, <1>13 DEF DataInv, BoundsRight
  <2>5. \A u \in Tid : Past(u, 4)' => from'[u] = Boundary(g, First(u)) /\ to'[u] = Boundary(g, Last(u))
    BY <1>11, <1>15
  <2>6. \A u \in Tid : /\ Boundary(buf["hash_items"], First(u))' = Boundary(g, First(u))
                       /\ Boundary(buf["hash_items"], Last(u))' = Boundary(g, Last(u))
    <3>1. PICK b : buf' = b
      OBVIOUS
    <3>2. \A u \in Tid : /\ Boundary(buf["hash_items"], First(u))' = Boundary(b["hash_items"], First(u))
                         /\ Boundary(buf["hash_items"], Last(u))' = Boundary(b["hash_items"], Last(u))
      BY <2>1, <3>1 DEF Boundary, RunEnd, First, Last, Chunk, Smaller
    <3>3. b["hash_items"] = g
      BY <1>12, <3>1
    <3> QED BY <3>2, <3>3
  <2> QED BY <2>2, <2>4, <2>5, <2>6 DEF BoundsRight
<1>20. CountsRight'
  <2> SUFFICES ASSUME NEW q \in 0..3, NEW u \in Tid, Past(u, 2 * q)', ~ Past(u, 2 * q + 2)',
                      NEW d \in {0, 1}
               PROVE  counts'[u][d] = InBucket(q, buf'[Source(q)], from'[u], to'[u], d)
    BY DEF CountsRight
  <2>1. 2 * q \in 0..8 /\ 2 * q + 2 \in 0..8
    OBVIOUS
  <2>2. q \in {1, 2}
    <3>1. ~ (2 * q + 2 < 4) /\ ~ (2 * q > 4)
      BY <1>7, <2>1 DEF Over, Untouched
    <3> QED BY <3>1
  <2>3. CASE q = 1
    <3>1. ~ Past(u, 4) /\ u # t /\ Past(u, 2)
      BY <1>7, <2>3 DEF Over
    <3>2. counts[u][d] = InBucket(1, buf["tmp"], from[u], to[u], d)
      BY <3>1 DEF DataInv, CountsRight, Source
    <3> QED BY <1>12, <1>13, <2>3, <3>1, <3>2 DEF Source, Buffer
  <2>4. CASE q = 2
    <3>1. Past(u, 4)'
      BY <2>4
    <3>2. CASE u = t
      BY <1>12, <1>13, <2>4, <3>2 DEF Source
    <3>3. CASE u # t
      <4>1. Past(u, 4) /\ ~ Past(u, 6)
        BY <1>7, <3>1, <3>3 DEF Untouched
      <4>2. counts[u][d] = InBucket(2, h, from[u], to[u], d)
        BY <1>2, <4>1 DEF DataInv, CountsRight, Source
      <4>3. \A k \in from[u]..to[u] - 1 : k \in Region(h, u)
        BY <1>15, <3>1, <3>3 DEF Region
      <4>4. \A k \in from[u]..to[u] - 1 : k \in 0..n - 1 /\ k \notin Region(h, t)
        BY <1>1, <3>3, <4>3, Regions
      <4>5. InBucket(2, g, from[u], to[u], d) = InBucket(2, h, from[u], to[u], d)
        BY <1>10, <4>4 DEF InBucket
      <4> QED BY <1>12, <1>13, <2>4, <3>3, <4>2, <4>5 DEF Source
    <3> QED BY <3>2, <3>3
  <2> QED BY <2>2, <2>3, <2>4
<1>21. MovedRight'
  <2> SUFFICES ASSUME NEW q \in 0..3, Untouched(2 * q + 2)', NEW u \in Tid, Past(u, 2 * q + 1)'
               PROVE  FALSE
    BY DEF MovedRight
  <2>1. 2 * q + 2 \in 0..8 /\ 2 * q + 1 \in 0..8
    OBVIOUS
  <2>2. ~ (2 * q + 2 < 4) /\ ~ (2 * q + 1 > 4)
    BY <1>7, <2>1 DEF Untouched
  <2>3. 2 * q + 2 = 4
    BY <2>2
  <2> QED BY <1>7, <2>3
<1>22. BuffersRight'
  <2>1. PICK b : b = buf'
    OBVIOUS
  <2>2. b["hash_items"] = g /\ b["tmp"] = buf["tmp"]
    BY <1>12, <2>1 DEF Buffer
  <2>3. Over(1) /\ ~ Untouched(3)' /\ ~ Over(5)' /\ ~ Over(7)'
    BY <1>7
  <2>4. Whole(b["tmp"]) /\ Ordered(0, b["tmp"])
    BY <2>2, <2>3 DEF DataInv, BuffersRight
  <2>5. RunsRight(b["hash_items"], D \cup {t})
    BY <1>10, <2>2
  <2> QED BY <1>1, <1>6, <1>7, <2>1, <2>3, <2>4, <2>5, BuffersNext
<1>23. DupsRight'
  <2> SUFFICES ASSUME NEW u \in Tid
               PROVE  dups'[u] = IF Past(u, 4)' THEN Cardinality(Repeats(g, from'[u], to'[u])) ELSE 0
    BY <1>12 DEF DupsRight
  <2>1. CASE ~ Past(u, 4)'
    BY <1>7, <1>13, <2>1 DEF DataInv, DupsRight
  <2>2. CASE Past(u, 4)' /\ u = t
    BY <1>8, <1>13, <1>16, <2>2
  <2>3. CASE Past(u, 4)' /\ u # t
    <3>1. Past(u, 4) /\ from'[u] = from[u] /\ to'[u] = to[u]
      BY <1>15, <2>3
    <3>2. dups[u] = Cardinality(Repeats(h, from[u], to[u]))
      BY <1>2, <3>1 DEF DataInv, DupsRight
    <3> QED BY <1>13, <1>15, <1>16, <2>3, <3>1, <3>2
  <2> QED BY <2>1, <2>2, <2>3
<1> QED BY <1>17, <1>18, <1>19, <1>20, <1>21, <1>22, <1>23 DEF DataInv

\* A task moves the items of its places to their ranks, and disturbs none that
\* another has moved.
LEMMA Scattered ==
    ASSUME BarrierInv, DataInv, NEW t \in Tid, Scatter(t), NEW p \in 0..3, seg[t] = 2 * p + 1
    PROVE  /\ Split(from, to)
           /\ buf' \in [Buffer -> [0..n - 1 -> Item]]
           /\ \A x \in Buffer : x # Dest(p) => buf'[x] = buf[x]
           /\ \A u \in Tid : u = t \/ Past(u, 2 * p + 1) =>
                 \A k \in from[u]..to[u] - 1 :
                    buf'[Dest(p)][Rank(n, p, buf[Source(p)], k)] = buf[Source(p)][k]
           /\ n' = n /\ input' = input /\ counts' = counts /\ from' = from /\ to' = to
           /\ dups' = dups /\ seg' = seg
           /\ pc[t] = "work" /\ pc' = [pc EXCEPT ![t] = "arrive"]
<1>1. DataTyped /\ n \in Nat /\ n <= MaxItems
  BY DEF DataInv, InputOK
<1>2. PICK s \in Segment : s = 2 * p + 1
  BY DEF Segment
<1>3. Pass(seg[t]) = p /\ Source(p) \in Buffer /\ Dest(p) \in Buffer /\ Source(p) # Dest(p)
  BY DEF Pass, Source, Dest, Buffer
<1>4. /\ n' = n /\ input' = input /\ counts' = counts /\ from' = from /\ to' = to
      /\ dups' = dups /\ seg' = seg
      /\ pc[t] = "work" /\ pc' = [pc EXCEPT ![t] = "arrive"]
  BY DEF Scatter
<1>5. PICK b, old : b = buf[Source(p)] /\ old = buf[Dest(p)]
  OBVIOUS
<1>6. b \in [0..n - 1 -> Item] /\ old \in [0..n - 1 -> Item]
  BY <1>1, <1>3, <1>5 DEF DataTyped
<1>7. /\ \A r \in 0..8 : (r < s => Over(r)) /\ (r > s => Untouched(r))
      /\ ~ Past(t, s)
  BY <1>2, <1>4, AtWork
<1>8. Split(from, to)
  <2>1. Over(4) \/ Untouched(4)
    BY <1>2, <1>7
  <2> QED BY <1>1, <2>1, SplitNow DEF DataInv
<1>9. \A u \in Tid, d \in {0, 1} : counts[u][d] = InBucket(p, b, from[u], to[u], d)
  <2> SUFFICES ASSUME NEW u \in Tid, NEW d \in {0, 1}
               PROVE  counts[u][d] = InBucket(p, b, from[u], to[u], d)
    OBVIOUS
  <2>1. 2 * p \in 0..8 /\ 2 * p + 2 \in 0..8 /\ 2 * p < s /\ 2 * p + 2 > s
    BY <1>2
  <2>2. Past(u, 2 * p) /\ ~ Past(u, 2 * p + 2)
    BY <1>7, <2>1 DEF Over, Untouched
  <2> QED BY <1>5, <2>2 DEF DataInv, CountsRight
<1> DEFINE mine == from[t]..to[t] - 1
           place(k) == Offset(t, Key(p, b[k])) + InBucket(p, b, from[t], k, Key(p, b[k]))
           new == [x \in 0..n - 1 |-> IF \E k \in mine : place(k) = x
                                      THEN b[CHOOSE k \in mine : place(k) = x]
                                      ELSE old[x]]
           rank(k) == Rank(n, p, b, k)
<1>10. buf' = [buf EXCEPT ![Dest(p)] = new]
  BY <1>3, <1>5 DEF Scatter
<1>11. \A k \in mine : k \in 0..n - 1 /\ place(k) = rank(k)
  <2> TAKE k \in mine
  <2> QED BY <1>1, <1>6, <1>8, <1>9, Placed
<1>12. /\ \A k \in 0..n - 1 : rank(k) \in 0..n - 1
       /\ \A j, k \in 0..n - 1 : rank(j) = rank(k) => j = k
  BY <1>1, <1>6, RankFacts
<1> HIDE DEF place, rank
<1>13. \A k \in mine : new[rank(k)] = b[k]
  <2> TAKE k \in mine
  <2>1. rank(k) \in 0..n - 1 /\ place(k) = rank(k)
    BY <1>11, <1>12
  <2>2. PICK j \in mine : j = CHOOSE i \in mine : place(i) = rank(k)
    BY <2>1
  <2>3. place(j) = rank(k)
    BY <2>1, <2>2
  <2>4. j = k
    BY <1>11, <1>12, <2>3
  <2> QED BY <2>1, <2>2, <2>4
<1>14. \A k \in 0..n - 1 : k \notin mine => new[rank(k)] = old[rank(k)]
  BY <1>11, <1>12
<1>15. new \in [0..n - 1 -> Item]
  <2> SUFFICES ASSUME NEW x \in 0..n - 1 PROVE new[x] \in Item
    BY DEF new
  <2>1. CASE \E k \in mine : place(k) = x
    <3>1. PICK k \in mine : place(k) = x
      BY <2>1
    <3>2. x = rank(k) /\ k \in 0..n - 1
      BY <1>11, <3>1
    <3> QED BY <1>6, <1>13, <3>1, <3>2
  <2>2. CASE ~ \E k \in mine : place(k) = x
    BY <1>6, <2>2
  <2> QED BY <2>1, <2>2
<1> HIDE DEF new
<1>16. buf' \in [Buffer -> [0..n - 1 -> Item]] /\ buf'[Dest(p)] = new
       /\ \A x \in Buffer : x # Dest(p) => buf'[x] = buf[x]
  BY <1>1, <1>3, <1>10, <1>15 DEF DataTyped
<1>17. ASSUME NEW u \in Tid, u = t \/ Past(u, s), NEW k \in from[u]..to[u] - 1
       PROVE  new[rank(k)] = b[k]
  <2>1. CASE u = t
    BY <1>13, <1>17, <2>1
  <2>2. CASE u # t
    <3>1. k \in 0..n - 1 /\ k \notin mine
      <4>1. from[u] \in Nat /\ to[u] \in 0..n /\ from[t] \in Nat /\ to[t] \in 0..n
        BY <1>8 DEF Split
      <4>2. to[u] <= from[t] \/ to[t] <= from[u]
        <5>1. u < t \/ t < u
          BY <2>2, Workers
        <5> QED BY <1>8, <5>1 DEF Split
      <4> QED BY <1>1, <1>17, <4>1, <4>2
    <3>2. Untouched(2 * p + 2) /\ Past(u, 2 * p + 1)
      BY <1>2, <1>7, <1>17, <2>2
    <3>3. old[rank(k)] = b[k]
      BY <1>5, <1>17, <3>2 DEF DataInv, MovedRight, rank
    <3> QED BY <1>14, <3>1, <3>3
  <2> QED BY <2>1, <2>2
<1>18. \A u \in Tid : u = t \/ Past(u, 2 * p + 1) =>
          \A k \in from[u]..to[u] - 1 : buf'[Dest(p)][Rank(n, p, b, k)] = b[k]
  BY <1>2, <1>16, <1>17 DEF rank
<1> QED BY <1>4, <1>5, <1>8, <1>16, <1>18

\* The last task to move its items completes the pass.
LEMMA PassEnds ==
    ASSUME BarrierInv, DataInv, NEW t \in Tid, Scatter(t), NEW p \in 0..3, seg[t] = 2 * p + 1,
           Over(2 * p + 1)', NEW b, b = buf[Source(p)], NEW c, buf'[Dest(p)] = c
    PROVE  /\ Arranged(p, b, c)
           /\ b \in [0..n - 1 -> Item] /\ c \in [0..n - 1 -> Item]
<1>1. DataTyped /\ n \in Nat
  BY DEF DataInv, InputOK
<1>2. /\ Split(from, to)
      /\ buf' \in [Buffer -> [0..n - 1 -> Item]]
      /\ \A u \in Tid : u = t \/ Past(u, 2 * p + 1) =>
            \A k \in from[u]..to[u] - 1 : c[Rank(n, p, b, k)] = b[k]
      /\ pc[t] = "work" /\ pc' = [pc EXCEPT ![t] = "arrive"] /\ seg' = seg
  BY Scattered
<1>3. b \in [0..n - 1 -> Item] /\ c \in [0..n - 1 -> Item]
  <2>1. Source(p) \in Buffer /\ Dest(p) \in Buffer
    BY DEF Source, Dest, Buffer
  <2>2. b \in [0..n - 1 -> Item]
    BY <1>1, <2>1 DEF DataTyped
  <2>3. c \in [0..n - 1 -> Item]
    BY <1>2, <2>1
  <2> QED BY <2>2, <2>3
<1>4. \A u \in Tid : u = t \/ Past(u, 2 * p + 1)
  <2>1. 2 * p + 1 \in Segment
    BY DEF Segment
  <2>2. \A u \in Tid : Past(u, 2 * p + 1)' <=> Past(u, 2 * p + 1) \/ u = t
    BY <1>2, <2>1, WorkStep
  <2> QED BY <2>2 DEF Over
<1>5. ASSUME NEW k \in 0..n - 1 PROVE c[Rank(n, p, b, k)] = b[k]
  <2>1. PICK u \in Tid : from[u] <= k /\ k < to[u]
    BY <1>2 DEF Split
  <2>2. from[u] \in Nat /\ to[u] \in 0..n
    BY <1>2 DEF Split
  <2>3. k \in from[u]..to[u] - 1
    BY <1>1, <2>1, <2>2
  <2> QED BY <1>2, <1>4, <2>3
<1>6. Arranged(p, b, c)
  <2>1. /\ \A x, y \in 0..n - 1 : x < y =>
             \E j, k \in 0..n - 1 : c[x] = b[j] /\ c[y] = b[k] /\ Before(p, b, j, k)
        /\ \A x \in 0..n - 1 : \E k \in 0..n - 1 : c[x] = b[k]
        /\ \A k \in 0..n - 1 : \E x \in 0..n - 1 : c[x] = b[k]
    BY <1>1, <1>3, <1>5, PassSorts, ZenonT(60)
  <2> QED BY <2>1 DEF Arranged
<1> QED BY <1>3, <1>6

LEMMA ScatterKeeps ==
    ASSUME BarrierInv, DataInv, NEW t \in Tid, Scatter(t), NEW p \in 0..3, seg[t] = 2 * p + 1
    PROVE  DataInv'
<1>1. DataTyped /\ n \in Nat /\ InputOK
  BY DEF DataInv, InputOK
<1>2. PICK s \in Segment : s = 2 * p + 1
  BY DEF Segment
<1>3. /\ Split(from, to)
      /\ buf' \in [Buffer -> [0..n - 1 -> Item]]
      /\ \A x \in Buffer : x # Dest(p) => buf'[x] = buf[x]
      /\ \A u \in Tid : u = t \/ Past(u, s) =>
            \A k \in from[u]..to[u] - 1 :
               buf'[Dest(p)][Rank(n, p, buf[Source(p)], k)] = buf[Source(p)][k]
      /\ n' = n /\ input' = input /\ counts' = counts /\ from' = from /\ to' = to
      /\ dups' = dups /\ seg' = seg
      /\ pc[t] = "work" /\ pc' = [pc EXCEPT ![t] = "arrive"]
  BY <1>2, Scattered
<1>4. /\ \A r \in 0..8 : r < s => Over(r) /\ Over(r)' /\ ~ Untouched(r)'
      /\ \A r \in 0..8 : r > s => Untouched(r) /\ Untouched(r)' /\ ~ Over(r)'
      /\ \A u \in Tid : Past(u, s)' <=> Past(u, s) \/ u = t
      /\ ~ Untouched(s)'
      /\ Dropped' = Dropped
  <2>1. s # 4 /\ seg[t] = s
    BY <1>2
  <2> QED BY <1>3, <2>1, WorkStep
<1>5. \A u \in Tid, r \in 0..8 : r # s => (Past(u, r)' <=> Past(u, r))
  BY <1>2, <1>3, PastWork
<1>6. DataTyped' /\ InputOK'
  BY <1>1, <1>3 DEF DataTyped, InputOK
<1>7. \A u \in Tid : Past(u, 4)' => buf'["hash_items"] = buf["hash_items"] /\ Past(u, 4)
  <2> SUFFICES ASSUME NEW u \in Tid, Past(u, 4)'
               PROVE  buf'["hash_items"] = buf["hash_items"] /\ Past(u, 4)
    OBVIOUS
  <2>1. ~ (4 > s) /\ Past(u, 4)
    BY <1>2, <1>4, <1>5 DEF Untouched
  <2>2. Dest(p) # "hash_items"
    BY <1>2, <2>1 DEF Dest
  <2> QED BY <1>3, <2>1, <2>2 DEF Buffer
<1>8. BoundsRight'
  <2>0. UNCHANGED <<n, from, to>>
    BY <1>3
  <2>1. \A k : First(k)' = First(k) /\ Last(k)' = Last(k)
    BY <2>0 DEF First, Last, Chunk, Smaller
  <2>2. ASSUME NEW u \in Tid, ~ Past(u, 4)' PROVE from'[u] = First(u) /\ to'[u] = Last(u)
    <3>1. ~ Past(u, 4)
      BY <1>2, <1>5, <2>2
    <3> QED BY <2>0, <3>1 DEF DataInv, BoundsRight
  <2>3. ASSUME NEW u \in Tid, Past(u, 4)'
        PROVE  /\ from'[u] = Boundary(buf["hash_items"], First(u))'
               /\ to'[u] = Boundary(buf["hash_items"], Last(u))'
    <3>1. Past(u, 4) /\ buf'["hash_items"] = buf["hash_items"]
      BY <1>7, <2>3
    <3>2. PICK b : buf' = b
      OBVIOUS
    <3>3. b["hash_items"] = buf["hash_items"]
      BY <3>1, <3>2
    <3>4. /\ from'[u] = Boundary(b["hash_items"], First(u))
          /\ to'[u] = Boundary(b["hash_items"], Last(u))
      BY <2>0, <3>1, <3>3 DEF DataInv, BoundsRight
    <3>5. /\ Boundary(buf["hash_items"], First(u))' = Boundary(b["hash_items"], First(u))
          /\ Boundary(buf["hash_items"], Last(u))' = Boundary(b["hash_items"], Last(u))
      BY <2>0, <3>2 DEF Boundary, RunEnd, First, Last, Chunk, Smaller
    <3> QED BY <3>4, <3>5
  <2> QED BY <2>1, <2>2, <2>3 DEF BoundsRight
<1>9. CountsRight'
  <2> SUFFICES ASSUME NEW q \in 0..3, NEW u \in Tid, Past(u, 2 * q)', ~ Past(u, 2 * q + 2)',
                      NEW d \in {0, 1}
               PROVE  counts[u][d] = InBucket(q, buf'[Source(q)], from[u], to[u], d)
    BY <1>3 DEF CountsRight
  <2>1. 2 * q \in 0..8 /\ 2 * q + 2 \in 0..8
    OBVIOUS
  <2>2. q = p
    <3>1. ~ (2 * q + 2 < s) /\ ~ (2 * q > s)
      BY <1>4, <2>1 DEF Over, Untouched
    <3> QED BY <1>2, <3>1
  <2>3. Past(u, 2 * q) /\ ~ Past(u, 2 * q + 2)
    BY <1>2, <1>5, <2>1, <2>2
  <2>4. counts[u][d] = InBucket(q, buf[Source(q)], from[u], to[u], d)
    BY <2>3 DEF DataInv, CountsRight
  <2>5. buf'[Source(q)] = buf[Source(q)]
    BY <1>3, <2>2 DEF Source, Dest, Buffer
  <2> QED BY <2>4, <2>5
<1>10. MovedRight'
  <2> SUFFICES ASSUME NEW q \in 0..3, Untouched(2 * q + 2)', NEW u \in Tid, Past(u, 2 * q + 1)',
                      NEW k \in from[u]..to[u] - 1
               PROVE  buf'[Dest(q)][Rank(n, q, buf'[Source(q)], k)] = buf'[Source(q)][k]
    BY <1>3 DEF MovedRight
  <2>1. 2 * q + 1 \in 0..8 /\ 2 * q + 2 \in 0..8
    OBVIOUS
  <2>2. q = p
    <3>1. ~ (2 * q + 2 < s) /\ ~ (2 * q + 1 > s)
      BY <1>4, <2>1 DEF Untouched
    <3> QED BY <1>2, <3>1
  <2>3. u = t \/ Past(u, s)
    BY <1>2, <1>4, <2>2
  <2>4. buf'[Source(q)] = buf[Source(q)]
    BY <1>3, <2>2 DEF Source, Dest, Buffer
  <2> QED BY <1>3, <2>2, <2>3, <2>4
<1>11. DupsRight'
  <2> SUFFICES ASSUME NEW u \in Tid
               PROVE  dups[u] = IF Past(u, 4)' THEN Cardinality(Repeats(buf'["hash_items"], from[u], to[u]))
                                ELSE 0
    BY <1>3 DEF DupsRight
  <2>1. Past(u, 4)' <=> Past(u, 4)
    BY <1>2, <1>5
  <2> QED BY <1>7, <2>1 DEF DataInv, DupsRight
<1>12. BuffersRight'
  <2>1. PICK b : buf' = b
    OBVIOUS
  <2>2. PICK D : D = Dropped
    OBVIOUS
  <2>3. \A x \in Buffer : x # Dest(p) => b[x] = buf[x]
    BY <1>3, <2>1
  <2>4. /\ Untouched(3)' => p = 0
        /\ Over(1)' => p = 0 \/ Over(1)
        /\ Over(3)' => p = 1 \/ (p \in {2, 3} /\ Over(3))
        /\ Over(5)' => p = 2 \/ (p = 3 /\ Over(5))
        /\ Over(7)' => p = 3
    <3>1. /\ s > 3 => ~ Untouched(3)'
          /\ s = 3 => ~ Untouched(3)'
          /\ s < 1 => ~ Over(1)'
          /\ s > 1 => Over(1)
          /\ s < 3 => ~ Over(3)'
          /\ s > 3 => Over(3)
          /\ s < 5 => ~ Over(5)'
          /\ s > 5 => Over(5)
          /\ s < 7 => ~ Over(7)'
      BY <1>4
    <3>2. (p = 0 /\ s = 1) \/ (p = 1 /\ s = 3) \/ (p = 2 /\ s = 5) \/ (p = 3 /\ s = 7)
      BY <1>2
    <3> QED BY <3>1, <3>2
  <2>5. ASSUME NEW i \in 0..3, i = p, Over(2 * i + 1)'
        PROVE  /\ Arranged(i, buf[Source(i)], b[Dest(i)])
               /\ buf[Source(i)] \in [0..n - 1 -> Item] /\ b[Dest(i)] \in [0..n - 1 -> Item]
    BY <2>1, <2>5, PassEnds
  <2>6. ASSUME Untouched(3)' PROVE b["hash_items"] = input
    <3>1. p = 0 /\ Untouched(3)
      BY <1>2, <1>4, <2>4, <2>6
    <3> QED BY <2>3, <3>1 DEF DataInv, BuffersRight, Dest, Buffer
  <2>7. ASSUME Over(1)' PROVE Whole(b["tmp"]) /\ Ordered(0, b["tmp"])
    <3>1. CASE p = 0
      <4>1. buf["hash_items"] = input
        BY <1>2, <1>4, <3>1 DEF DataInv, BuffersRight
      <4>2. Arranged(0, input, b["tmp"]) /\ input \in [0..n - 1 -> Item]
        BY <2>5, <2>7, <3>1, <4>1 DEF Source, Dest
      <4>3. Whole(input)
        BY DEF Whole
      <4>4. Whole(b["tmp"])
        BY <4>2, <4>3, ArrangedWhole
      <4>5. Ordered(0, b["tmp"])
        BY <1>1, <4>2, ArrangedOrder
      <4> QED BY <4>4, <4>5
    <3>2. CASE p # 0
      <4>1. Over(1) /\ b["tmp"] = buf["tmp"]
        BY <2>3, <2>4, <2>7, <3>2 DEF Dest, Buffer
      <4> QED BY <4>1 DEF DataInv, BuffersRight
    <3> QED BY <3>1, <3>2
  <2>8. ASSUME Over(3)' PROVE RunsRight(b["hash_items"], D)
    <3>1. CASE p = 1
      <4>1. Whole(buf["tmp"]) /\ Ordered(0, buf["tmp"])
        BY <1>2, <1>4, <3>1 DEF DataInv, BuffersRight
      <4>2. /\ Arranged(1, buf["tmp"], b["hash_items"])
            /\ buf["tmp"] \in [0..n - 1 -> Item] /\ b["hash_items"] \in [0..n - 1 -> Item]
        BY <2>5, <2>8, <3>1 DEF Source, Dest
      <4>3. Whole(b["hash_items"])
        BY <4>1, <4>2, ArrangedWhole
      <4>4. ByHash(b["hash_items"])
        BY <1>1, <4>1, <4>2, HashSorted
      <4>5. D = {}
        BY <1>2, <1>4, <2>2, <3>1 DEF Dropped, Untouched
      <4>6. RunsRight(b["hash_items"], {})
        BY <1>1, <4>2, <4>3, <4>4, RunsStart
      <4> QED BY <4>5, <4>6
    <3>2. CASE p \in {2, 3} /\ Over(3)
      <4>1. b["hash_items"] = buf["hash_items"]
        BY <2>3, <3>2 DEF Dest, Buffer
      <4> QED BY <2>2, <3>2, <4>1 DEF DataInv, BuffersRight
    <3> QED BY <2>4, <2>8, <3>1, <3>2
  <2>9. ASSUME Over(5)' PROVE Tidy(b["score_tmp"]) /\ Ordered(2, b["score_tmp"])
    <3>1. CASE p = 2
      <4>1. Over(3) /\ Dropped = Tid
        BY <1>2, <1>4, <3>1 DEF Dropped, Over
      <4>2. RunsRight(buf["hash_items"], Tid)
        BY <4>1 DEF DataInv, BuffersRight
      <4>3. /\ Arranged(2, buf["hash_items"], b["score_tmp"])
            /\ buf["hash_items"] \in [0..n - 1 -> Item] /\ b["score_tmp"] \in [0..n - 1 -> Item]
        BY <2>5, <2>9, <3>1 DEF Source, Dest
      <4>4. Tidy(buf["hash_items"])
        BY <1>1, <4>2, <4>3, RunsEnd
      <4>5. Tidy(b["score_tmp"])
        BY <1>1, <4>3, <4>4, ArrangedTidy
      <4>6. Ordered(2, b["score_tmp"])
        BY <1>1, <4>3, ArrangedOrder
      <4> QED BY <4>5, <4>6
    <3>2. CASE p = 3 /\ Over(5)
      <4>1. b["score_tmp"] = buf["score_tmp"]
        BY <2>3, <3>2 DEF Dest, Buffer
      <4> QED BY <3>2, <4>1 DEF DataInv, BuffersRight
    <3> QED BY <2>4, <2>9, <3>1, <3>2
  <2>10. ASSUME Over(7)' PROVE Tidy(b["dest"]) /\ ByScore(b["dest"])
    <3>1. p = 3
      BY <2>4, <2>10
    <3>2. Tidy(buf["score_tmp"]) /\ Ordered(2, buf["score_tmp"])
      BY <1>2, <1>4, <3>1 DEF DataInv, BuffersRight
    <3>3. /\ Arranged(3, buf["score_tmp"], b["dest"])
          /\ buf["score_tmp"] \in [0..n - 1 -> Item] /\ b["dest"] \in [0..n - 1 -> Item]
      BY <2>5, <2>10, <3>1 DEF Source, Dest
    <3>4. Tidy(b["dest"])
      BY <1>1, <3>2, <3>3, ArrangedTidy
    <3>5. ByScore(b["dest"])
      BY <1>1, <3>2, <3>3, ScoreSorted
    <3> QED BY <3>4, <3>5
  <2>11. Dropped' = D
    BY <1>4, <2>2
  <2> QED BY <1>1, <1>3, <2>1, <2>6, <2>7, <2>8, <2>9, <2>10, <2>11, BuffersNext
<1> QED BY <1>6, <1>8, <1>9, <1>10, <1>11, <1>12 DEF DataInv

LEMMA DataInit == Init => DataInv
<1> SUFFICES ASSUME Init PROVE DataInv
  OBVIOUS
<1>1. n \in Nat /\ n \in 0..MaxItems
  BY Workers DEF Init
<1>2. PICK hash \in [0..n - 1 -> Hashes], score \in [0..n - 1 -> Scores] :
         input = [k \in 0..n - 1 |-> [hash |-> hash[k], score |-> score[k], id |-> k, dup |-> FALSE]]
  BY DEF Init
<1>3. /\ input \in [0..n - 1 -> Item]
      /\ \A k \in 0..n - 1 : input[k].id = k /\ ~ input[k].dup /\ input[k].score \in Scores
  <2>1. \A k \in 0..n - 1 : hash[k] \in 0..3 /\ score[k] \in 0..3 /\ k \in 0..MaxItems /\ score[k] \in Scores
    <3> TAKE k \in 0..n - 1
    <3>1. hash[k] \in Hashes /\ score[k] \in Scores
      BY <1>2
    <3>2. k \in 0..MaxItems
      BY <1>1, Workers
    <3> QED BY <3>1, <3>2, MergeAssumption
  <2>2. ASSUME NEW k \in 0..n - 1
        PROVE  [hash |-> hash[k], score |-> score[k], id |-> k, dup |-> FALSE] \in Item
    BY <2>1 DEF Item
  <2> QED BY <1>2, <2>1, <2>2
<1>4. InputOK
  BY <1>1, <1>3 DEF InputOK
<1>5. \A t \in Tid, s \in 0..8 : ~ Past(t, s)
  BY DEF Init, Past
<1>6. 0 \in Tid
  BY Workers
<1>7. \A s \in 0..8 : Untouched(s) /\ ~ Over(s)
  BY <1>5, <1>6 DEF Untouched, Over
<1>8. \A t \in Tid : First(t) \in Nat /\ Last(t) \in 0..n
  BY <1>1, Chunks
<1>9. \A t \in Tid : from[t] = First(t) /\ to[t] = Last(t)
  BY DEF Init, First, Last
<1>10. DataTyped
  <2>1. from \in [Tid -> Nat] /\ to \in [Tid -> 0..n]
    <3>1. /\ from = [t \in Tid |-> First(t)]
          /\ to = [t \in Tid |-> Last(t)]
      BY DEF Init, First, Last
    <3> QED BY <1>8, <3>1
  <2>2. counts \in [Tid -> [{0, 1} -> 0..n]] /\ dups \in [Tid -> 0..n]
    BY <1>1 DEF Init
  <2>3. buf \in [Buffer -> [0..n - 1 -> Item]]
    <3>1. Blank \in Item
      BY Workers DEF Blank, Item
    <3> QED BY <1>3, <3>1 DEF Init
  <2> QED BY <2>1, <2>2, <2>3 DEF DataTyped
<1>11. BoundsRight
  BY <1>5, <1>9 DEF BoundsRight
<1>12. CountsRight
  BY <1>5 DEF CountsRight
<1>13. MovedRight
  BY <1>5 DEF MovedRight
<1>14. BuffersRight
  <2>1. buf["hash_items"] = input
    BY DEF Init, Buffer
  <2> QED BY <1>7, <2>1 DEF BuffersRight
<1>15. DupsRight
  BY <1>5 DEF DupsRight, Init
<1> QED BY <1>4, <1>10, <1>11, <1>12, <1>13, <1>14, <1>15 DEF DataInv

LEMMA DataNext == BarrierInv /\ DataInv /\ [Next]_vars => DataInv'
<1> SUFFICES ASSUME BarrierInv, DataInv, [Next]_vars PROVE DataInv'
  OBVIOUS
<1>1. seg \in [Tid -> Segment]
  BY DEF BarrierInv, ControlOK
<1>2. ASSUME NEW t \in Tid, Count(t) PROVE DataInv'
  <2>1. seg[t] \in {0, 2, 4, 6}
    BY <1>1, <1>2 DEF Count, Segment
  <2>2. CASE seg[t] = 4
    BY <1>2, <2>2, DropKeeps
  <2>3. CASE seg[t] # 4
    <3>1. PICK p \in {0, 1, 3} : seg[t] = 2 * p
      BY <2>1, <2>3
    <3> QED BY <1>2, <3>1, CountKeeps
  <2> QED BY <2>2, <2>3
<1>3. ASSUME NEW t \in Tid, Scatter(t) PROVE DataInv'
  <2>1. PICK p \in 0..3 : seg[t] = 2 * p + 1
    <3>1. seg[t] \in {1, 3, 5, 7}
      BY <1>1, <1>3 DEF Scatter, Segment
    <3> QED BY <3>1
  <2> QED BY <1>3, <2>1, ScatterKeeps
<1>4. ASSUME NEW t \in Tid,
             Arrive(t) \/ Release(t) \/ Wake(t) \/ Load(t) \/ FutexWait(t) \/ Finish(t) \/ Subtract(t)
      PROVE  DataInv'
  <2>1. \A u \in Tid, r \in 0..8 : Past(u, r)' <=> Past(u, r)
    BY <1>4, PastStays
  <2>2. UNCHANGED data
    BY <1>4 DEF Arrive, Release, Wake, Load, FutexWait, Finish, Subtract
  <2> QED BY <2>1, <2>2, DataStays
<1>5. CASE UNCHANGED vars
  <2>1. UNCHANGED data /\ UNCHANGED <<seg, pc>>
    BY <1>5 DEF vars, data
  <2>2. \A u \in Tid, r \in 0..8 : Past(u, r)' <=> Past(u, r)
    BY <2>1 DEF Past
  <2> QED BY <2>1, <2>2, DataStays
<1> QED BY <1>2, <1>3, <1>4, <1>5 DEF Next, Step

-----------------------------------------------------------------------------
(* The size.                                                               *)

\* The duplicates of the task.
Own(t) == Repeats(buf["hash_items"], from[t], to[t])

\* The duplicates that have been taken off the size.
Deducted == {k \in 0..n - 1 : \E t \in Tid : pc[t] = "done" /\ k \in Own(t)}

Ended == \A t \in Tid : pc[t] \in {"subtract", "done"}

SizeRight == size = (IF Ended THEN n ELSE -1) - Cardinality(Deducted)

LEMMA OwnFacts ==
    ASSUME DataInv, NEW t \in Tid, Past(t, 4)
    PROVE  /\ Own(t) \subseteq Region(buf["hash_items"], t) /\ Own(t) \subseteq 0..n - 1
           /\ IsFiniteSet(Own(t)) /\ dups[t] = Cardinality(Own(t))
           /\ \A k \in Own(t) : Repeated(buf["hash_items"], k)
           /\ \A k \in Region(buf["hash_items"], t) : Repeated(buf["hash_items"], k) => k \in Own(t)
<1>1. n \in Nat
  BY DEF DataInv, InputOK
<1>2. PICK h : h = buf["hash_items"]
  OBVIOUS
<1>3. from[t] = Boundary(h, First(t)) /\ to[t] = Boundary(h, Last(t))
  BY <1>2 DEF DataInv, BoundsRight
<1>4. /\ Region(h, t) = from[t]..to[t] - 1 /\ Region(h, t) \subseteq 0..n - 1
      /\ from[t] \in Nat /\ to[t] \in 0..n
  BY <1>1, <1>3, Regions DEF Region
<1>5. Own(t) \subseteq Region(h, t) /\ Own(t) \subseteq 0..n - 1
  BY <1>2, <1>4 DEF Own, Repeats
<1>6. IsFiniteSet(0..n - 1)
  BY <1>1, Counted0
<1>7. IsFiniteSet(Own(t))
  BY <1>5, <1>6, FS_Subset
<1>8. dups[t] = Cardinality(Own(t))
  BY DEF DataInv, DupsRight, Own
<1>9. \A k \in Own(t) : Repeated(h, k)
  BY <1>1, <1>2, <1>4 DEF Own, Repeats, Repeated
<1>10. ASSUME NEW k \in Region(h, t), Repeated(h, k) PROVE k \in Own(t)
  <2>1. k + 1 # to[t]
    BY <1>1, <1>3, <1>10, RegionEnds
  <2> QED BY <1>2, <1>4, <1>10, <2>1 DEF Own, Repeats, Repeated
<1> QED BY <1>2, <1>5, <1>7, <1>8, <1>9, <1>10

LEMMA DeductedIs ==
    ASSUME BarrierInv, DataInv
    PROVE  /\ Deducted = UNION {Own(t) : t \in {u \in Tid : pc[u] = "done"}}
           /\ Deducted \subseteq 0..n - 1
           /\ IsFiniteSet(Deducted) /\ Cardinality(Deducted) \in 0..n
<1>1. \A t \in Tid : pc[t] = "done" => Past(t, 4)
  BY DEF BarrierInv, Past
<1>2. \A t \in Tid : pc[t] = "done" => Own(t) \subseteq 0..n - 1
  BY <1>1, OwnFacts
<1>3. Deducted = UNION {Own(t) : t \in {u \in Tid : pc[u] = "done"}}
  BY <1>2 DEF Deducted, Own
<1>4. Deducted \in SUBSET (0..n - 1)
  BY DEF Deducted
<1>5. n \in Nat
  BY DEF DataInv, InputOK
<1>6. IsFiniteSet(0..n - 1) /\ Cardinality(0..n - 1) = n
  BY <1>5, Counted0
<1>7. IsFiniteSet(Deducted) /\ Cardinality(Deducted) <= n
  BY <1>4, <1>6, FS_Subset
<1>8. Cardinality(Deducted) \in Nat
  BY <1>7, FS_CardinalityType
<1> QED BY <1>3, <1>4, <1>5, <1>7, <1>8

\* A task that is done with its subtraction.
LEMMA OneMore ==
    ASSUME BarrierInv, DataInv, NEW t \in Tid, Past(t, 4), pc[t] # "done",
           UNCHANGED data, pc' = [pc EXCEPT ![t] = "done"]
    PROVE  Cardinality(Deducted)' = Cardinality(Deducted) + dups[t]
<1>1. pc \in [Tid -> PC]
  BY DEF BarrierInv, ControlOK
<1>2. pc'[t] = "done" /\ \A u \in Tid \ {t} : pc'[u] = pc[u]
  BY <1>1
<1>3. Deducted' = Deducted \cup Own(t)
  <2>1. Own(t) \subseteq 0..n - 1
    BY OwnFacts
  <2>2. UNCHANGED <<n, buf, from, to>>
    BY DEF data
  <2> QED BY <1>2, <2>1, <2>2 DEF Deducted, Own
<1>4. ASSUME NEW k \in Deducted, k \in Own(t) PROVE FALSE
  <2>1. PICK u \in Tid : pc[u] = "done" /\ k \in Own(u)
    BY DEF Deducted, Own
  <2>2. Past(u, 4)
    BY <2>1 DEF BarrierInv, Past
  <2>3. k \in Region(buf["hash_items"], u) /\ k \in Region(buf["hash_items"], t)
    BY <1>4, <2>1, <2>2, OwnFacts
  <2>4. n \in Nat
    BY DEF DataInv, InputOK
  <2>5. u = t
    BY <2>3, <2>4, Regions
  <2> QED BY <2>1, <2>5
<1>5. IsFiniteSet(Deducted) /\ IsFiniteSet(Own(t)) /\ dups[t] = Cardinality(Own(t))
  BY DeductedIs, OwnFacts
<1>6. Deducted \cap Own(t) = {}
  BY <1>4
<1>7. Cardinality(Deducted \cup Own(t)) = Cardinality(Deducted) + Cardinality(Own(t))
  BY <1>5, <1>6, DisjointUnion
<1> QED BY <1>3, <1>5, <1>7

\* The last to arrive finds all others past the barrier, any other does not.
LEMMA LastOne ==
    ASSUME BarrierInv, NEW t \in Tid, pc[t] = "arrive", seg[t] = 7
    PROVE  bar[1] = MergeWorkers - 1 <=> \A u \in Tid \ {t} : pc[u] \in {"subtract", "done"}
<1>1. Gathering(7) /\ Front(7)
  BY AtFront DEF Inside
<1>2. bar[1] = Cardinality(Arrived(7))
  BY <1>1 DEF Gathering
<1>3. IsFiniteSet(Arrived(7)) /\ t \notin Arrived(7) /\ Arrived(7) \subseteq Tid
  BY ArrivedSize DEF Arrived
<1>4. \A u \in Tid : pc[u] \in {"subtract", "done"} <=> u \in Arrived(7)
  <2> TAKE u \in Tid
  <2>1. pc[u] \in {"subtract", "done"} => seg[u] = 7
    BY DEF BarrierInv
  <2>2. pc[u] \in Inside \cup {"release"} => seg[u] <= 6
    BY DEF BarrierInv
  <2>3. pc[u] \in PC
    BY DEF BarrierInv, ControlOK
  <2> QED BY <2>1, <2>2, <2>3 DEF Arrived, PC, Inside
<1>5. Cardinality(Arrived(7) \cup {t}) = Cardinality(Arrived(7)) + 1
  BY <1>3, FS_AddElement
<1>6. /\ IsFiniteSet(Arrived(7) \cup {t}) /\ Arrived(7) \cup {t} \in SUBSET Tid
      /\ Cardinality(Arrived(7)) \in Nat
  BY <1>3, FS_AddElement, FS_CardinalityType
<1>7. Cardinality(Arrived(7) \cup {t}) = MergeWorkers <=> Arrived(7) \cup {t} = Tid
  BY <1>6, Tasks, FS_Subset
<1>8. bar[1] = MergeWorkers - 1 <=> Arrived(7) \cup {t} = Tid
  BY <1>2, <1>5, <1>6, <1>7, Workers
<1>9. Arrived(7) \cup {t} = Tid <=> \A u \in Tid \ {t} : u \in Arrived(7)
  BY <1>3
<1> QED BY <1>4, <1>8, <1>9

LEMMA SizeWork ==
    ASSUME BarrierInv, DataInv, SizeRight, NEW t \in Tid, Count(t) \/ Scatter(t)
    PROVE  SizeRight'
<1>1. seg \in [Tid -> Segment] /\ pc \in [Tid -> PC]
  BY DEF BarrierInv, ControlOK
<1>2. pc[t] = "work" /\ pc' = [pc EXCEPT ![t] = "arrive"] /\ size' = size /\ n' = n
  BY DEF Count, Scatter
<1>3. \A u \in Tid : pc'[u] = "done" <=> pc[u] = "done"
  BY <1>1, <1>2
<1>4. ~ Ended /\ ~ Ended'
  BY <1>1, <1>2 DEF Ended
<1>5. Deducted' = Deducted
  <2>1. CASE \A u \in Tid : pc[u] # "done"
    BY <1>3, <2>1 DEF Deducted
  <2>2. CASE ~ \A u \in Tid : pc[u] # "done"
    <3>1. PICK u \in Tid : pc[u] = "done" /\ seg[u] = 7
      BY <2>2 DEF BarrierInv
    <3>2. seg[t] = 7
      <4>1. seg[t] < seg[u] => pc[t] \in {"load", "wait", "asleep", "wake"}
        BY DEF BarrierInv, LockStep
      <4> QED BY <1>1, <1>2, <3>1, <4>1 DEF Segment
    <3>3. Scatter(t) /\ Dest(Pass(seg[t])) = "dest"
      BY <3>2 DEF Count, Dest, Pass
    <3>4. buf'["hash_items"] = buf["hash_items"] /\ from' = from /\ to' = to
      <4>1. buf \in [Buffer -> [0..n - 1 -> Item]]
        BY DEF DataInv, DataTyped
      <4> QED BY <3>3, <4>1 DEF Scatter, Buffer
    <3> QED BY <1>2, <1>3, <3>4 DEF Deducted, Own
  <2> QED BY <2>1, <2>2
<1> QED BY <1>2, <1>4, <1>5 DEF SizeRight

LEMMA SizeBarrier ==
    ASSUME BarrierInv, DataInv, SizeRight, NEW t \in Tid,
           Arrive(t) \/ Release(t) \/ Wake(t) \/ Load(t) \/ FutexWait(t)
    PROVE  SizeRight'
<1>1. seg \in [Tid -> Segment] /\ pc \in [Tid -> PC]
  BY DEF BarrierInv, ControlOK
<1>2. size' = size /\ UNCHANGED <<n, buf, from, to>>
  BY DEF Arrive, Release, Wake, Load, FutexWait, data
<1>3. pc[t] \notin {"subtract", "done"}
  BY DEF Arrive, Release, Wake, Load, FutexWait
<1>4. \A u \in Tid : pc'[u] \in {"subtract", "done"} => pc'[u] = pc[u]
  BY <1>1 DEF Arrive, Release, Wake, Load, FutexWait, Enter
<1>5. \A u \in Tid : pc[u] \in {"subtract", "done"} => pc'[u] = pc[u]
  BY <1>1, <1>3 DEF Arrive, Release, Wake, Load, FutexWait, Enter
<1>6. Deducted' = Deducted
  BY <1>2, <1>4, <1>5 DEF Deducted, Own
<1>7. Ended' <=> Ended
  BY <1>4, <1>5 DEF Ended
<1> QED BY <1>2, <1>6, <1>7 DEF SizeRight

LEMMA SizeFinish ==
    ASSUME BarrierInv, DataInv, SizeRight, NEW t \in Tid, Finish(t)
    PROVE  SizeRight'
<1>1. pc \in [Tid -> PC] /\ n \in Nat /\ dups[t] \in Nat /\ Cardinality(Deducted) \in Nat
  <2>1. pc \in [Tid -> PC]
    BY DEF BarrierInv, ControlOK
  <2>2. n \in Nat
    BY DEF DataInv, InputOK
  <2>3. dups[t] \in 0..n
    BY DEF DataInv, DataTyped
  <2>4. Cardinality(Deducted) \in 0..n
    BY DeductedIs
  <2> QED BY <2>1, <2>2, <2>3, <2>4
<1>2. pc[t] = "arrive" /\ seg[t] = 7 /\ Bi(t) = 1 /\ UNCHANGED data /\ n' = n
  BY DEF Finish, Bi, data
<1>3. Past(t, 4) /\ ~ Ended
  BY <1>2 DEF Past, Ended
<1>4. CASE bar[1] = MergeWorkers - 1
  <2>1. size' = size + n - dups[t] + 1 /\ pc' = [pc EXCEPT ![t] = "done"]
    BY <1>2, <1>4 DEF Finish
  <2>2. Cardinality(Deducted)' = Cardinality(Deducted) + dups[t]
    BY <1>2, <1>3, <2>1, OneMore
  <2>3. Ended'
    <3>1. \A u \in Tid \ {t} : pc[u] \in {"subtract", "done"}
      BY <1>2, <1>4, LastOne
    <3> QED BY <1>1, <2>1, <3>1 DEF Ended
  <2>4. size = -1 - Cardinality(Deducted)
    BY <1>3 DEF SizeRight
  <2>5. size' = n - Cardinality(Deducted)'
    BY <1>1, <2>1, <2>2, <2>4
  <2> QED BY <1>2, <2>3, <2>5 DEF SizeRight
<1>5. CASE bar[1] # MergeWorkers - 1
  <2>1. size' = size /\ pc' = [pc EXCEPT ![t] = IF dups[t] = 0 THEN "done" ELSE "subtract"]
    BY <1>2, <1>5 DEF Finish
  <2>2. ~ Ended'
    <3>1. PICK u \in Tid \ {t} : pc[u] \notin {"subtract", "done"}
      BY <1>2, <1>5, LastOne
    <3> QED BY <1>1, <2>1, <3>1 DEF Ended
  <2>3. Cardinality(Deducted)' = Cardinality(Deducted)
    <3>1. CASE dups[t] = 0
      <4>1. Cardinality(Deducted)' = Cardinality(Deducted) + dups[t]
        BY <1>2, <1>3, <2>1, <3>1, OneMore
      <4> QED BY <1>1, <3>1, <4>1
    <3>2. CASE dups[t] # 0
      <4>1. \A u \in Tid : pc'[u] = "done" <=> pc[u] = "done"
        BY <1>1, <1>2, <2>1, <3>2
      <4>2. UNCHANGED <<n, buf, from, to>>
        BY <1>2 DEF data
      <4> QED BY <4>1, <4>2 DEF Deducted, Own
    <3> QED BY <3>1, <3>2
  <2> QED BY <1>3, <2>1, <2>2, <2>3 DEF SizeRight
<1> QED BY <1>4, <1>5

LEMMA SizeSubtract ==
    ASSUME BarrierInv, DataInv, SizeRight, NEW t \in Tid, Subtract(t)
    PROVE  SizeRight'
<1>1. pc \in [Tid -> PC] /\ n \in Nat /\ dups[t] \in Nat /\ Cardinality(Deducted) \in Nat
  <2>1. pc \in [Tid -> PC]
    BY DEF BarrierInv, ControlOK
  <2>2. n \in Nat
    BY DEF DataInv, InputOK
  <2>3. dups[t] \in 0..n
    BY DEF DataInv, DataTyped
  <2>4. Cardinality(Deducted) \in 0..n
    BY DeductedIs
  <2> QED BY <2>1, <2>2, <2>3, <2>4
<1>2. /\ pc[t] = "subtract" /\ UNCHANGED data /\ n' = n
      /\ size' = size - dups[t] /\ pc' = [pc EXCEPT ![t] = "done"]
  BY DEF Subtract, data
<1>3. Past(t, 4)
  BY <1>2 DEF BarrierInv, Past
<1>4. Cardinality(Deducted)' = Cardinality(Deducted) + dups[t]
  BY <1>2, <1>3, OneMore
<1>5. Ended' <=> Ended
  BY <1>1, <1>2 DEF Ended
<1> QED BY <1>1, <1>2, <1>4, <1>5 DEF SizeRight

LEMMA SizeInit == Init => SizeRight
<1> SUFFICES ASSUME Init PROVE SizeRight
  OBVIOUS
<1>1. 0 \in Tid
  BY Workers
<1>2. Deducted = {}
  BY DEF Init, Deducted
<1>3. ~ Ended
  BY <1>1 DEF Init, Ended
<1>4. Cardinality({}) = 0
  BY FS_EmptySet
<1> QED BY <1>2, <1>3, <1>4 DEF Init, SizeRight

LEMMA SizeNext == BarrierInv /\ DataInv /\ SizeRight /\ [Next]_vars => SizeRight'
<1> SUFFICES ASSUME BarrierInv, DataInv, SizeRight, [Next]_vars PROVE SizeRight'
  OBVIOUS
<1>1. CASE UNCHANGED vars
  BY <1>1 DEF vars, SizeRight, Ended, Deducted, Own
<1> QED BY <1>1, SizeWork, SizeBarrier, SizeFinish, SizeSubtract DEF Next, Step

-----------------------------------------------------------------------------
(* What the main thread sees.                                              *)

Inv == BarrierInv /\ DataInv /\ SizeRight

\* The inductive invariant holds, for any number of tasks, items and scores.
THEOREM MergeInvariant == Spec => []Inv
<1>1. Init => Inv
  BY BarrierInit, DataInit, SizeInit DEF Inv
<1>2. Inv /\ [Next]_vars => Inv'
  BY BarrierNext, DataNext, SizeNext DEF Inv
<1> QED BY <1>1, <1>2, PTL DEF Spec

LEMMA TypesRight == Inv => TypeOK
<1> SUFFICES ASSUME Inv PROVE TypeOK
  OBVIOUS
<1>1. BarrierInv /\ DataInv /\ SizeRight
  BY DEF Inv
<1>2. n \in 0..MaxItems /\ input \in [0..n - 1 -> Item] /\ n \in Nat /\ MaxItems \in Nat
  BY <1>1, Workers DEF DataInv, InputOK
<1>3. DataTyped
  BY <1>1 DEF DataInv
<1>4. 0..n \subseteq 0..MaxItems
  BY <1>2
<1>5. counts \in [Tid -> [{0, 1} -> 0..MaxItems]] /\ dups \in [Tid -> 0..MaxItems]
  BY <1>3, <1>4 DEF DataTyped
<1>6. size \in -1 - MaxItems..MaxItems
  <2>1. Cardinality(Deducted) \in 0..n
    BY <1>1, DeductedIs
  <2>2. size = n - Cardinality(Deducted) \/ size = -1 - Cardinality(Deducted)
    BY <1>1 DEF SizeRight
  <2> QED BY <1>2, <2>1, <2>2
<1> QED BY <1>1, <1>2, <1>3, <1>5, <1>6 DEF TypeOK, DataTyped, BarrierInv, ControlOK

\* When the last task has arrived, all have done their parts.
LEMMA PublishedEnded ==
    ASSUME BarrierInv, Published
    PROVE  Over(7) /\ Ended
<1>1. bar[1] = MergeWorkers /\ \A t \in Tid : seg[t] = 7
  BY DEF Published
<1>2. 0 \in Tid /\ MergeWorkers > 0 /\ MergeWorkers \in Nat
  BY Workers
<1>3. Front(7)
  BY <1>1, <1>2 DEF Front
<1>4. 7 \in Segment /\ 7 % 2 = 1
  BY DEF Segment
<1>5. Gathering(7)
  <2>1. ~ Open(7)
    BY <1>1, <1>2, <1>4 DEF Open
  <2> QED BY <1>3, <1>4, <2>1 DEF BarrierInv
<1>6. Arrived(7) = Tid
  BY <1>1, <1>4, <1>5, ArrivedSize DEF Gathering
<1>7. \A t \in Tid : pc[t] \notin {"work", "arrive"}
  BY <1>6 DEF Arrived
<1>8. \A t \in Tid : pc[t] \notin Inside \cup {"release"} /\ pc[t] \in PC
  BY <1>1 DEF BarrierInv, ControlOK
<1>9. Ended
  BY <1>7, <1>8 DEF Ended, PC, Inside
<1>10. Over(7)
  BY <1>1, <1>7 DEF Over, Past
<1> QED BY <1>9, <1>10

LEMMA AllDoneEnded ==
    ASSUME BarrierInv, AllDone
    PROVE  Over(7) /\ Ended
BY DEF AllDone, BarrierInv, Over, Past, Ended

\* All duplicates of the sorted list, and what is left without them.
LEMMA Duplicates ==
    ASSUME BarrierInv, DataInv, Over(7)
    PROVE  LET D == {k \in 0..n - 1 : Repeated(buf["hash_items"], k)}
           IN  /\ IsFiniteSet(D) /\ Cardinality(D) \in Nat /\ Cardinality(Found) \in Nat
               /\ n = Cardinality(Found) + Cardinality(D)
               /\ Deducted \subseteq D
               /\ AllDone => Deducted = D
<1>1. PICK h : h = buf["hash_items"]
  OBVIOUS
<1>2. n \in Nat /\ InputOK /\ h \in [0..n - 1 -> Item]
  <2>1. n \in Nat /\ InputOK
    BY DEF DataInv, InputOK
  <2>2. h \in [0..n - 1 -> Item]
    BY <1>1 DEF DataInv, DataTyped, Buffer
  <2> QED BY <2>1, <2>2
<1>3. \A t \in Tid : Past(t, 3) /\ Past(t, 4)
  <2>1. seg \in [Tid -> Segment]
    BY DEF BarrierInv, ControlOK
  <2> QED BY <2>1 DEF Over, Past, Segment
<1>4. Dropped = Tid /\ Over(3)
  BY <1>3 DEF Dropped, Over
<1>5. RunsRight(h, Tid)
  BY <1>1, <1>4 DEF DataInv, BuffersRight
<1>6. Tidy(h) /\ \A k \in 0..n - 1 : h[k].dup <=> Repeated(h, k)
  BY <1>2, <1>5, RunsEnd
<1> DEFINE D == {k \in 0..n - 1 : Repeated(h, k)}
           P == {k \in 0..n - 1 : ~ h[k].dup}
<1>7. IsFiniteSet(P) /\ Cardinality(P) = Cardinality(Found)
  BY <1>2, <1>6, TidyPlaces
<1>8. IsFiniteSet(0..n - 1) /\ Cardinality(0..n - 1) = n
  BY <1>2, Counted0
<1>9. D \in SUBSET (0..n - 1) /\ P \cap D = {} /\ P \cup D = 0..n - 1
  BY <1>6
<1>10. Deducted \subseteq D
  <2>1. \A t \in Tid : Own(t) \subseteq D
    BY <1>1, <1>3, OwnFacts
  <2> QED BY <2>1 DEF Deducted
<1>11. ASSUME AllDone PROVE D \subseteq Deducted
  <2> SUFFICES ASSUME NEW k \in D PROVE k \in Deducted
    OBVIOUS
  <2>1. PICK t \in Tid : k \in Region(h, t)
    BY <1>2, Regions
  <2>2. k \in Own(t)
    BY <1>1, <1>3, <2>1, OwnFacts
  <2> QED BY <1>11, <2>2 DEF AllDone, Deducted
<1> HIDE DEF D, P
<1>12. IsFiniteSet(D)
  BY <1>8, <1>9, FS_Subset
<1>13. Cardinality(P) \in Nat /\ Cardinality(D) \in Nat /\ Cardinality(P \cup D) = Cardinality(P) + Cardinality(D)
  BY <1>7, <1>9, <1>12, DisjointUnion
<1>14. n = Cardinality(Found) + Cardinality(D) /\ Cardinality(Found) \in Nat
  BY <1>7, <1>8, <1>9, <1>13
<1> QED BY <1>1, <1>10, <1>11, <1>12, <1>13, <1>14 DEF D

LEMMA SizeAtEnd ==
    ASSUME Inv, Over(7), Ended
    PROVE  size \in Cardinality(Found)..n /\ (AllDone => size = Cardinality(Found))
<1> DEFINE D == {k \in 0..n - 1 : Repeated(buf["hash_items"], k)}
<1>1. BarrierInv /\ DataInv /\ SizeRight
  BY DEF Inv
<1>2. /\ IsFiniteSet(D) /\ Cardinality(D) \in Nat /\ Cardinality(Found) \in Nat
      /\ n = Cardinality(Found) + Cardinality(D)
      /\ Deducted \subseteq D
      /\ AllDone => Deducted = D
  BY <1>1, Duplicates
<1>3. size = n - Cardinality(Deducted) /\ n \in Nat
  BY <1>1 DEF SizeRight, DataInv, InputOK
<1> HIDE DEF D
<1>4. Cardinality(Deducted) \in Nat
  BY <1>1, DeductedIs
<1>5. Cardinality(Deducted) <= Cardinality(D)
  BY <1>2, FS_Subset
<1> QED BY <1>2, <1>3, <1>4, <1>5

LEMMA DestRight ==
    ASSUME Inv, Over(7), 0 \notin Scores
    PROVE  /\ Cardinality(Found) \in 0..n
           /\ {buf["dest"][k] : k \in 0..Cardinality(Found) - 1} = {Best(h) : h \in Found}
           /\ \A k \in Cardinality(Found)..n - 1 : buf["dest"][k].dup
           /\ ByScore(buf["dest"])
<1>1. InputOK /\ buf["dest"] \in [0..n - 1 -> Item]
  BY DEF Inv, DataInv, DataTyped, Buffer
<1>2. Tidy(buf["dest"]) /\ ByScore(buf["dest"])
  BY DEF Inv, DataInv, BuffersRight
<1> QED BY <1>1, <1>2, BestFirst

\* For any number of tasks and items, and any scores, the size ends as the number
\* of distinct hashes, whatever the order in which the tasks take off theirs.
THEOREM SizeSettles == Spec => [](TypeOK /\ (AllDone => size = Cardinality(Found)))
<1>1. Inv => TypeOK /\ (AllDone => size = Cardinality(Found))
  <2> SUFFICES ASSUME Inv PROVE TypeOK /\ (AllDone => size = Cardinality(Found))
    OBVIOUS
  <2>1. AllDone => Over(7) /\ Ended
    BY AllDoneEnded DEF Inv
  <2> QED BY <2>1, TypesRight, SizeAtEnd
<1> QED BY <1>1, MergeInvariant, PTL

\* If no match scores zero, the main thread never sees too small a size, and
\* nothing but duplicates beyond the matches.
THEOREM MergeKeepsInv ==
    ASSUME 0 \notin Scores
    PROVE  Spec => []MergeInv
<1>1. Inv => MergeInv
  <2> SUFFICES ASSUME Inv PROVE MergeInv
    OBVIOUS
  <2>1. LockStep
    BY DEF Inv, BarrierInv
  <2>2. PublishedSize
    <3> SUFFICES ASSUME Published
                 PROVE  /\ size \in Cardinality(Found)..n
                        /\ \A k \in Cardinality(Found)..n - 1 : buf["dest"][k].dup
      BY DEF PublishedSize
    <3>1. Over(7) /\ Ended
      BY PublishedEnded DEF Inv
    <3> QED BY <3>1, SizeAtEnd, DestRight
  <2> QED BY <2>1, <2>2, TypesRight DEF MergeInv
<1> QED BY <1>1, MergeInvariant, PTL

\* And when all tasks are done the list is one item per hash, the best of each,
\* by falling scores.
THEOREM MergeIsRight ==
    ASSUME 0 \notin Scores
    PROVE  Spec => []MergedRight
<1>1. Inv => MergedRight
  <2> SUFFICES ASSUME Inv, AllDone
               PROVE  /\ size = Cardinality(Found)
                      /\ {buf["dest"][k] : k \in 0..size - 1} = {Best(h) : h \in Found}
                      /\ \A k \in 1..size - 1 : buf["dest"][k - 1].score >= buf["dest"][k].score
    BY DEF MergedRight
  <2>1. Over(7) /\ Ended
    BY AllDoneEnded DEF Inv
  <2>2. size = Cardinality(Found)
    BY <2>1, SizeAtEnd
  <2>3. /\ size \in 0..n
        /\ {buf["dest"][k] : k \in 0..size - 1} = {Best(h) : h \in Found}
        /\ ByScore(buf["dest"])
    BY <2>1, <2>2, DestRight
  <2>4. n \in Nat
    BY DEF Inv, DataInv, InputOK
  <2>5. ASSUME NEW k \in 1..size - 1 PROVE buf["dest"][k - 1].score >= buf["dest"][k].score
    <3>1. k - 1 \in 0..n - 1 /\ k \in 0..n - 1 /\ k - 1 < k
      BY <2>3, <2>4
    <3> QED BY <2>3, <3>1 DEF ByScore
  <2> QED BY <2>2, <2>3, <2>5
<1> QED BY <1>1, MergeInvariant, PTL
=============================================================================
