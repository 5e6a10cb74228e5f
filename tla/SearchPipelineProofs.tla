------------------------ MODULE SearchPipelineProofs ------------------------
(***************************************************************************)
(* For any number of searches, shards and merge threads: PipelineInv is an *)
(* inductive invariant of the search pipeline, and the pipeline implements *)
(* SearchContract.                                                         *)
(***************************************************************************)
EXTENDS SearchPipeline, FiniteSetTheorems, TLAPS

\* The tasks of a search are finitely many, so counting them makes sense.
LEMMA UnfinishedFinite ==
    ASSUME TypeOK, NEW e \in Search
    PROVE  /\ IsFiniteSet(Unfinished(e))
           /\ Cardinality(Unfinished(e)) \in Nat
<1>1. Unfinished(e) \in SUBSET Shard
  BY DEF TypeOK, Unfinished
<1>2. IsFiniteSet(Unfinished(e))
  BY <1>1, FS_Subset, PipelineAssumption
<1>3. QED
  BY <1>2, FS_CardinalityType

\* The size of a merge depends on the shards of the search alone.
LEMMA MergeWorkersNat ==
    ASSUME TypeOK, NEW e \in Search
    PROVE  /\ MergeWorkers(e) \in Nat
           /\ shards'[e] = shards[e] => MergeWorkers(e)' = MergeWorkers(e)
<1>1. shards[e] \in SUBSET Shard
  BY DEF TypeOK
<1>2. Cardinality(shards[e]) \in Nat
  BY <1>1, FS_Subset, FS_CardinalityType, PipelineAssumption
<1>3. QED
  BY <1>2, PipelineAssumption DEF MergeWorkers

\* The initial state satisfies the invariant.
LEMMA InitInv == Init => PipelineInv
<1> SUFFICES ASSUME Init PROVE PipelineInv
  OBVIOUS
<1>1. TypeOK
  <2>1. /\ 0 \in 0..MaxEvent /\ "none" \in Owner /\ "none" \in Task /\ 0 \in Nat
    BY PipelineAssumption DEF Owner, Task
  <2>2. QED
    BY <2>1 DEF Init, TypeOK
<1>2. WorkersCount
  <2> SUFFICES ASSUME NEW e \in Search
               PROVE  workers[e] = Cardinality(Unfinished(e))
    BY DEF WorkersCount
  <2>1. Unfinished(e) = {}
    BY DEF Init, Unfinished
  <2>2. QED
    BY <2>1, FS_EmptySet DEF Init
<1>3. TasksAreShards /\ NothingSkippedYet /\ OnlyLateTouches
  BY DEF Init, TasksAreShards, NothingSkippedYet, OnlyLateTouches
<1>6. LateTouchesCounted
  BY DEF Init, LateTouchesCounted
<1>4. FrontGuards /\ CompleteAnswers /\ OneProvider
  BY DEF Init, FrontGuards, Live, CompleteAnswers, OneProvider
<1>5. QED
  BY <1>1, <1>2, <1>3, <1>4, <1>6 DEF PipelineInv

\* Handlers and callbacks that issue no search touch no task, so only the
\* ownership and the ids are at stake.
LEMMA RetireKeeps ==
    ASSUME TypeOK, NEW e \in Search
    PROVE  /\ Retire(owner) \in [Search -> Owner]
           /\ Retire(owner)[e] # "provider"
           /\ Retire(owner)[e] \in {owner[e], "dying"}
           /\ owner[e] # "provider" => Retire(owner)[e] = owner[e]
           /\ owner[e] = "provider" => Retire(owner)[e] = "dying"
  BY DEF TypeOK, Retire, Owner

LEMMA QuietHandlerInv ==
    ASSUME PipelineInv,
           UNCHANGED searchVars,
           owner' \in {owner, Retire(owner)},
           event' \in (event + 1)..MaxEvent,
           front' = event',
           \/ shown' = shown /\ owner' = owner
           \/ shown' \in (event + 1)..event' /\ owner' = Retire(owner)
    PROVE  PipelineInv'
<1> USE DEF PipelineInv, Search
<1>0. /\ event \in Nat /\ event' \in Nat /\ event < event'
      /\ event' \in 0..MaxEvent /\ shown' \in 0..event'
  BY PipelineAssumption DEF TypeOK, FrontGuards
<1>1. owner' \in [Search -> Owner]
  BY DEF TypeOK, Retire, Owner
<1>2. TypeOK'
  <2>1. shown' \in 0..MaxEvent /\ front' \in 0..MaxEvent
    BY <1>0, PipelineAssumption
  <2>2. /\ shards' = shards /\ task' = task /\ found' = found
        /\ workers' = workers /\ mergers' = mergers
        /\ looping' = looping /\ queued' = queued /\ late' = late /\ astray' = astray
    BY DEF searchVars, lateVars
  <2>3. QED
    BY <1>0, <1>1, <2>1, <2>2 DEF TypeOK
<1>3. \A e \in Search : /\ owner'[e] \in {owner[e], "dying"}
                        /\ owner'[e] # owner[e] => owner[e] = "provider"
  BY DEF TypeOK, Retire
<1>4. WorkersCount'
  BY DEF WorkersCount, Unfinished, searchVars, lateVars
<1>5. TasksAreShards'
  BY <1>0, <1>3 DEF TasksAreShards, searchVars, lateVars, TypeOK
<1>6. NothingSkippedYet'
  <2> SUFFICES ASSUME NEW e \in Search, e = event' PROVE shards'[e] = {}
    BY DEF NothingSkippedYet
  <2>1. event < e
    BY <1>0
  <2>2. QED
    BY <2>1 DEF TasksAreShards, searchVars, lateVars
<1>7. FrontGuards'
  <2> SUFFICES ASSUME NEW e \in Search, e \in Live'
               PROVE  e # shown' /\ e < front'
    BY <1>0 DEF FrontGuards, Live
  <2>1. e \in Live
    BY <1>3 DEF Live
  <2>2. ~ (event < e)
    BY <2>1 DEF Live, TasksAreShards
  <2>3. QED
    BY <1>0, <2>1, <2>2 DEF FrontGuards
<1>8. CompleteAnswers'
  BY <1>3 DEF CompleteAnswers, searchVars, lateVars
<1>9. OnlyLateTouches' /\ LateTouchesCounted'
  <2>1. \A e \in Search : MergeWorkers(e)' = MergeWorkers(e)
    BY MergeWorkersNat DEF searchVars
  <2>2. /\ shards' = shards /\ task' = task /\ mergers' = mergers
        /\ looping' = looping /\ queued' = queued /\ late' = late
    BY DEF searchVars, lateVars
  <2>3. \A e \in Search : \/ owner'[e] = owner[e]
                          \/ owner[e] = "provider" /\ owner'[e] = "dying"
    BY <1>3
  <2>4. QED
    BY <2>1, <2>2, <2>3 DEF OnlyLateTouches, LateTouchesCounted
<1>10. OneProvider'
  BY DEF OneProvider, Retire, TypeOK
<1>11. QED
  BY <1>2, <1>4, <1>5, <1>6, <1>7, <1>8, <1>9, <1>10

\* Issuing a search: the new set starts with all its tasks unfinished.
LEMMA StartSearchInv ==
    ASSUME PipelineInv, NEW n \in 1..2, NEW S \in Matching, StartSearch(n, S)
    PROVE  PipelineInv'
<1> USE DEF PipelineInv, Search
<1> DEFINE new == event + n
<1>0. /\ event \in Nat /\ new \in Search /\ event' = new /\ event < new
      /\ shown' = shown /\ front' = shown
  BY PipelineAssumption DEF StartSearch, Raise, TypeOK
<1>1. /\ S \subseteq Shard /\ IsFiniteSet(S) /\ Cardinality(S) \in Nat
  <2>1. S \in SUBSET Shard
    BY PipelineAssumption
  <2>2. QED
    BY <2>1, FS_Subset, FS_CardinalityType, PipelineAssumption
<1>2. /\ owner' = [owner EXCEPT ![new] = "searching"]
      /\ shards' = [shards EXCEPT ![new] = S]
      /\ task' = [task EXCEPT ![new] = [i \in Shard |-> IF i \in S THEN "queued" ELSE "none"]]
      /\ workers' = [workers EXCEPT ![new] = Cardinality(S)]
      /\ found' = found /\ mergers' = mergers
      /\ looping' = looping /\ queued' = queued /\ late' = late /\ astray' = astray
  BY DEF lateVars, StartSearch, ExecuteSearch
<1>3. /\ owner[new] = "none" /\ shards[new] = {} /\ found[new] = {} /\ mergers[new] = 0
  BY <1>0 DEF TasksAreShards, TypeOK
<1>4. TypeOK'
  BY <1>0, <1>1, <1>2 DEF TypeOK, Owner, Task
<1>5. \A e \in Search : e # new => /\ owner'[e] = owner[e] /\ shards'[e] = shards[e]
                                  /\ task'[e] = task[e] /\ workers'[e] = workers[e]
  BY <1>2 DEF TypeOK
<1>6. /\ owner'[new] = "searching" /\ shards'[new] = S /\ workers'[new] = Cardinality(S)
      /\ \A i \in Shard : task'[new][i] = IF i \in S THEN "queued" ELSE "none"
  BY <1>0, <1>2 DEF TypeOK
<1>7. WorkersCount'
  <2> SUFFICES ASSUME NEW e \in Search
               PROVE  workers'[e] = Cardinality(Unfinished(e)')
    BY DEF WorkersCount
  <2>1. CASE e = new
    <3>1. Unfinished(e)' = S
      BY <2>1, <1>6, <1>1 DEF Unfinished
    <3>2. QED
      BY <2>1, <3>1, <1>6
  <2>2. CASE e # new
    <3>1. Unfinished(e)' = Unfinished(e)
      BY <2>2, <1>5 DEF Unfinished
    <3>2. QED
      BY <2>2, <3>1, <1>5 DEF WorkersCount
  <2>3. QED
    BY <2>1, <2>2
<1>8. TasksAreShards'
  <2> SUFFICES ASSUME NEW e \in Search
               PROVE  /\ \A i \in Shard : task'[e][i] # "none" <=> i \in shards'[e]
                      /\ found'[e] \subseteq shards'[e]
                      /\ owner'[e] = "none" => shards'[e] = {}
                      /\ event' < e => owner'[e] = "none"
                      /\ owner'[e] # "merging" => mergers'[e] = 0
    BY DEF TasksAreShards
  <2>1. CASE e = new
    BY <2>1, <1>0, <1>2, <1>3, <1>6
  <2>2. CASE e # new
    BY <2>2, <1>0, <1>2, <1>5 DEF TasksAreShards
  <2>3. QED
    BY <2>1, <2>2
<1>9. NothingSkippedYet'
  BY <1>0, <1>1, <1>6 DEF NothingSkippedYet
<1>10. FrontGuards'
  <2>1. \A e \in Live : ~ (event < e)
    BY DEF Live, TasksAreShards
  <2>2. Live' = Live \cup {new}
    BY <1>0, <1>5, <1>6 DEF Live
  <2>3. new # shown /\ shown <= new
    BY <1>0 DEF FrontGuards, TypeOK
  <2>4. QED
    BY <1>0, <2>2, <2>3 DEF FrontGuards, TypeOK
<1>11. CompleteAnswers' /\ OneProvider'
  BY <1>0, <1>2, <1>5, <1>6 DEF CompleteAnswers, OneProvider
<1>13. OnlyLateTouches' /\ LateTouchesCounted'
  <2>1. \A e \in Search : e # new => MergeWorkers(e)' = MergeWorkers(e)
    BY <1>5, MergeWorkersNat
  <2>2. new \notin looping /\ late[new] = 0 /\ queued[new] = 0
    BY <1>0, <1>3 DEF LateTouchesCounted
  <2>3. OnlyLateTouches'
    <3> SUFFICES ASSUME NEW e \in Search, owner'[e] \notin {"none", "searching"}
                 PROVE  OnlyLateTouches!(e)'
      BY DEF OnlyLateTouches
    <3>1. e # new
      BY <1>6
    <3>2. QED
      BY <3>1, <2>1, <1>2, <1>5 DEF OnlyLateTouches
  <2>4. LateTouchesCounted'
    <3> SUFFICES ASSUME NEW e \in Search
                 PROVE  LateTouchesCounted!(e)'
      BY DEF LateTouchesCounted
    <3>1. CASE e = new
      BY <3>1, <2>2, <1>2, <1>6
    <3>2. CASE e # new
      BY <3>2, <2>1, <1>2, <1>5 DEF LateTouchesCounted
    <3>3. QED
      BY <3>1, <3>2
  <2>5. QED
    BY <2>3, <2>4
<1>12. QED
  BY <1>4, <1>7, <1>8, <1>9, <1>10, <1>11, <1>13

\* The callback on the main thread.
LEMMA UpdateUiInv ==
    ASSUME PipelineInv, NEW e \in Search, UpdateUi(e)
    PROVE  PipelineInv'
<1> USE DEF PipelineInv, Search
<1>0. /\ owner[e] = "posted" /\ event' = event /\ UNCHANGED searchVars
      /\ event \in Nat /\ front \in Nat /\ shown \in Nat /\ e <= event
  BY PipelineAssumption DEF UpdateUi, TypeOK, TasksAreShards
<1>1. \/ /\ e < front /\ owner' = [owner EXCEPT ![e] = "dying"]
         /\ shown' = shown /\ front' = front
      \/ /\ ~ (e < front) /\ owner' = [Retire(owner) EXCEPT ![e] = "provider"]
         /\ shown' = e /\ front' = e
  BY DEF UpdateUi
<1>2. /\ owner' \in [Search -> Owner]
      /\ owner'[e] \in {"dying", "provider"}
      /\ \A d \in Search \ {e} : /\ owner'[d] \in {owner[d], "dying"}
                                 /\ owner'[d] # owner[d] => owner[d] = "provider"
  BY <1>1 DEF TypeOK, Retire, Owner
<1>3. TypeOK'
  BY <1>0, <1>1, <1>2 DEF TypeOK, searchVars, lateVars
<1>4. WorkersCount'
  BY <1>0 DEF WorkersCount, Unfinished, searchVars, lateVars
<1>5. TasksAreShards'
  BY <1>0, <1>2 DEF TasksAreShards, searchVars, lateVars, TypeOK
<1>6. NothingSkippedYet'
  BY <1>0 DEF NothingSkippedYet, searchVars, lateVars
<1>7. FrontGuards'
  <2>1. Live' = Live \ {e}
    BY <1>0, <1>2 DEF Live
  <2>2. CASE e < front /\ shown' = shown /\ front' = front
    BY <1>0, <2>1, <2>2 DEF FrontGuards
  <2>3. CASE ~ (e < front) /\ shown' = e /\ front' = e
    BY <1>0, <2>1, <2>3 DEF FrontGuards, Live
  <2>4. QED
    BY <1>1, <2>2, <2>3
<1>8. CompleteAnswers'
  BY <1>0, <1>2 DEF CompleteAnswers, searchVars
<1>11. OnlyLateTouches' /\ LateTouchesCounted'
  <2>1. \A d \in Search : MergeWorkers(d)' = MergeWorkers(d)
    BY <1>0, MergeWorkersNat DEF searchVars
  <2>2. /\ shards' = shards /\ task' = task /\ mergers' = mergers
        /\ looping' = looping /\ queued' = queued /\ late' = late
    BY <1>0 DEF searchVars, lateVars
  <2>3. \A d \in Search :
            \/ owner'[d] = owner[d]
            \/ owner[d] \in {"posted", "provider"} /\ owner'[d] \in {"dying", "provider"}
    BY <1>0, <1>2
  <2>4. QED
    BY <2>1, <2>2, <2>3 DEF OnlyLateTouches, LateTouchesCounted
<1>9. OneProvider'
  BY <1>0, <1>1 DEF OneProvider, Retire, TypeOK
<1>10. QED
  BY <1>3, <1>4, <1>5, <1>6, <1>7, <1>8, <1>9, <1>11

\* The shard tasks up to their destroy function leave the counter of the
\* search alone.
LEMMA SearchBeginInv ==
    ASSUME PipelineInv, NEW e \in Search, NEW i \in Shard, SearchBegin(e, i)
    PROVE  PipelineInv'
<1> USE DEF PipelineInv, Search
<1>0. /\ UNCHANGED <<event, shown, front, owner, shards, found, workers, mergers,
                    looping, queued, late, astray>>
      /\ task[e][i] = "queued"
      /\ task' = [task EXCEPT ![e][i] = IF e = event THEN "running" ELSE "ended"]
  BY DEF SearchBegin, EventsOk, lateVars
<1>1. \A d \in Search : \A j \in Shard :
          task'[d][j] = IF d = e /\ j = i
                        THEN IF e = event THEN "running" ELSE "ended"
                        ELSE task[d][j]
  BY <1>0 DEF TypeOK
<1>2. TypeOK'
  BY <1>0 DEF TypeOK, Task
<1>3. WorkersCount'
  <2>1. \A d \in Search : Unfinished(d)' = Unfinished(d)
    BY <1>0, <1>1 DEF Unfinished, TypeOK
  <2>2. QED
    BY <1>0, <2>1 DEF WorkersCount
<1>4. TasksAreShards' /\ NothingSkippedYet'
  BY <1>0, <1>1 DEF TasksAreShards, NothingSkippedYet, TypeOK
<1>5. FrontGuards' /\ CompleteAnswers' /\ OneProvider'
  BY <1>0 DEF FrontGuards, Live, CompleteAnswers, OneProvider
<1>6. OnlyLateTouches' /\ LateTouchesCounted'
  <2>1. \A d \in Search : MergeWorkers(d)' = MergeWorkers(d)
    BY <1>0, MergeWorkersNat
  <2>2. \A d \in Search : shards[d] \subseteq Shard
    BY DEF TypeOK
  <2>3. \A d \in Search : \A j \in Shard : task[d][j] = "done" => task'[d][j] = "done"
    BY <1>0, <1>1
  <2>4. QED
    BY <1>0, <2>1, <2>2, <2>3 DEF OnlyLateTouches, LateTouchesCounted
<1>7. QED
  BY <1>2, <1>3, <1>4, <1>5, <1>6

LEMMA SearchEndInv ==
    ASSUME PipelineInv, NEW e \in Search, NEW i \in Shard, SearchEnd(e, i)
    PROVE  PipelineInv'
<1> USE DEF PipelineInv, Search
<1>0. /\ UNCHANGED <<event, shown, front, owner, shards, workers, mergers,
                    looping, queued, late, astray>>
      /\ task[e][i] = "running"
      /\ task' = [task EXCEPT ![e][i] = "ended"]
      /\ \/ found' = [found EXCEPT ![e] = @ \cup {i}]
         \/ e # event /\ found' = found
  BY DEF SearchEnd, EventsOk, lateVars
<1>1. \A d \in Search : \A j \in Shard :
          task'[d][j] = IF d = e /\ j = i THEN "ended" ELSE task[d][j]
  BY <1>0 DEF TypeOK
<1>2. i \in shards[e] /\ owner[e] \in {"none", "searching"}
  BY <1>0 DEF TasksAreShards, OnlyLateTouches
<1>3. TypeOK'
  <2>1. task' \in [Search -> [Shard -> Task]]
    BY <1>0 DEF TypeOK, Task
  <2>2. found' \in [Search -> SUBSET Shard]
    BY <1>0 DEF TypeOK
  <2>3. QED
    BY <1>0, <2>1, <2>2 DEF TypeOK
<1>4. \A d \in Search : /\ found[d] \subseteq found'[d]
                        /\ found'[d] \subseteq shards[d]
                        /\ d # e => found'[d] = found[d]
                        /\ e = event => i \in found'[e]
  <2>1. \A d \in Search : found[d] \subseteq shards[d]
    BY DEF TasksAreShards
  <2>2. CASE found' = [found EXCEPT ![e] = @ \cup {i}]
    <3>1. /\ found'[e] = found[e] \cup {i}
          /\ \A d \in Search : d # e => found'[d] = found[d]
      BY <2>2 DEF TypeOK
    <3>2. QED
      BY <1>2, <2>1, <3>1
  <2>3. CASE e # event /\ found' = found
    BY <2>1, <2>3
  <2>4. QED
    BY <1>0, <2>2, <2>3
<1>5. WorkersCount'
  <2>1. \A d \in Search : Unfinished(d)' = Unfinished(d)
    BY <1>0, <1>1 DEF Unfinished, TypeOK
  <2>2. QED
    BY <1>0, <2>1 DEF WorkersCount
<1>6. TasksAreShards'
  BY <1>0, <1>1, <1>4 DEF TasksAreShards, TypeOK
<1>7. NothingSkippedYet'
  BY <1>0, <1>1, <1>4 DEF NothingSkippedYet, TypeOK
<1>8. FrontGuards' /\ OneProvider'
  BY <1>0 DEF FrontGuards, Live, OneProvider
<1>9. CompleteAnswers'
  BY <1>0, <1>2, <1>4 DEF CompleteAnswers
<1>10. OnlyLateTouches' /\ LateTouchesCounted'
  <2>1. \A d \in Search : MergeWorkers(d)' = MergeWorkers(d)
    BY <1>0, MergeWorkersNat
  <2>2. \A d \in Search : shards[d] \subseteq Shard
    BY DEF TypeOK
  <2>3. \A d \in Search : \A j \in Shard : task[d][j] = "done" => task'[d][j] = "done"
    BY <1>0, <1>1
  <2>4. QED
    BY <1>0, <2>1, <2>2, <2>3 DEF OnlyLateTouches, LateTouchesCounted
<1>11. QED
  BY <1>3, <1>5, <1>6, <1>7, <1>8, <1>9, <1>10

\* The last task to leave the search decides: the workers counter is one, so
\* no other task is unfinished.
LEMMA SearchDoneInv ==
    ASSUME PipelineInv, NEW e \in Search, NEW i \in Shard, SearchDone(e, i)
    PROVE  PipelineInv'
<1> USE DEF PipelineInv, Search
<1>0. /\ UNCHANGED <<event, shown, front, shards, found, queued, late, astray>>
      /\ task[e][i] = "ended"
      /\ task' = [task EXCEPT ![e][i] = "done"]
      /\ workers' = [workers EXCEPT ![e] = @ - 1]
  BY DEF SearchDone
<1>1. \/ /\ workers[e] # 1 /\ owner' = owner /\ mergers' = mergers
         /\ looping' = looping
      \/ /\ workers[e] = 1 /\ e = event
         /\ owner' = [owner EXCEPT ![e] = "merging"]
         /\ mergers' = [mergers EXCEPT ![e] = MergeWorkers(e)]
         /\ looping' = looping \cup {e}
      \/ /\ workers[e] = 1 /\ e # event
         /\ owner' = [owner EXCEPT ![e] = "destroyed"]
         /\ mergers' = mergers /\ looping' = looping
  BY DEF SearchDone, EventsOk
<1>2. \A d \in Search : \A j \in Shard :
          task'[d][j] = IF d = e /\ j = i THEN "done" ELSE task[d][j]
  BY <1>0 DEF TypeOK
<1>3. i \in shards[e] /\ owner[e] = "searching" /\ i \in Unfinished(e)
  BY <1>0 DEF TasksAreShards, OnlyLateTouches, Unfinished, TypeOK
<1>4. /\ Unfinished(e)' = Unfinished(e) \ {i}
      /\ \A d \in Search : d # e => Unfinished(d)' = Unfinished(d)
  <2>1. Unfinished(e)' = Unfinished(e) \ {i}
    BY <1>0, <1>2 DEF Unfinished, TypeOK
  <2>2. \A d \in Search : d # e => Unfinished(d)' = Unfinished(d)
    BY <1>0, <1>2 DEF Unfinished, TypeOK
  <2>3. QED
    BY <2>1, <2>2
<1>5. /\ IsFiniteSet(Unfinished(e)) /\ workers[e] = Cardinality(Unfinished(e))
      /\ workers[e] \in Nat
      /\ Cardinality(Unfinished(e) \ {i}) = workers[e] - 1
      /\ workers[e] - 1 \in Nat
  <2>1. IsFiniteSet(Unfinished(e)) /\ workers[e] = Cardinality(Unfinished(e))
    BY UnfinishedFinite DEF WorkersCount
  <2>2. IsFiniteSet(Unfinished(e) \ {i})
        /\ Cardinality(Unfinished(e) \ {i}) = workers[e] - 1
    BY <1>3, <2>1, FS_RemoveElement
  <2>3. QED
    BY <2>1, <2>2, FS_CardinalityType DEF TypeOK
<1>6. workers[e] = 1 => \A j \in shards[e] : task'[e][j] = "done"
  <2> SUFFICES ASSUME workers[e] = 1 PROVE Unfinished(e) \ {i} = {}
    BY <1>0, <1>2, <1>4 DEF Unfinished, TypeOK
  <2>1. IsFiniteSet(Unfinished(e) \ {i}) /\ Cardinality(Unfinished(e) \ {i}) = 0
    BY <1>5, FS_RemoveElement, <1>3
  <2>2. QED
    BY <2>1, FS_EmptySet
<1>7. \A d \in Search : d # e => /\ owner'[d] = owner[d] /\ mergers'[d] = mergers[d]
                                /\ workers'[d] = workers[d]
  BY <1>0, <1>1 DEF TypeOK
<1>21. \A d \in Search : d # e /\ d \in looping' => d \in looping
  BY <1>1
<1>8. /\ owner'[e] \in {"searching", "merging", "destroyed"}
      /\ owner'[e] = "merging" => e = event
      /\ owner'[e] # "searching" => workers[e] = 1
      /\ owner'[e] # "merging" => mergers'[e] = 0
  BY <1>1, <1>3 DEF TypeOK, TasksAreShards
<1>9. TypeOK'
  <2>1. /\ owner' \in [Search -> Owner] /\ mergers' \in [Search -> Nat]
        /\ looping' \subseteq Search
    <3>1. /\ owner \in [Search -> Owner] /\ mergers \in [Search -> Nat]
          /\ looping \subseteq Search /\ MergeWorkers(e) \in Nat
          /\ "merging" \in Owner /\ "destroyed" \in Owner
      BY MergeWorkersNat DEF TypeOK, Owner
    <3>2. QED
      BY <1>1, <3>1
  <2>2. task' \in [Search -> [Shard -> Task]]
    BY <1>0 DEF TypeOK, Task
  <2>3. workers' \in [Search -> Nat]
    BY <1>0, <1>5 DEF TypeOK
  <2>4. QED
    BY <1>0, <2>1, <2>2, <2>3 DEF TypeOK
<1>10. WorkersCount'
  <2> SUFFICES ASSUME NEW d \in Search
               PROVE  workers'[d] = Cardinality(Unfinished(d)')
    BY DEF WorkersCount
  <2>1. CASE d = e
    <3>1. workers'[e] = workers[e] - 1
      BY <1>0 DEF TypeOK
    <3>2. QED
      BY <2>1, <3>1, <1>4, <1>5
  <2>2. CASE d # e
    BY <2>2, <1>4, <1>7 DEF WorkersCount
  <2>3. QED
    BY <2>1, <2>2
<1>11. TasksAreShards'
  <2> SUFFICES ASSUME NEW d \in Search
               PROVE  /\ \A j \in Shard : task'[d][j] # "none" <=> j \in shards'[d]
                      /\ found'[d] \subseteq shards'[d]
                      /\ owner'[d] = "none" => shards'[d] = {}
                      /\ event' < d => owner'[d] = "none"
                      /\ owner'[d] # "merging" => mergers'[d] = 0
    BY DEF TasksAreShards
  <2>1. CASE d = e
    BY <2>1, <1>0, <1>2, <1>3, <1>8 DEF TasksAreShards
  <2>2. CASE d # e
    BY <2>2, <1>0, <1>2, <1>7 DEF TasksAreShards
  <2>3. QED
    BY <2>1, <2>2
<1>12. NothingSkippedYet'
  BY <1>0, <1>2, <1>3 DEF NothingSkippedYet, TypeOK
<1>13. FrontGuards'
  <2>1. Live' \subseteq Live
    BY <1>3, <1>7 DEF Live
  <2>2. QED
    BY <1>0, <2>1 DEF FrontGuards
<1>14. CompleteAnswers'
  <2>1. owner'[e] = "merging" => found[e] = shards[e]
    <3> SUFFICES ASSUME owner'[e] = "merging" PROVE shards[e] \subseteq found[e]
      BY DEF TasksAreShards
    <3>1. \A j \in shards[e] : task'[e][j] = "done" /\ e = event'
      BY <1>0, <1>6, <1>8
    <3>2. QED
      BY <1>0, <1>12, <3>1 DEF NothingSkippedYet
  <2>2. QED
    BY <1>0, <1>7, <1>8, <2>1 DEF CompleteAnswers
<1>18. /\ \A d \in Search : MergeWorkers(d)' = MergeWorkers(d)
       /\ MergeWorkers(e) \in Nat
       /\ \A d \in Search : shards[d] \subseteq Shard
  BY <1>0, MergeWorkersNat DEF TypeOK
<1>19. /\ e \notin looping /\ late[e] = 0 /\ queued[e] = 0
       /\ owner'[e] = "merging" => mergers'[e] = MergeWorkers(e)
       /\ owner'[e] # "merging" => e \notin looping'
  BY <1>1, <1>3 DEF LateTouchesCounted, TypeOK
<1>15. OnlyLateTouches'
  <2> SUFFICES ASSUME NEW d \in Search, owner'[d] \notin {"none", "searching"}
               PROVE  OnlyLateTouches!(d)'
    BY DEF OnlyLateTouches
  <2>1. CASE d = e
    <3>1. late'[e] = 0
      BY <1>0, <1>19
    <3>2. \A j \in shards'[e] : task'[e][j] = "done"
      BY <2>1, <1>0, <1>6, <1>8
    <3>3. QED
      BY <2>1, <3>1, <3>2, <1>8, <1>19
  <2>2. CASE d # e
    <3>1. \A j \in Shard : task'[d][j] = task[d][j]
      BY <2>2, <1>2
    <3>2. QED
      BY <2>2, <3>1, <1>0, <1>7, <1>18, <1>21 DEF OnlyLateTouches
  <2>3. QED
    BY <2>1, <2>2
<1>20. LateTouchesCounted'
  <2> SUFFICES ASSUME NEW d \in Search
               PROVE  LateTouchesCounted!(d)'
    BY DEF LateTouchesCounted
  <2>1. CASE d = e
    <3>1. late'[e] = 0 /\ queued'[e] = 0
      BY <1>0, <1>19
    <3>2. QED
      BY <2>1, <3>1, <1>18, <1>19
  <2>2. CASE d # e
    BY <2>2, <1>0, <1>7, <1>18, <1>21 DEF LateTouchesCounted
  <2>3. QED
    BY <2>1, <2>2
<1>16. OneProvider'
  BY <1>0, <1>7, <1>8 DEF OneProvider
<1>17. QED
  BY <1>9, <1>10, <1>11, <1>12, <1>13, <1>14, <1>15, <1>16, <1>20

\* The merge tasks and the queued destruction only move the ownership on.
LEMMA MergeArriveInv ==
    ASSUME PipelineInv, NEW e \in Search, MergeArrive(e)
    PROVE  PipelineInv'
<1> USE DEF PipelineInv, Search
<1>0. /\ UNCHANGED <<event, shown, front, shards, task, found, workers,
                    looping, queued, astray>>
      /\ owner[e] = "merging" /\ mergers[e] > 0 /\ queued[e] = MergeWorkers(e)
      /\ mergers' = [mergers EXCEPT ![e] = @ - 1]
      /\ \/ /\ mergers[e] = 1
            /\ owner' = [owner EXCEPT ![e] = "posted"] /\ late' = late
         \/ /\ mergers[e] > 1
            /\ owner' = owner /\ late' = [late EXCEPT ![e] = @ + 1]
  BY DEF MergeArrive
<1>1. /\ owner' \in [Search -> Owner] /\ mergers' \in [Search -> Nat]
      /\ late' \in [Search -> Nat]
      /\ mergers[e] \in Nat /\ late[e] \in Nat /\ MergeWorkers(e) \in Nat
      /\ \/ /\ owner'[e] = "posted" /\ mergers'[e] = 0 /\ late'[e] = late[e]
            /\ mergers[e] = 1
         \/ /\ owner'[e] = "merging" /\ mergers'[e] = mergers[e] - 1
            /\ late'[e] = late[e] + 1
      /\ \A d \in Search : d # e => /\ owner'[d] = owner[d] /\ mergers'[d] = mergers[d]
                                    /\ late'[d] = late[d]
  <2>1. /\ mergers[e] \in Nat /\ late[e] \in Nat /\ MergeWorkers(e) \in Nat
        /\ owner \in [Search -> Owner] /\ mergers \in [Search -> Nat]
        /\ late \in [Search -> Nat] /\ "posted" \in Owner
    BY MergeWorkersNat DEF TypeOK, Owner
  <2>2. CASE mergers[e] = 1 /\ owner' = [owner EXCEPT ![e] = "posted"] /\ late' = late
    BY <1>0, <2>1, <2>2
  <2>3. CASE mergers[e] > 1 /\ owner' = owner /\ late' = [late EXCEPT ![e] = @ + 1]
    BY <1>0, <2>1, <2>3
  <2>4. QED
    BY <1>0, <2>2, <2>3
<1>2. TypeOK' /\ WorkersCount'
  BY <1>0, <1>1 DEF TypeOK, WorkersCount, Unfinished
<1>3. TasksAreShards'
  BY <1>0, <1>1 DEF TasksAreShards
<1>4. NothingSkippedYet'
  BY <1>0 DEF NothingSkippedYet
<1>5. FrontGuards'
  <2>1. Live' = Live
    BY <1>0, <1>1 DEF Live
  <2>2. QED
    BY <1>0, <2>1 DEF FrontGuards
<1>6. CompleteAnswers' /\ OneProvider'
  BY <1>0, <1>1 DEF CompleteAnswers, OneProvider
<1>7. \A d \in Search : MergeWorkers(d)' = MergeWorkers(d)
  BY <1>0, MergeWorkersNat
<1>8. late[e] + mergers[e] <= MergeWorkers(e)
  BY <1>0 DEF LateTouchesCounted
<1>9. OnlyLateTouches'
  <2> SUFFICES ASSUME NEW d \in Search, owner'[d] \notin {"none", "searching"}
               PROVE  OnlyLateTouches!(d)'
    BY DEF OnlyLateTouches
  <2>1. CASE d = e
    BY <2>1, <1>0, <1>1, <1>7, <1>8 DEF OnlyLateTouches
  <2>2. CASE d # e
    BY <2>2, <1>0, <1>1, <1>7 DEF OnlyLateTouches
  <2>3. QED
    BY <2>1, <2>2
<1>10. LateTouchesCounted'
  <2> SUFFICES ASSUME NEW d \in Search
               PROVE  LateTouchesCounted!(d)'
    BY DEF LateTouchesCounted
  <2>1. CASE d = e
    BY <2>1, <1>0, <1>1, <1>7, <1>8
  <2>2. CASE d # e
    BY <2>2, <1>0, <1>1, <1>7 DEF LateTouchesCounted
  <2>3. QED
    BY <2>1, <2>2
<1>11. QED
  BY <1>2, <1>3, <1>4, <1>5, <1>6, <1>9, <1>10

\* The finaliser's loop and what merge tasks do behind the last barrier leave
\* the ownership alone: only their own counts are at stake.
LEMMA LateStepInv ==
    ASSUME PipelineInv, NEW e \in Search,
           QueueMerge(e) \/ LastLook(e) \/ LateTouch(e)
    PROVE  PipelineInv'
<1> USE DEF PipelineInv, Search
<1>0. /\ UNCHANGED <<event, shown, front, owner, shards, task, found, workers, mergers>>
      /\ astray' \in BOOLEAN
  BY DEF QueueMerge, LastLook, LateTouch, TypeOK
<1>1. /\ queued[e] \in Nat /\ late[e] \in Nat /\ MergeWorkers(e) \in Nat
      /\ \A d \in Search : MergeWorkers(d)' = MergeWorkers(d)
  BY <1>0, MergeWorkersNat DEF TypeOK
<1>2. /\ looping' \subseteq looping
      /\ queued' \in [Search -> Nat] /\ late' \in [Search -> Nat]
      /\ \A d \in Search : d # e => queued'[d] = queued[d] /\ late'[d] = late[d]
  <2>1. CASE QueueMerge(e)
    BY <1>1, <2>1 DEF QueueMerge, TypeOK
  <2>2. CASE LastLook(e)
    BY <1>1, <2>2 DEF LastLook, TypeOK
  <2>3. CASE LateTouch(e)
    BY <1>1, <2>3 DEF LateTouch, TypeOK
  <2>4. QED
    BY <2>1, <2>2, <2>3
<1>3. \/ e \in looping /\ queued[e] < MergeWorkers(e) /\ late'[e] = late[e]
      \/ queued'[e] = queued[e] /\ late'[e] = late[e]
      \/ queued'[e] = queued[e] /\ late[e] > 0 /\ late'[e] = late[e] - 1
  BY <1>1 DEF QueueMerge, LastLook, LateTouch, TypeOK
<1>4. TypeOK'
  BY <1>0, <1>2 DEF TypeOK
<1>5. WorkersCount' /\ TasksAreShards' /\ NothingSkippedYet'
  BY <1>0 DEF WorkersCount, Unfinished, TasksAreShards, NothingSkippedYet
<1>6. FrontGuards' /\ CompleteAnswers' /\ OneProvider'
  BY <1>0 DEF FrontGuards, Live, CompleteAnswers, OneProvider
<1>7. OnlyLateTouches' /\ LateTouchesCounted'
  <2> SUFFICES ASSUME NEW d \in Search
               PROVE  OnlyLateTouches!(d)' /\ LateTouchesCounted!(d)'
    BY DEF OnlyLateTouches, LateTouchesCounted
  <2>1. OnlyLateTouches!(d) /\ LateTouchesCounted!(d)
    BY DEF OnlyLateTouches, LateTouchesCounted
  <2>2. CASE d # e
    BY <2>1, <2>2, <1>0, <1>1, <1>2
  <2>3. CASE d = e
    <3>1. mergers[e] \in Nat
      BY DEF TypeOK
    <3>2. QED
      BY <2>1, <2>3, <3>1, <1>0, <1>1, <1>2, <1>3
  <2>4. QED
    BY <2>2, <2>3
<1>8. QED
  BY <1>4, <1>5, <1>6, <1>7

LEMMA DestroyInv ==
    ASSUME PipelineInv, NEW e \in Search, Destroy(e)
    PROVE  PipelineInv'
<1> USE DEF PipelineInv, Search
<1>0. /\ UNCHANGED <<event, shown, front, shards, task, found, workers, mergers,
                    looping, queued, late, astray>>
      /\ owner[e] = "dying"
      /\ owner' = [owner EXCEPT ![e] = "destroyed"]
  BY DEF Destroy, searchVars, lateVars
<1>1. /\ owner' \in [Search -> Owner] /\ owner'[e] = "destroyed"
      /\ \A d \in Search : d # e => owner'[d] = owner[d]
  BY <1>0 DEF TypeOK, Owner
<1>2. TypeOK' /\ WorkersCount'
  BY <1>0, <1>1 DEF TypeOK, WorkersCount, Unfinished
<1>3. TasksAreShards' /\ NothingSkippedYet'
  BY <1>0, <1>1 DEF TasksAreShards, NothingSkippedYet
<1>4. FrontGuards'
  <2>1. Live' = Live
    BY <1>0, <1>1 DEF Live
  <2>2. QED
    BY <1>0, <2>1 DEF FrontGuards
<1>5. CompleteAnswers' /\ OneProvider'
  BY <1>0, <1>1 DEF CompleteAnswers, OneProvider
<1>6. OnlyLateTouches' /\ LateTouchesCounted'
  <2>1. \A d \in Search : MergeWorkers(d)' = MergeWorkers(d)
    BY <1>0, MergeWorkersNat
  <2>2. QED
    BY <1>0, <1>1, <2>1 DEF OnlyLateTouches, LateTouchesCounted
<1>7. QED
  BY <1>2, <1>3, <1>4, <1>5, <1>6

\* What the main-thread handlers that issue no search have in common.
LEMMA QuietHandler ==
    ASSUME TypeOK, shown <= front, front <= event,
           NEW n \in 1..2, ClearSources(n) \/ LeaveSources(n) \/ GotoPlugins
    PROVE  /\ UNCHANGED searchVars
           /\ owner' \in {owner, Retire(owner)}
           /\ event' \in (event + 1)..MaxEvent
           /\ front' = event'
           /\ \/ shown' = shown /\ owner' = owner
              \/ shown' \in (event + 1)..event' /\ owner' = Retire(owner)
<1> USE PipelineAssumption DEF TypeOK, Raise, searchVars, lateVars
<1>1. CASE ClearSources(n)
  BY <1>1 DEF ClearSources
<1>2. CASE LeaveSources(n)
  BY <1>2 DEF LeaveSources
<1>3. CASE GotoPlugins
  BY <1>3 DEF GotoPlugins
<1>4. QED
  BY <1>1, <1>2, <1>3

\* Every step of the pipeline keeps the invariant.
LEMMA NextInv == PipelineInv /\ [Next]_vars => PipelineInv'
<1> SUFFICES ASSUME PipelineInv, [Next]_vars PROVE PipelineInv'
  OBVIOUS
<1>1. CASE Handler
  <2>1. ASSUME NEW n \in 1..2, NEW S \in Matching, StartSearch(n, S)
        PROVE  PipelineInv'
    BY <2>1, StartSearchInv
  <2>2. ASSUME NEW n \in 1..2, ClearSources(n) \/ LeaveSources(n) \/ GotoPlugins
        PROVE  PipelineInv'
    <3>1. TypeOK /\ shown <= front /\ front <= event
      BY DEF PipelineInv, FrontGuards
    <3>2. QED
      BY <2>2, <3>1, QuietHandler, QuietHandlerInv
  <2>3. QED
    BY <1>1, <2>1, <2>2 DEF Handler
<1>2. CASE \E e \in Search :
             \/ UpdateUi(e)
             \/ \E i \in Shard : SearchBegin(e, i) \/ SearchEnd(e, i) \/ SearchDone(e, i)
             \/ QueueMerge(e)
             \/ LastLook(e)
             \/ MergeArrive(e)
             \/ LateTouch(e)
             \/ Destroy(e)
  BY <1>2, UpdateUiInv, SearchBeginInv, SearchEndInv, SearchDoneInv,
     MergeArriveInv, LateStepInv, DestroyInv
<1>3. CASE UNCHANGED vars
  <2>1. Live' = Live /\ \A e \in Search : Unfinished(e)' = Unfinished(e)
    BY <1>3 DEF vars, Live, Unfinished
  <2>2. \A e \in Search : MergeWorkers(e)' = MergeWorkers(e)
    BY <1>3, MergeWorkersNat DEF vars, PipelineInv
  <2>3. TypeOK' /\ WorkersCount' /\ TasksAreShards' /\ NothingSkippedYet'
    BY <1>3, <2>1 DEF vars, lateVars, PipelineInv, TypeOK, WorkersCount, TasksAreShards,
       NothingSkippedYet
  <2>4. FrontGuards' /\ CompleteAnswers' /\ OneProvider'
    BY <1>3, <2>1 DEF vars, PipelineInv, FrontGuards, CompleteAnswers, OneProvider
  <2>5. LateTouchesCounted' /\ OnlyLateTouches'
    BY <1>3, <2>2 DEF vars, lateVars, PipelineInv, LateTouchesCounted, OnlyLateTouches
  <2>6. QED
    BY <2>3, <2>4, <2>5 DEF PipelineInv
<1>4. QED
  BY <1>1, <1>2, <1>3 DEF Next

\* The search pipeline keeps its counters, flags and ids consistent for every
\* number of searches, shards and merge threads.
THEOREM PipelineCorrect == Spec => []PipelineInv
<1>1. QED
  BY InitInv, NextInv, PTL DEF Spec

\* The variables of the search pipeline keep their types; in particular
\* ctx->workers and the barrier counts never go below zero.
THEOREM PipelineTyped == Spec => []TypeOK
<1>1. PipelineInv => TypeOK
  BY DEF PipelineInv
<1>2. QED
  BY <1>1, PipelineCorrect, PTL

\* finalize_search merges a set only if no shard of the search was skipped,
\* although it looks at the counter alone and not at the shards.
THEOREM AnswersAreComplete == Spec => []CompleteAnswers
<1>1. PipelineInv => CompleteAnswers
  BY DEF PipelineInv
<1>2. QED
  BY <1>1, PipelineCorrect, PTL

\* Of a hash set that was merged and posted, shown or freed, the tasks touch
\* only the size and merge_workers, and only as often as counted; of one that
\* was freed unmerged they touch nothing.
THEOREM HandoverLeavesLateTouches == Spec => []OnlyLateTouches
<1>1. PipelineInv => OnlyLateTouches
  BY DEF PipelineInv
<1>2. QED
  BY <1>1, PipelineCorrect, PTL

\* The main thread holds at most one merged set as the provider of the pane.
THEOREM ProviderIsUnique == Spec => []OneProvider
<1>1. PipelineInv => OneProvider
  BY DEF PipelineInv
<1>2. QED
  BY <1>1, PipelineCorrect, PTL

-----------------------------------------------------------------------------
(* The refinement of SearchContract.                                       *)

\* The initial states of the pipeline are initial states of the contract.
LEMMA RefinesInit == Init => Contract!Init
  BY DEF Init, Contract!Init, Live

\* Issuing a search is a handler's step of the contract.
LEMMA StartSearchRefines ==
    ASSUME PipelineInv, NEW n \in 1..2, NEW S \in Matching, StartSearch(n, S)
    PROVE  Contract!Handle
<1> DEFINE new == event + n
<1>1. /\ event \in Nat /\ MaxEvent \in Nat /\ shown <= event /\ shown \in Nat
      /\ event' = new /\ new \in Search /\ event < new
      /\ front' = shown /\ shown' = shown
      /\ owner' = [owner EXCEPT ![new] = "searching"]
      /\ owner \in [Search -> Owner]
  BY PipelineAssumption DEF StartSearch, Raise, ExecuteSearch, PipelineInv,
     TypeOK, FrontGuards, Search
<1>2. Live' = Live \cup {new}
  BY <1>1 DEF Live
<1>3. shown' # event' /\ front' = shown' /\ event' \in event..MaxEvent
  BY <1>1 DEF Search
<1>4. QED
  BY <1>1, <1>2, <1>3 DEF Contract!Handle

\* So are the handlers that clear the list or go to another pane: the searches
\* in flight stay, and the counter has moved past all of them.
LEMMA QuietHandlerRefines ==
    ASSUME PipelineInv, NEW n \in 1..2,
           ClearSources(n) \/ LeaveSources(n) \/ GotoPlugins
    PROVE  Contract!Handle
<1>1. TypeOK /\ shown <= front /\ front <= event /\ event \in Nat /\ MaxEvent \in Nat
  BY PipelineAssumption DEF PipelineInv, FrontGuards, TypeOK
<1>2. /\ owner' \in {owner, Retire(owner)}
      /\ event' \in (event + 1)..MaxEvent
      /\ \/ shown' = shown
         \/ shown' \in (event + 1)..event'
  BY <1>1, QuietHandler
<1>3. Live' = Live
  BY <1>1, <1>2 DEF Live, Retire, TypeOK
<1>4. QED
  BY <1>1, <1>2, <1>3 DEF Contract!Handle

\* The callback either shows a search that nothing has outrun, or drops one
\* that the counter has left behind.
LEMMA UpdateUiRefines ==
    ASSUME PipelineInv, NEW e \in Search, UpdateUi(e)
    PROVE  Contract!Next
<1> USE DEF PipelineInv, Search
<1>1. /\ e \in Live /\ owner[e] = "posted" /\ event' = event
      /\ event \in Nat /\ front \in Nat /\ shown \in Nat
      /\ shown <= front /\ front <= event
      /\ e # shown /\ (front # shown => e < front)
  BY PipelineAssumption DEF UpdateUi, TypeOK, FrontGuards, Live
<1>2. CASE e < front /\ owner' = [owner EXCEPT ![e] = "dying"] /\ UNCHANGED <<shown, front>>
  <2>1. Live' = Live \ {e}
    BY <1>1, <1>2 DEF Live, TypeOK
  <2>2. Contract!Discard(e)
    BY <1>1, <1>2, <2>1 DEF Contract!Discard
  <2>3. QED
    BY <2>2 DEF Contract!Next
<1>3. CASE /\ ~ (e < front)
           /\ owner' = [Retire(owner) EXCEPT ![e] = "provider"]
           /\ shown' = e /\ front' = e
  <2>1. Live' = Live \ {e}
    BY <1>1, <1>3 DEF Live, TypeOK, Retire
  <2>2. front = shown /\ e > shown
    BY <1>1, <1>3
  <2>3. Contract!Answer(e)
    BY <1>1, <1>3, <2>1, <2>2 DEF Contract!Answer
  <2>4. QED
    BY <2>3 DEF Contract!Next
<1>4. QED
  BY <1>2, <1>3 DEF UpdateUi

\* finalize_search drops a search only when the counter has moved on; every
\* other step of a shard, a merge task or a destruction is invisible.
LEMMA WorkerRefines ==
    ASSUME PipelineInv, NEW e \in Search,
           \/ \E i \in Shard : SearchBegin(e, i) \/ SearchEnd(e, i) \/ SearchDone(e, i)
           \/ QueueMerge(e) \/ LastLook(e) \/ MergeArrive(e) \/ LateTouch(e)
           \/ Destroy(e)
    PROVE  [Contract!Next]_(Contract!vars)
<1> USE DEF PipelineInv, Search
<1>1. CASE \E i \in Shard : SearchBegin(e, i) \/ SearchEnd(e, i)
  BY <1>1 DEF SearchBegin, SearchEnd, Contract!vars, Live
<1>2. ASSUME NEW i \in Shard, SearchDone(e, i)
      PROVE  [Contract!Next]_(Contract!vars)
  <2>1. owner[e] = "searching" /\ UNCHANGED <<event, shown, front>>
    BY <1>2 DEF SearchDone, TasksAreShards, OnlyLateTouches, TypeOK
  <2>2. CASE owner' = owner
    BY <2>1, <2>2 DEF Contract!vars, Live
  <2>3. CASE owner' = [owner EXCEPT ![e] = "merging"]
    <3>1. Live' = Live
      BY <2>1, <2>3 DEF Live, TypeOK
    <3>2. QED
      BY <2>1, <3>1 DEF Contract!vars
  <2>4. CASE e # event /\ owner' = [owner EXCEPT ![e] = "destroyed"]
    <3>1. Live' = Live \ {e} /\ e \in Live
      BY <2>1, <2>4 DEF Live, TypeOK
    <3>2. Contract!Discard(e)
      BY <2>1, <2>4, <3>1 DEF Contract!Discard
    <3>3. QED
      BY <3>2 DEF Contract!Next
  <2>5. QED
    BY <1>2, <2>2, <2>3, <2>4 DEF SearchDone, EventsOk
<1>3. CASE MergeArrive(e)
  <2>1. Live' = Live
    BY <1>3 DEF MergeArrive, Live, TypeOK
  <2>2. QED
    BY <1>3, <2>1 DEF MergeArrive, Contract!vars
<1>4. CASE Destroy(e)
  <2>1. Live' = Live
    BY <1>4 DEF Destroy, Live, TypeOK
  <2>2. QED
    BY <1>4, <2>1 DEF Destroy, Contract!vars
<1>6. CASE QueueMerge(e) \/ LastLook(e) \/ LateTouch(e)
  BY <1>6 DEF QueueMerge, LastLook, LateTouch, Contract!vars, Live
<1>5. QED
  BY <1>1, <1>2, <1>3, <1>4, <1>6

\* The worker threads and the callback of data-sink-sources.c implement the
\* contract of the asynchronous search: only a superseded search is dropped,
\* and an answer neither takes the user out of another pane nor replaces a
\* newer list.
THEOREM PipelineImplementsContract == Spec => ImplementsContract
<1>1. PipelineInv /\ [Next]_vars => [Contract!Next]_(Contract!vars)
  <2> SUFFICES ASSUME PipelineInv, [Next]_vars
               PROVE  [Contract!Next]_(Contract!vars)
    OBVIOUS
  <2>1. CASE Handler
    <3>1. Contract!Handle
      BY <2>1, StartSearchRefines, QuietHandlerRefines DEF Handler
    <3>2. QED
      BY <3>1 DEF Contract!Next
  <2>2. ASSUME NEW e \in Search, UpdateUi(e)
        PROVE  [Contract!Next]_(Contract!vars)
    BY <2>2, UpdateUiRefines
  <2>3. ASSUME NEW e \in Search,
               \/ \E i \in Shard : SearchBegin(e, i) \/ SearchEnd(e, i) \/ SearchDone(e, i)
               \/ QueueMerge(e) \/ LastLook(e) \/ MergeArrive(e) \/ LateTouch(e)
               \/ Destroy(e)
        PROVE  [Contract!Next]_(Contract!vars)
    BY <2>3, WorkerRefines
  <2>4. CASE UNCHANGED vars
    BY <2>4 DEF vars, Contract!vars, Live
  <2>5. QED
    BY <2>1, <2>2, <2>3, <2>4 DEF Next
<1>2. QED
  BY <1>1, RefinesInit, PipelineCorrect, PTL DEF Spec, ImplementsContract, Contract!Spec

=============================================================================
