--------------------------- MODULE SearchPipeline ---------------------------
(***************************************************************************)
(* The asynchronous source search: data-sink-sources.c over events.c, the  *)
(* ownership of hash sets in hashset.c and state.c, and the callback that  *)
(* hands a merged set to the main thread.                                  *)
(*                                                                         *)
(* A search is named by the value of the event counter it was issued at:   *)
(* data_sink_sources_execute_search is always called right after           *)
(* events_increment, so the name is unique.  Every shard of every search   *)
(* is a task of its own on the external thread pool, which runs tasks in   *)
(* any order and in parallel; a task is its function (search_func) followed*)
(* by its destroy function (plugin_data_unref).  The main thread runs its  *)
(* handlers one at a time.                                                 *)
(*                                                                         *)
(* Some touches of a set come late, when it may already be in other hands: *)
(* the finaliser looks at merge_workers once more after it queued the last *)
(* merge task, and a merge task that is not the last to arrive at the last *)
(* barrier looks at merge_workers after its arrival and, if it found       *)
(* duplicates, lowers the size.  A set that is destroyed goes back to a    *)
(* pool, so by then it may be the set of another search.  A touch that     *)
(* does harm to such a set makes the model stop (astray): what the program *)
(* does from there on is not described, and nothing is claimed about it.   *)
(***************************************************************************)
EXTENDS Naturals, FiniteSets

CONSTANTS
    MaxEvent,   \* bound on the event counter, hence on the searches issued
    Shard,      \* the shards of all plugins (get_shard_count of each)
    Matching,   \* the sets of shards a query can select by the plugins' regexes
    MergeThreads \* hashset_merge_threads

ASSUME PipelineAssumption ==
    /\ MaxEvent \in Nat
    /\ IsFiniteSet(Shard)
    /\ Matching \subseteq SUBSET Shard
    /\ MergeThreads \in Nat \ {0}

Search == 1..MaxEvent

Owner == {"none",      \* not issued
          "searching", \* written by shard tasks
          "merging",   \* read and written by merge tasks
          "posted",    \* owned by the callback posted to the main loop
          "provider",  \* state_providers[SOURCES]
          "dying",     \* hashset_destroy queued on the thread pool
          "destroyed"}

Task == {"none", "queued", "running", "ended", "done"}

VARIABLES
    event,    \* _event of events.c
    shown,    \* state_providers[SOURCES]->event_id
    front,    \* state_providers[state_sf]->event_id
    owner,    \* who holds the hash set of each search
    shards,   \* the shards each search was split into
    task,     \* the state of each shard task
    found,    \* the shards whose results are all in the set
    workers,  \* ctx->workers
    mergers,  \* merge tasks that have not passed the last barrier
    looping,  \* the searches whose finaliser is in the loop that queues merge tasks
    queued,   \* the merge tasks it has queued
    late,     \* merge tasks that have arrived at the last barrier and still touch the set
    astray    \* a late touch has hit a set that was given back to the pool

lateVars == <<looping, queued, late, astray>>

vars == <<event, shown, front, owner, shards, task, found, workers, mergers, lateVars>>

searchVars == <<shards, task, found, workers, mergers, lateVars>>

TypeOK ==
    /\ event \in 0..MaxEvent
    /\ shown \in 0..MaxEvent
    /\ front \in 0..MaxEvent
    /\ owner \in [Search -> Owner]
    /\ shards \in [Search -> SUBSET Shard]
    /\ task \in [Search -> [Shard -> Task]]
    /\ found \in [Search -> SUBSET Shard]
    /\ workers \in [Search -> Nat]
    /\ mergers \in [Search -> Nat]
    /\ looping \subseteq Search
    /\ queued \in [Search -> Nat]
    /\ late \in [Search -> Nat]
    /\ astray \in BOOLEAN

\* state_initialize: every pane holds an empty provider of event 0.
Init ==
    /\ event = 0
    /\ shown = 0
    /\ front = 0
    /\ owner = [e \in Search |-> "none"]
    /\ shards = [e \in Search |-> {}]
    /\ task = [e \in Search |-> [i \in Shard |-> "none"]]
    /\ found = [e \in Search |-> {}]
    /\ workers = [e \in Search |-> 0]
    /\ mergers = [e \in Search |-> 0]
    /\ looping = {}
    /\ queued = [e \in Search |-> 0]
    /\ late = [e \in Search |-> 0]
    /\ astray = FALSE

EventsOk(e) == e = event

\* set->merge_workers of the set of search e.
MergeWorkers(e) ==
    IF Cardinality(shards[e]) < MergeThreads THEN Cardinality(shards[e]) ELSE MergeThreads

-----------------------------------------------------------------------------
(* Main thread.                                                            *)

\* Faulty variant: the replaced provider is not handed to hashset_destroy.
Retire_Leaks(o) == o

\* hashset_destroy of the replaced provider is queued on the pool.
Retire(o) == [e \in Search |-> IF o[e] = "provider" THEN "dying" ELSE o[e]]

\* data_sink_sources_execute_search(query, plg, e): a fresh set, one task per
\* shard of every plugin whose regex matches.
ExecuteSearch(e, S) ==
    /\ owner' = [owner EXCEPT ![e] = "searching"]
    /\ shards' = [shards EXCEPT ![e] = S]
    /\ task' = [task EXCEPT ![e] = [i \in Shard |-> IF i \in S THEN "queued" ELSE "none"]]
    /\ workers' = [workers EXCEPT ![e] = Cardinality(S)]
    /\ UNCHANGED <<found, mergers, lateVars>>

\* Every handler raises the counter once in controller_start_search or
\* state_reset; state_change_category and controller_select_plugin have raised
\* it once before that.
Raise(n) ==
    /\ ~ astray
    /\ n \in 1..2
    /\ event + n <= MaxEvent
    /\ event' = event + n

\* controller_start_search in the sources pane with something to search for,
\* from a key press, a paste, --select-plugin, the periodic refresh of a
\* plugin, or because state_change_category has just returned to the pane.
StartSearch(n, S) ==
    /\ Raise(n)
    /\ front' = shown
    /\ UNCHANGED shown
    /\ ExecuteSearch(event + n, S)

\* The handlers that replace the result list by an empty one under the fresh
\* id and end in the sources pane: the query became empty, or state_reset.
ClearSources(n) ==
    /\ Raise(n)
    /\ shown' = event'
    /\ front' = event'
    /\ owner' = Retire(owner)
    /\ UNCHANGED searchVars

\* The handlers that end in another pane, whose provider they rebuild under
\* the fresh id.
LeaveSources(n) ==
    /\ Raise(n)
    /\ front' = event'
    /\ UNCHANGED <<shown, owner, searchVars>>

\* Going to the plugins pane clears the sources on the way.
GotoPlugins ==
    /\ Raise(2)
    /\ shown' = event + 1
    /\ front' = event'
    /\ owner' = Retire(owner)
    /\ UNCHANGED searchVars

\* Faulty variant: the id is compared with the list it would replace.
UpdateUi_OwnPane(e) ==
    /\ ~ astray
    /\ owner[e] = "posted"
    /\ IF e < shown
       THEN /\ owner' = [owner EXCEPT ![e] = "dying"]
            /\ UNCHANGED <<shown, front>>
       ELSE /\ owner' = [Retire(owner) EXCEPT ![e] = "provider"]
            /\ shown' = e
            /\ front' = e
    /\ UNCHANGED <<event, searchVars>>

\* update_ui_callback with state_update_provider(SOURCES, set): the id of the
\* set is compared with the provider of the pane the user is in.
UpdateUi(e) ==
    /\ ~ astray
    /\ owner[e] = "posted"
    /\ \/ /\ e < front
          /\ owner' = [owner EXCEPT ![e] = "dying"]
          /\ UNCHANGED <<shown, front>>
       \/ /\ ~ (e < front)
          /\ owner' = [Retire(owner) EXCEPT ![e] = "provider"]
          /\ shown' = e
          /\ front' = e        \* state_update_layout(SOURCES)
    /\ UNCHANGED <<event, searchVars>>

-----------------------------------------------------------------------------
(* Worker threads.                                                         *)

\* search_func, up to the events_ok test.
SearchBegin(e, i) ==
    /\ ~ astray
    /\ task[e][i] = "queued"
    /\ task' = [task EXCEPT ![e][i] = IF EventsOk(e) THEN "running" ELSE "ended"]
    /\ UNCHANGED <<event, shown, front, owner, shards, found, workers, mergers, lateVars>>

\* The plugin's search_shard, container_flush_items and container_return_sheet.
\* A plugin polls result_container_is_cancelled and may stop short.
SearchEnd(e, i) ==
    /\ ~ astray
    /\ task[e][i] = "running"
    /\ task' = [task EXCEPT ![e][i] = "ended"]
    /\ \/ found' = [found EXCEPT ![e] = @ \cup {i}]
       \/ ~ EventsOk(e) /\ UNCHANGED found
    /\ UNCHANGED <<event, shown, front, owner, shards, workers, mergers, lateVars>>

\* Faulty variant: finalize_search merges without looking at the counter.
SearchDone_AlwaysMerges(e, i) ==
    /\ ~ astray
    /\ task[e][i] = "ended"
    /\ task' = [task EXCEPT ![e][i] = "done"]
    /\ workers' = [workers EXCEPT ![e] = @ - 1]
    /\ IF workers[e] # 1
       THEN UNCHANGED <<owner, mergers, looping>>
       ELSE /\ owner' = [owner EXCEPT ![e] = "merging"]
            /\ mergers' = [mergers EXCEPT ![e] = MergeWorkers(e)]
            /\ looping' = looping \cup {e}
    /\ UNCHANGED <<event, shown, front, shards, found, queued, late, astray>>

\* Faulty variant: the last task but one finalises the search.
SearchDone_OneEarly(e, i) ==
    /\ ~ astray
    /\ task[e][i] = "ended"
    /\ task' = [task EXCEPT ![e][i] = "done"]
    /\ workers' = [workers EXCEPT ![e] = @ - 1]
    /\ IF workers[e] # 2
       THEN UNCHANGED <<owner, mergers, looping>>
       ELSE /\ owner' = [owner EXCEPT ![e] = IF EventsOk(e) THEN "merging" ELSE "destroyed"]
            /\ mergers' = [mergers EXCEPT ![e] = IF EventsOk(e) THEN MergeWorkers(e) ELSE 0]
            /\ looping' = IF EventsOk(e) THEN looping \cup {e} ELSE looping
    /\ UNCHANGED <<event, shown, front, shards, found, queued, late, astray>>

\* plugin_data_unref with finalize_search up to its loop: the last task to
\* leave decides what becomes of the set.
SearchDone(e, i) ==
    /\ ~ astray
    /\ task[e][i] = "ended"
    /\ task' = [task EXCEPT ![e][i] = "done"]
    /\ workers' = [workers EXCEPT ![e] = @ - 1]
    /\ \/ /\ workers[e] # 1
          /\ UNCHANGED <<owner, mergers, looping>>
       \/ /\ workers[e] = 1
          /\ EventsOk(e)
          /\ owner' = [owner EXCEPT ![e] = "merging"]
          /\ mergers' = [mergers EXCEPT ![e] = MergeWorkers(e)]
          /\ looping' = looping \cup {e}
       \/ /\ workers[e] = 1
          /\ ~ EventsOk(e)
          /\ owner' = [owner EXCEPT ![e] = "destroyed"]
          /\ UNCHANGED <<mergers, looping>>
    /\ UNCHANGED <<event, shown, front, shards, found, queued, late, astray>>

\* One turn of finalize_search's loop: the look at merge_workers says that
\* there is a merge task left to queue.
QueueMerge(e) ==
    /\ ~ astray
    /\ e \in looping
    /\ queued[e] < MergeWorkers(e)
    /\ queued' = [queued EXCEPT ![e] = @ + 1]
    /\ UNCHANGED <<event, shown, front, owner, shards, task, found, workers, mergers,
                   looping, late, astray>>

\* The loop's last look, after the last merge task was queued.  If the set has
\* been destroyed by then, the field is that of a set in the pool, of another
\* search or of freed memory, and the loop may queue a merge task more on it.
LastLook(e) ==
    /\ ~ astray
    /\ e \in looping
    /\ queued[e] = MergeWorkers(e)
    /\ \/ /\ looping' = looping \ {e}
          /\ UNCHANGED astray
       \/ /\ owner[e] = "destroyed"
          /\ astray' = TRUE
          /\ UNCHANGED looping
    /\ UNCHANGED <<event, shown, front, owner, shards, task, found, workers, mergers,
                   queued, late>>

\* Faulty variant: the arrival that should be the last is not recognised.
MergeArrive_NoLast(e) ==
    /\ ~ astray
    /\ owner[e] = "merging"
    /\ mergers[e] > 0
    /\ queued[e] = MergeWorkers(e)
    /\ mergers' = [mergers EXCEPT ![e] = @ - 1]
    /\ late' = [late EXCEPT ![e] = @ + 1]
    /\ UNCHANGED <<event, shown, front, owner, shards, task, found, workers,
                   looping, queued, astray>>

\* merge_hashset_parallel_wrapper at the last barrier of the merge, which no
\* task reaches before all have been queued: they meet at the barriers before
\* it.  The task that arrives last publishes the set and posts the callback;
\* the others are not done with it yet.
MergeArrive(e) ==
    /\ ~ astray
    /\ owner[e] = "merging"
    /\ mergers[e] > 0
    /\ queued[e] = MergeWorkers(e)
    /\ mergers' = [mergers EXCEPT ![e] = @ - 1]
    /\ \/ /\ mergers[e] = 1
          /\ owner' = [owner EXCEPT ![e] = "posted"]
          /\ UNCHANGED late
       \/ /\ mergers[e] > 1
          /\ late' = [late EXCEPT ![e] = @ + 1]
          /\ UNCHANGED owner
    /\ UNCHANGED <<event, shown, front, shards, task, found, workers,
                   looping, queued, astray>>

\* A task that was not the last to arrive: barrier_check_last compares the
\* count it found with merge_workers, and its duplicates, if it has any, are
\* taken off the size.  On a set that has been destroyed the comparison may come
\* out wrong, and the subtraction stays: the size is not set again when the set
\* is reused.
LateTouch(e) ==
    /\ ~ astray
    /\ late[e] > 0
    /\ late' = [late EXCEPT ![e] = @ - 1]
    /\ \/ UNCHANGED astray
       \/ owner[e] = "destroyed" /\ astray' = TRUE
    /\ UNCHANGED <<event, shown, front, owner, shards, task, found, workers, mergers,
                   looping, queued>>

\* The queued hashset_destroy runs.
Destroy(e) ==
    /\ ~ astray
    /\ owner[e] = "dying"
    /\ owner' = [owner EXCEPT ![e] = "destroyed"]
    /\ UNCHANGED <<event, shown, front, searchVars>>

-----------------------------------------------------------------------------

Handler ==
    \/ \E n \in 1..2 :
          \/ \E S \in Matching : StartSearch(n, S)
          \/ ClearSources(n)
          \/ LeaveSources(n)
    \/ GotoPlugins

ShardStep(e, i) == SearchBegin(e, i) \/ SearchEnd(e, i) \/ SearchDone(e, i)

Next ==
    \/ Handler
    \/ \E e \in Search :
          \/ UpdateUi(e)
          \/ \E i \in Shard : SearchBegin(e, i) \/ SearchEnd(e, i) \/ SearchDone(e, i)
          \/ QueueMerge(e)
          \/ LastLook(e)
          \/ MergeArrive(e)
          \/ LateTouch(e)
          \/ Destroy(e)

Spec == Init /\ [][Next]_vars

\* The pool runs every task it is given and the main loop dispatches every
\* callback posted to it.  Nothing makes the user act.
Fairness ==
    \A e \in Search :
        /\ WF_vars(UpdateUi(e))
        /\ \A i \in Shard : WF_vars(ShardStep(e, i))
        /\ WF_vars(QueueMerge(e))
        /\ WF_vars(LastLook(e))
        /\ WF_vars(MergeArrive(e))
        /\ WF_vars(LateTouch(e))
        /\ WF_vars(Destroy(e))

FairSpec == Spec /\ Fairness

-----------------------------------------------------------------------------
(* Properties.                                                             *)

Live == {e \in Search : owner[e] \in {"searching", "merging", "posted"}}

\* A result list is merged, posted or shown only if every shard of the search
\* has put all its results in it, although shards skip or cut short their
\* work without any flag when the counter moves (search_func,
\* finalize_search).
CompleteAnswers ==
    \A e \in Search :
        owner[e] \in {"merging", "posted", "provider"} => found[e] = shards[e]

\* A set is handed on from the shard tasks only when none of them can touch it
\* again, and from the merge tasks only when all of them have been queued and
\* have arrived at the last barrier.  What may still come are the finaliser's
\* last look and the last touches of fewer tasks than took part in the merge,
\* and those only of a search that was merged: a set destroyed unmerged is
\* touched no more.
OnlyLateTouches ==
    \A e \in Search :
        owner[e] \notin {"none", "searching"} =>
            /\ \A i \in shards[e] : task[e][i] = "done"
            /\ owner[e] # "merging" =>
                  /\ mergers[e] = 0
                  /\ e \in looping \/ late[e] > 0 =>
                        queued[e] = MergeWorkers(e) /\ late[e] < MergeWorkers(e)

\* At most one search is the provider, and it is the one shown: replacing the
\* provider always hands the old one to hashset_destroy.
OneProvider ==
    \A e \in Search : owner[e] = "provider" => shown = e

-----------------------------------------------------------------------------
(* What makes those invariants inductive.                                  *)

Unfinished(e) == {i \in shards[e] : task[e][i] # "done"}

\* ctx->workers counts the tasks whose destroy function has not run.
WorkersCount == \A e \in Search : workers[e] = Cardinality(Unfinished(e))

TasksAreShards ==
    \A e \in Search :
        /\ \A i \in Shard : task[e][i] # "none" <=> i \in shards[e]
        /\ found[e] \subseteq shards[e]
        /\ owner[e] = "none" => shards[e] = {}
        /\ event < e => owner[e] = "none"
        /\ owner[e] # "merging" => mergers[e] = 0

\* The counter never returns to a value it has left, so as long as it stands
\* at a search nothing of that search has been skipped.
NothingSkippedYet ==
    \A e \in Search : \A i \in shards[e] :
        e = event /\ task[e][i] \in {"ended", "done"} => i \in found[e]

\* The id that state_update_provider compares with never admits a search
\* issued before the user left the sources pane.
FrontGuards ==
    /\ shown <= front
    /\ front <= event
    /\ \A e \in Live : e # shown /\ (front # shown => e < front)

\* The loop and the late touches belong to searches that were merged, and a
\* task is late only after all have been queued, each at most once.
LateTouchesCounted ==
    \A e \in Search :
        /\ owner[e] \in {"none", "searching"} => e \notin looping /\ late[e] = 0 /\ queued[e] = 0
        /\ owner[e] = "merging" => late[e] + mergers[e] <= MergeWorkers(e)
        /\ late[e] > 0 => queued[e] = MergeWorkers(e)

PipelineInv ==
    /\ TypeOK
    /\ WorkersCount
    /\ TasksAreShards
    /\ NothingSkippedYet
    /\ FrontGuards
    /\ CompleteAnswers
    /\ LateTouchesCounted
    /\ OnlyLateTouches
    /\ OneProvider

-----------------------------------------------------------------------------

\* The worker threads keep the contract of the asynchronous search: only a
\* search that was superseded is dropped, and an answer neither takes the
\* user out of another pane nor replaces a newer list.
Contract == INSTANCE SearchContract WITH
                atSources <- (front = shown),
                live <- Live

ImplementsContract == Contract!Spec

\* The last search issued is answered: as long as the counter stays at it, its
\* results reach the screen.  A search without shards is not answered, and
\* nothing is claimed once a late touch has gone astray.
SearchIsAnswered ==
    \A e \in Search :
        (owner[e] = "searching" /\ shards[e] # {} /\ event = e)
            ~> (owner[e] = "provider" \/ event # e \/ astray)

\* No hash set is lost on the way: at any time, each one will yet be the
\* provider that is shown or end destroyed, so a provider that is replaced is
\* destroyed too.  Not claimed of the set of a search without shards, which
\* nobody frees, and not once a late touch has gone astray.
NoLeak ==
    \A e \in Search :
        shards[e] # {} ~> \/ owner[e] = "provider" /\ shown = e
                          \/ owner[e] = "destroyed"
                          \/ astray

=============================================================================
