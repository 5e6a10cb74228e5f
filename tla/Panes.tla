------------------------------- MODULE Panes -------------------------------
(***************************************************************************)
(* The main thread: the four panes of state.c and the handlers of          *)
(* controller.c that move between them, with the three kinds of callback   *)
(* that interleave with the user's keys (a finished search, the refresh    *)
(* timer of a plugin, the text of the clipboard).                          *)
(*                                                                         *)
(* A handler runs to its end before the next one starts, and one handler   *)
(* calls another (state_change_category calls controller_start_search), so *)
(* the functions of the code are operators from a state of the panes to    *)
(* the next, and an action composes them as the code does.                 *)
(*                                                                         *)
(* A query is a member of a small set, and an edit replaces the query of   *)
(* the pane by any other: how a key edits text is not told apart here.     *)
(***************************************************************************)
EXTENDS Integers, Sequences

CONSTANTS
    MaxEvent,    \* bound on the event counter
    Query,       \* what can be typed
    Empty,       \* the empty query
    Plugins,     \* all search plugins, in the order of their titles
    Refreshing,  \* the plugins with an update interval
    PluginLists, \* what a query can leave of Plugins
    SourceLists, \* what a search can find
    ActionLists, \* lists over {"plain", "onTarget"}
    MaxJobs,     \* bound on the jobs on the thread pool
    None,        \* a NULL match
    NoSearch     \* a search that is not in flight

PluginSet == {Plugins[i] : i \in 1..Len(Plugins)}

\* What a search is issued for.
Searches == [query : Query, plugin : PluginSet \cup {None}]

ASSUME PanesAssumption ==
    /\ MaxEvent \in Nat
    /\ MaxJobs \in Nat
    /\ Empty \in Query
    /\ Plugins # <<>> /\ Plugins \in Seq(PluginSet)
    /\ PluginLists \subseteq Seq(PluginSet)
    /\ \A items \in SourceLists : Len(items) \in Nat
    /\ ActionLists \subseteq Seq({"plain", "onTarget"})
    /\ NoSearch \notin Searches

\* The values of BobLauncherSearchingFor.
ForReset == -1
ForPlugins == 0
ForSources == 1
ForActions == 2
ForTargets == 3
Pane == ForPlugins..ForTargets
Search == 1..MaxEvent

VARIABLES
    ui,         \* the state of state.c and events.c, and what is in flight
    visible,    \* the window is shown
    executing,  \* is_executing
    jobs,       \* calls of controller_execute_async that have not returned
    job,        \* the last of those jobs that was posted
    pasting     \* a read of the clipboard is under way

vars == <<ui, visible, executing, jobs, job, pasting>>

\* A result list: its event id, what it was computed from (the plugin, the
\* source or the action, and the query) and its matches.
List(ev, key, query, items) == [event |-> ev, key |-> key, query |-> query, items |-> items]

EmptyProvider(ev) == List(ev, None, Empty, <<>>)

\* event and sf are the counter and state_sf; prov, sel and query the panes'
\* lists, selected indices and texts; shownAs is the list the rows were laid
\* out from; flight holds the searches and timers the refreshes to come.
Ui(event, sf, prov, sel, query, shownAs, flight, timers) ==
    [event |-> event, sf |-> sf, prov |-> prov, sel |-> sel, query |-> query,
     shownAs |-> shownAs, flight |-> flight, timers |-> timers]

\* hashset_get_match_at(state_providers[p], state_selected_indices[p]): a match
\* is told by its list and its place.
Selected(u, p) ==
    IF u.sel[p] < Len(u.prov[p].items)
    THEN [list |-> u.prov[p], index |-> u.sel[p]] ELSE None

Item(match) == match.list.items[match.index + 1]

SelectedPlugin(u) == IF Selected(u, ForPlugins) = None THEN None ELSE Item(Selected(u, ForPlugins))

IsActionTarget(match) == Item(match) = "onTarget"

\* state_initialize
Init ==
    /\ ui = Ui(0, ForSources,
               [p \in Pane |-> EmptyProvider(0)], [p \in Pane |-> 0], [p \in Pane |-> Empty],
               EmptyProvider(0), [e \in Search |-> NoSearch], {})
    /\ visible = FALSE
    /\ executing = FALSE
    /\ jobs = 0
    /\ job = None
    /\ pasting = FALSE

InInitialState(u) ==
    /\ u.sf = ForSources
    /\ Selected(u, ForPlugins) = None
    /\ u.query[ForSources] = Empty

-----------------------------------------------------------------------------
(* state.c                                                                 *)

Clamp(i, n) == IF n = 0 \/ i < 0 THEN 0 ELSE IF i >= n THEN n - 1 ELSE i

Increment(u) == [u EXCEPT !.event = @ + 1]

\* Faulty variant: a list is compared with the one shown in the sources pane,
\* wherever the user is.
Accepts_SourcesPane(u, list) == ~ (list.event < u.prov[ForSources].event)

Accepts(u, list) == ~ (list.event < u.prov[u.sf].event)

UpdateProvider(u, what, list, i) ==
    IF Accepts(u, list)
    THEN [u EXCEPT !.prov[what] = list, !.sel[what] = Clamp(i, Len(list.items))]
    ELSE u

UpdateLayout(u, what) == [u EXCEPT !.sf = what, !.shownAs = u.prov[what]]

\* Faulty variant: the lists go, the text stays.
ClearFrom_KeepsText(u, from) ==
    [u EXCEPT !.prov = [p \in Pane |-> IF p >= from THEN EmptyProvider(u.event) ELSE @[p]],
              !.sel  = [p \in Pane |-> IF p >= from THEN 0 ELSE @[p]]]

\* The loops of state_reset and state_change_category: empty lists and empty
\* queries for the panes from the given one on.
ClearFrom(u, from) ==
    [u EXCEPT !.prov  = IF Accepts(u, EmptyProvider(u.event))
                        THEN [p \in Pane |-> IF p >= from THEN EmptyProvider(u.event) ELSE @[p]]
                        ELSE @,
              !.sel   = [p \in Pane |-> IF p >= from THEN 0 ELSE @[p]],
              !.query = [p \in Pane |-> IF p >= from THEN Empty ELSE @[p]]]

Reset(u) == UpdateLayout(ClearFrom(Increment(u), ForPlugins), ForSources)

-----------------------------------------------------------------------------
(* controller_start_search.                                                *)

\* data_sink_sources_execute_search
ExecuteSearch(u, q, plg) == [u EXCEPT !.flight[u.event] = [query |-> q, plugin |-> plg]]

\* setup_search_timeout
SetupTimeout(u, q, plg) ==
    IF plg \in Refreshing
    THEN [u EXCEPT !.timers = @ \cup {[event |-> u.event, query |-> q, plugin |-> plg]}]
    ELSE u

SearchSources(u, q) ==
    LET plg == SelectedPlugin(u) IN
    IF plg = None /\ q = Empty
    THEN UpdateLayout(UpdateProvider(u, ForSources, EmptyProvider(u.event), 0), ForSources)
    ELSE SetupTimeout(ExecuteSearch(u, q, plg), q, plg)

SearchActions(u, q, items) ==
    LET source == Selected(u, ForSources) IN
    UpdateLayout(
        IF source = None THEN u
        ELSE UpdateProvider(u, ForActions, List(u.event, source, q, items), 0), ForActions)

SearchTargets(u, q, items) ==
    UpdateLayout(
        UpdateProvider(u, ForTargets, List(u.event, Selected(u, ForActions), q, items), 0), ForTargets)

SearchPlugins(u, q, items) ==
    UpdateLayout(UpdateProvider(u, ForPlugins, List(u.event, None, q, items), 0), ForPlugins)

\* What data_sink_search_for_{plugins,actions,targets} may return: everything
\* passes the empty query in the plugins pane, and a target list has exactly
\* one match, made from the query.
Lists(what, q) ==
    CASE what = ForPlugins -> IF q = Empty THEN {Plugins} ELSE PluginLists
      [] what = ForSources -> {<<>>}
      [] what = ForActions -> ActionLists
      [] what = ForTargets -> {<<"target">>}

\* The states controller_start_search can end in.
StartSearch(u, q) ==
    LET v == Increment(u) IN
    { CASE v.sf = ForPlugins -> SearchPlugins(v, q, items)
        [] v.sf = ForSources -> SearchSources(v, q)
        [] v.sf = ForActions -> SearchActions(v, q, items)
        [] v.sf = ForTargets -> SearchTargets(v, q, items) : items \in Lists(v.sf, q) }

\* state_change_category
ChangeCategory(u, what) ==
    IF what = u.sf THEN {u}
    ELSE LET cleared == ClearFrom(Increment(u), what + 1)
             moved   == [cleared EXCEPT !.sf = IF what = ForReset THEN ForSources ELSE what]
         IN  { IF what < u.sf THEN UpdateLayout(v, v.sf) ELSE v :
                 v \in StartSearch(moved, moved.query[moved.sf]) }

\* state_append_query, state_delete_*: the query of the pane becomes q.
Edit(u, q) == StartSearch([u EXCEPT !.query[u.sf] = q], q)

\* controller_goto_match and controller_goto_match_abs
Goto(u) ==
    {[u EXCEPT !.sel[u.sf] = Clamp(i, Len(u.prov[u.sf].items))] :
        i \in 0..Len(u.prov[u.sf].items)}

-----------------------------------------------------------------------------
(* controller_execute: the panes it leaves behind and the job it posts, None *)
(* when it returns early.                                                  *)

Done(u, j) == [ui |-> u, job |-> j]

Job(u) == [source |-> Selected(u, ForSources),
           action |-> Selected(u, ForActions),
           target |-> Selected(u, ForTargets),
           query  |-> u.query[ForTargets]]

\* Faulty variant: the empty target string is let through.
Execute2_EmptyTarget(u) ==
    LET action == Selected(u, ForActions) IN
    IF action = None THEN {Done(u, None)}
    ELSE IF IsActionTarget(action) /\ u.sf < ForTargets
    THEN {Done(SearchTargets(Increment(u), Empty, items), None) : items \in Lists(ForTargets, Empty)}
    ELSE {Done(u, Job(u))}

\* The part after the actions are known.
Execute2(u) ==
    LET action   == Selected(u, ForActions)
        onTarget == action # None /\ IsActionTarget(action)
    IN  IF onTarget /\ u.sf < ForTargets
        THEN {Done(SearchTargets(Increment(u), Empty, items), None) : items \in Lists(ForTargets, Empty)}
        ELSE IF \/ action = None
                \/ onTarget /\ Selected(u, ForTargets) = None
                \/ u.sf = ForTargets /\ u.query[ForTargets] = Empty
        THEN {Done(u, None)}
        ELSE {Done(u, Job(u))}

Execute(u) ==
    IF Selected(u, u.sf) = None THEN {Done(u, None)}
    ELSE IF u.sf = ForPlugins
    THEN {Done(v, None) : v \in ChangeCategory(u, ForSources)}
    ELSE IF Selected(u, ForSources) = None THEN {Done(u, None)}
    ELSE IF u.sf < ForActions
    THEN UNION { Execute2(UpdateProvider(u, ForActions,
                              List(u.event, Selected(u, ForSources), Empty, items), 0)) :
                   items \in ActionLists }
    ELSE Execute2(u)

-----------------------------------------------------------------------------
(* The handlers.                                                           *)

\* The counter is bounded: a handler raises it at most twice.
HasRoom == ui.event + 2 <= MaxEvent

\* controller_handle_command, while the commands are not frozen.
Command == visible /\ ~ executing /\ HasRoom

PanesOnly == UNCHANGED <<visible, executing, jobs, job, pasting>>

\* Typing and the delete commands; the query can only become empty when
\* something is deleted.
KeyEdit ==
    /\ Command
    /\ \E q \in Query :
          /\ q # Empty \/ ui.query[ui.sf] # Empty
          /\ ui' \in Edit(ui, q)
    /\ PanesOnly

\* FIRST/LAST/NEXT/PREV_MATCH and PAGE_UP/DOWN, and the scroll wheel, whose
\* kinetic ticks run on while a job executes.
MoveSelection ==
    /\ visible
    /\ \E v \in Goto(ui) : ui' = UpdateLayout(v, v.sf)
    /\ PanesOnly

Post(result) ==
    /\ result.job # None => jobs < MaxJobs
    /\ ui' = result.ui
    /\ IF result.job = None
       THEN UNCHANGED <<executing, jobs, job>>
       ELSE /\ executing' = TRUE
            /\ jobs' = jobs + 1
            /\ job' = result.job

\* EXECUTE and EXECUTE_WITHOUT_HIDE
KeyExecute ==
    /\ Command
    /\ \E result \in Execute(ui) : Post(result)
    /\ UNCHANGED <<visible, pasting>>

\* MATCH_1..10: go to the row, then execute it.
KeyMatch ==
    /\ Command
    /\ \E v \in Goto(ui) : \E result \in Execute(UpdateLayout(v, v.sf)) : Post(result)
    /\ UNCHANGED <<visible, pasting>>

\* A click on a row, which does not lay the rows out again.
Click ==
    /\ Command
    /\ \E v \in Goto(ui) : \E result \in Execute(v) : Post(result)
    /\ UNCHANGED <<visible, pasting>>

\* Whether NEXT_PANE cannot go forward from here.
AtEnd(u) ==
    \/ Selected(u, u.sf) = None
    \/ /\ u.sf > ForSources
       /\ u.sf # ForActions \/ ~ IsActionTarget(Selected(u, ForActions))

KeyNextPane ==
    /\ Command
    /\ ui' \in IF InInitialState(ui) THEN ChangeCategory(ui, ForPlugins)
               ELSE ChangeCategory(ui, ui.sf + (IF AtEnd(ui) THEN -1 ELSE 1))
    /\ PanesOnly

\* NEXT_PANE_1..10: go to the row first.
KeyNextPaneOf ==
    /\ Command
    /\ IF InInitialState(ui) THEN ui' \in ChangeCategory(ui, ForPlugins)
       ELSE \E v \in Goto(ui) :
              ui' \in IF AtEnd(v) THEN {UpdateLayout(v, v.sf)} ELSE ChangeCategory(v, v.sf + 1)
    /\ PanesOnly

KeyPrevPane ==
    /\ Command
    /\ ui' \in ChangeCategory(ui, ui.sf - 1)
    /\ PanesOnly

\* bob_launcher_launcher_window_hide: state_reset, controller_reset.
Hide ==
    /\ visible' = FALSE
    /\ executing' = FALSE
    /\ ui' = Reset(ui)
    /\ UNCHANGED <<jobs, job, pasting>>

\* CLEAR_SEARCH_OR_HIDE with an empty query; with another one it is KeyEdit.
KeyClearOrHide ==
    /\ Command
    /\ ui.query[ui.sf] = Empty
    /\ IF InInitialState(ui) THEN Hide
       ELSE ui' \in ChangeCategory(ui, ui.sf - 1) /\ PanesOnly

\* ACTIVATE and toggle_visibility, allowed while a job executes.
Toggle ==
    /\ HasRoom
    /\ IF visible THEN Hide
       ELSE visible' = TRUE /\ UNCHANGED <<ui, executing, jobs, job, pasting>>

\* select_plugin of app.c with controller_select_plugin, a request from another
\* process: the window ends up shown exactly when the plugin was selected.
SelectPlugin ==
    /\ HasRoom
    /\ \/ /\ InInitialState(ui)
          /\ \E i \in 1..Len(Plugins), q \in Query :
                LET u == Increment(ui)
                    v == UpdateProvider(u, ForPlugins, List(u.event, None, Empty, Plugins), i - 1)
                IN  ui' \in Edit(v, q)
          /\ visible' = TRUE
          /\ UNCHANGED <<executing, jobs, job, pasting>>
       \/ \* not in the initial state, or no plugin of that name
          IF visible THEN Hide ELSE UNCHANGED vars

\* PASTE and PASTE_SELECTION start an asynchronous read.
Paste ==
    /\ visible
    /\ ~ executing
    /\ pasting' = TRUE
    /\ UNCHANGED <<ui, visible, executing, jobs, job>>

\* controller_clipboard_callback, whatever has happened meanwhile.
PasteArrives ==
    /\ pasting
    /\ HasRoom
    /\ pasting' = FALSE
    /\ \/ \E q \in Query \ {Empty} : ui' \in Edit(ui, q)
       \/ UNCHANGED ui                    \* an error, or no text
    /\ UNCHANGED <<visible, executing, jobs, job>>

\* update_ui_callback
UpdateUi(e) ==
    LET search == ui.flight[e]
        old    == ui.prov[ForSources].items
    IN  /\ search # NoSearch
        /\ \E items \in SourceLists :
              LET landed == [ui EXCEPT !.flight[e] = NoSearch]
                  list   == List(e, search.plugin, search.query, items)
                  index  == IF Len(old) # Len(items) THEN 0 ELSE ui.sel[ForSources]
              IN  ui' = IF Accepts(landed, list)
                        THEN UpdateLayout(UpdateProvider(landed, ForSources, list, index), ForSources)
                        ELSE landed
        /\ PanesOnly

\* Faulty variant: a search is dropped although it is the current one.
Drop_Any(e) ==
    /\ ui.flight[e] # NoSearch
    /\ ui' = [ui EXCEPT !.flight[e] = NoSearch]
    /\ PanesOnly

\* finalize_search drops a search the counter has left behind.
Drop(e) ==
    /\ ui.flight[e] # NoSearch
    /\ e # ui.event
    /\ ui' = [ui EXCEPT !.flight[e] = NoSearch]
    /\ PanesOnly

\* Faulty variant: the timer does not ask whether its search is still current.
Tick_NoTest ==
    /\ HasRoom
    /\ \E t \in ui.timers :
          LET u == Increment(ui) IN
          ui' = [ExecuteSearch(u, t.query, t.plugin) EXCEPT
                   !.timers = (@ \ {t}) \cup {[t EXCEPT !.event = u.event]}]
    /\ PanesOnly

\* search_update_timeout_callback
Tick ==
    /\ HasRoom
    /\ \E t \in ui.timers :
          LET u == Increment(ui) IN
          ui' = IF t.event # ui.event
                THEN [ui EXCEPT !.timers = @ \ {t}]
                ELSE [ExecuteSearch(u, t.query, t.plugin) EXCEPT
                        !.timers = (@ \ {t}) \cup {[t EXCEPT !.event = u.event]}]
    /\ PanesOnly

\* A job returns and its idle callback, if it posts one, has run: the flag it
\* looks at may by then be that of a later job, or clear.
JobReturns ==
    /\ jobs > 0
    /\ jobs' = jobs - 1
    /\ HasRoom
    /\ \/ UNCHANGED <<ui, visible, executing>>           \* is_executing was clear
       \/ executing' = FALSE /\ UNCHANGED <<ui, visible>> \* handle_error_ui
       \/ /\ executing' = FALSE                          \* state_update_layout_idle
          /\ ui' = UpdateLayout(ui, ui.sf)
          /\ UNCHANGED visible
       \/ /\ executing' = FALSE                          \* bob_launcher_app_hide_window
          /\ visible' = FALSE
          /\ ui' = IF visible THEN Reset(ui) ELSE ui
    /\ job' = IF jobs = 1 THEN None ELSE job
    /\ UNCHANGED pasting

Next ==
    \/ KeyEdit \/ MoveSelection \/ KeyExecute \/ KeyMatch \/ Click
    \/ KeyNextPane \/ KeyNextPaneOf \/ KeyPrevPane \/ KeyClearOrHide
    \/ Toggle \/ SelectPlugin \/ Paste \/ PasteArrives \/ Tick \/ JobReturns
    \/ \E e \in Search : UpdateUi(e) \/ Drop(e)

Spec == Init /\ [][Next]_vars

-----------------------------------------------------------------------------
(* Properties.                                                             *)

\* A result list as an operator builds it.
IsList(l) ==
    /\ l = List(l.event, l.key, l.query, l.items)
    /\ l.event \in Nat /\ l.query \in Query /\ Len(l.items) \in Nat

UiTypeOK(u) ==
    /\ u = Ui(u.event, u.sf, u.prov, u.sel, u.query, u.shownAs, u.flight, u.timers)
    /\ u.event \in 0..MaxEvent
    /\ u.sf \in Pane
    /\ u.prov = [p \in Pane |-> u.prov[p]]
    /\ \A p \in Pane : IsList(u.prov[p]) /\ u.prov[p].event <= u.event
    /\ \A i \in 1..Len(u.prov[ForPlugins].items) : u.prov[ForPlugins].items[i] \in PluginSet
    /\ u.sel \in [Pane -> Nat]
    /\ u.query \in [Pane -> Query]
    /\ u.flight \in [Search -> Searches \cup {NoSearch}]
    /\ u.timers \subseteq [event : 1..u.event, query : Query, plugin : Refreshing]

TypeOK ==
    /\ UiTypeOK(ui)
    /\ visible \in BOOLEAN
    /\ executing \in BOOLEAN
    /\ jobs \in 0..MaxJobs
    /\ pasting \in BOOLEAN

\* A selected index always addresses a match of its own list, or the list is
\* empty: hashset_get_match_at does no check against negative or old indices.
SelectionInRange(u) ==
    \A p \in Pane : u.sel[p] = 0 \/ u.sel[p] < Len(u.prov[p].items)

\* The rows on the screen were laid out from the list that the keys act on,
\* unless that list is empty.
RowsAreCurrent(u) ==
    u.prov[u.sf].items # <<>> => u.shownAs = u.prov[u.sf]

\* A refresh timer that is still in force repeats the search the user is
\* looking at, and there is at most one.
TimerIsCurrent(u) ==
    \A t \in u.timers : t.event = u.event =>
        /\ u.sf = ForSources
        /\ t.query = u.query[ForSources]
        /\ t.plugin = SelectedPlugin(u)
        /\ \A s \in u.timers : s.event = t.event => s = t

\* Nothing is left in the panes the user has come back from: no text, no
\* target, and in the plugins pane no sources.  A text typed to find a plugin
\* stays only with the plugin.
NothingAhead(u) ==
    /\ \A p \in Pane : p > u.sf => u.query[p] = Empty
    /\ u.sf # ForTargets => u.prov[ForTargets].items = <<>>
    /\ u.sf = ForPlugins => u.prov[ForSources].items = <<>>
    /\ u.sf # ForPlugins /\ Selected(u, ForPlugins) = None => u.query[ForPlugins] = Empty

\* A search in flight is no newer than the counter and not the one on display;
\* outside the sources pane it is older than the list in front, so that it will
\* be dropped when it lands.
SearchesAreOld(u) ==
    \A e \in Search : u.flight[e] # NoSearch =>
        /\ e <= u.event /\ e # u.prov[ForSources].event
        /\ u.sf # ForSources => e < u.prov[u.sf].event

\* In the sources pane the search for the current count is about what the user
\* sees; when there is none, the list on display is that of the current count.
SearchIsCurrent(u) ==
    u.sf = ForSources =>
        IF u.event > 0 /\ u.flight[u.event] # NoSearch
        THEN u.flight[u.event] = [query |-> u.query[ForSources], plugin |-> SelectedPlugin(u)]
        ELSE /\ u.prov[ForSources].event = u.event
             /\ u.prov[ForSources].query = u.query[ForSources]
             /\ u.prov[ForSources].key = SelectedPlugin(u)

ActionsMatch(u) ==
    /\ Selected(u, ForSources) # None
    /\ u.prov[ForActions].key = Selected(u, ForSources)

TargetMatches(u) ==
    /\ Selected(u, ForActions) # None
    /\ IsActionTarget(Selected(u, ForActions))
    /\ u.prov[ForTargets].key = Selected(u, ForActions)
    /\ u.prov[ForTargets].query = u.query[ForTargets]

\* In the later panes, what is offered belongs to what was chosen in the
\* earlier ones: the actions to the selected source, the target to the
\* selected action and the text typed for it.  The earlier choices cannot be
\* exchanged under the user by a search that lands late.
ChoicesMatch ==
    /\ ui.sf \in {ForActions, ForTargets} => ActionsMatch(ui)
    /\ ui.sf = ForTargets => TargetMatches(ui)

\* In the sources pane, once no search for the current count is in flight, the
\* results are those of the query and the plugin the user sees, whatever
\* searches, refreshes, pastes and pane changes came before.
DisplayedAnswersQuery ==
    (ui.sf = ForSources /\ (ui.event = 0 \/ ui.flight[ui.event] = NoSearch)) =>
        /\ ui.prov[ForSources].query = ui.query[ForSources]
        /\ ui.prov[ForSources].key = SelectedPlugin(ui)

\* What state_is_in_initial_state looks at is enough to tell that no text is
\* left in any pane: a launch request is not mixed with earlier input.
InitialStateIsClean ==
    InInitialState(ui) => \A p \in Pane : ui.query[p] = Empty

\* Jobs are posted whole: the action was offered for that source, an action
\* that needs a target has one that was made for it from a text that is not
\* empty, and an action that needs none is given none ("don't execute with an
\* empty target", "disallow empty target strings").
IsWhole(j) ==
    /\ j.source # None /\ j.action # None
    /\ j.action.list.key = j.source
    /\ IF IsActionTarget(j.action)
       THEN /\ j.target # None
            /\ j.target.list.key = j.action
            /\ j.target.list.query # Empty
       ELSE j.target = None

JobIsWhole == job # None => IsWhole(job)

\* What holds one variable of the panes to another.
UiInv(u) ==
    /\ UiTypeOK(u) /\ SelectionInRange(u) /\ RowsAreCurrent(u) /\ TimerIsCurrent(u)
    /\ NothingAhead(u) /\ SearchesAreOld(u) /\ SearchIsCurrent(u)

PanesInv == TypeOK /\ UiInv(ui)

-----------------------------------------------------------------------------

\* The main thread keeps its side of the contract of the source search.
Contract == INSTANCE SearchContract WITH
                event <- ui.event,
                shown <- ui.prov[ForSources].event,
                atSources <- (ui.sf = ForSources),
                live <- {e \in Search : ui.flight[e] # NoSearch}

ImplementsContract == Contract!Spec

\* keybindings.h, before KEYBINDINGS_COMMAND_QUIT: "the following commands may
\* be run when executing and the ui is otherwise "frozen"".  Taken at its word,
\* no query changes while a job executes, unless the window is hidden.
FrozenWhileExecuting ==
    [][executing /\ executing' => ui'.query = ui.query]_vars

=============================================================================
