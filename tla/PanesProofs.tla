---------------------------- MODULE PanesProofs ----------------------------
(***************************************************************************)
(* Proofs about Panes, for any queries, plugins, result lists and bounds.  *)
(*                                                                         *)
(* The operators that stand for functions of state.c and controller.c are  *)
(* total functions of the panes, so each has a lemma that says what record *)
(* it returns, and the handlers have lemmas that say what they make of     *)
(* panes that satisfy the invariant.  Only then come the actions.          *)
(***************************************************************************)
EXTENDS Panes, TLAPS

-----------------------------------------------------------------------------
(* What the operators of state.c return.                                   *)

LEMMA PaneFacts == /\ Pane = 0..3 /\ ForPlugins = 0 /\ ForSources = 1 /\ ForActions = 2
                   /\ ForTargets = 3 /\ ForReset = -1
BY DEF Pane, ForPlugins, ForSources, ForActions, ForTargets, ForReset

LEMMA ClampRange ==
    ASSUME NEW i \in Int, NEW n \in Nat
    PROVE  /\ Clamp(i, n) \in Nat /\ (Clamp(i, n) = 0 \/ Clamp(i, n) < n)
BY DEF Clamp

LEMMA ClampZero == ASSUME NEW n \in Nat PROVE Clamp(0, n) = 0
BY DEF Clamp

LEMMA UiIsRecord ==
    ASSUME NEW u, UiTypeOK(u)
    PROVE  u = Ui(u.event, u.sf, u.prov, u.sel, u.query, u.shownAs, u.flight, u.timers)
BY DEF UiTypeOK

LEMMA EventIsNat ==
    ASSUME NEW u, UiTypeOK(u)
    PROVE  u.event \in Nat /\ MaxEvent \in Nat /\ u.event <= MaxEvent
BY PanesAssumption DEF UiTypeOK

LEMMA IncrementIs ==
    ASSUME NEW u, UiTypeOK(u), u.event < MaxEvent
    PROVE  LET v == Increment(u) IN
           /\ v = Ui(u.event + 1, u.sf, u.prov, u.sel, u.query, u.shownAs, u.flight, u.timers)
           /\ UiTypeOK(v)
<1> DEFINE v == Increment(u)
<1>1. v = Ui(u.event + 1, u.sf, u.prov, u.sel, u.query, u.shownAs, u.flight, u.timers)
  BY UiIsRecord DEF Increment, Ui
<1> HIDE DEF v
<1>2. /\ v = Ui(v.event, v.sf, v.prov, v.sel, v.query, v.shownAs, v.flight, v.timers)
      /\ v.event = u.event + 1 /\ v.sf = u.sf /\ v.prov = u.prov /\ v.sel = u.sel
      /\ v.query = u.query /\ v.shownAs = u.shownAs /\ v.flight = u.flight /\ v.timers = u.timers
  BY <1>1 DEF Ui
<1>3. v.event \in 0..MaxEvent
  BY <1>2, PanesAssumption DEF UiTypeOK
<1>4. v.timers \subseteq [event : 1..v.event, query : Query, plugin : Refreshing]
  <2> SUFFICES ASSUME NEW t \in v.timers
               PROVE  t \in [event : 1..v.event, query : Query, plugin : Refreshing]
    OBVIOUS
  <2>1. t \in [event : 1..u.event, query : Query, plugin : Refreshing]
    BY <1>2 DEF UiTypeOK
  <2> QED BY <2>1, <1>2 DEF UiTypeOK
<1>5. \A p \in Pane : IsList(v.prov[p]) /\ v.prov[p].event <= v.event
  <2> SUFFICES ASSUME NEW p \in Pane PROVE IsList(v.prov[p]) /\ v.prov[p].event <= v.event
    OBVIOUS
  <2>1. IsList(u.prov[p]) /\ u.prov[p].event <= u.event /\ u.event \in Nat
    BY PanesAssumption DEF UiTypeOK
  <2> QED BY <2>1, <1>2 DEF IsList
<1>6. UiTypeOK(v)
  BY <1>2, <1>3, <1>4, <1>5 DEF UiTypeOK
<1> QED BY <1>1, <1>6 DEF v

\* A list that is as new as the counter is always accepted.
LEMMA FreshIsAccepted ==
    ASSUME NEW u, UiTypeOK(u), NEW list, list.event = u.event
    PROVE  Accepts(u, list)
<1>1. u.prov[u.sf].event <= u.event /\ u.prov[u.sf].event \in Nat /\ u.event \in Nat
  BY PanesAssumption DEF UiTypeOK, IsList
<1> QED BY <1>1 DEF Accepts

\* What is common to the operators that replace a list and the selection.
LEMMA ReplaceTyped ==
    ASSUME NEW u, UiTypeOK(u), NEW prov, NEW sel, NEW query, NEW sf \in Pane, NEW shownAs,
           NEW flight,
           prov = [p \in Pane |-> prov[p]],
           \A p \in Pane : prov[p] = u.prov[p] \/ (IsList(prov[p]) /\ prov[p].event <= u.event),
           \/ prov[ForPlugins] = u.prov[ForPlugins]
           \/ prov[ForPlugins].items \in Seq(PluginSet),
           sel \in [Pane -> Nat], query \in [Pane -> Query],
           flight \in [Search -> Searches \cup {NoSearch}]
    PROVE  UiTypeOK(Ui(u.event, sf, prov, sel, query, shownAs, flight, u.timers))
<1> DEFINE v == Ui(u.event, sf, prov, sel, query, shownAs, flight, u.timers)
<1>1. /\ v = Ui(v.event, v.sf, v.prov, v.sel, v.query, v.shownAs, v.flight, v.timers)
      /\ v.event = u.event /\ v.sf = sf /\ v.prov = prov /\ v.sel = sel
      /\ v.query = query /\ v.shownAs = shownAs /\ v.flight = flight /\ v.timers = u.timers
  BY DEF Ui
<1> HIDE DEF v
<1>2. \A p \in Pane : IsList(v.prov[p]) /\ v.prov[p].event <= v.event
  BY <1>1 DEF UiTypeOK
<1>3. \A i \in 1..Len(v.prov[ForPlugins].items) : v.prov[ForPlugins].items[i] \in PluginSet
  <2>1. CASE prov[ForPlugins] = u.prov[ForPlugins]
    BY <2>1, <1>1 DEF UiTypeOK
  <2>2. CASE prov[ForPlugins].items \in Seq(PluginSet)
    BY <2>2, <1>1
  <2> QED BY <2>1, <2>2
<1>4. UiTypeOK(v)
  BY <1>1, <1>2, <1>3 DEF UiTypeOK
<1> QED BY <1>4 DEF v

LEMMA UpdateProviderIs ==
    ASSUME NEW u, UiTypeOK(u), NEW what \in Pane, NEW list, NEW i \in Int,
           Accepts(u, list), IsList(list), list.event <= u.event,
           what = ForPlugins => list.items \in Seq(PluginSet)
    PROVE  LET v == UpdateProvider(u, what, list, i) IN
           /\ v = Ui(u.event, u.sf, [u.prov EXCEPT ![what] = list],
                     [u.sel EXCEPT ![what] = Clamp(i, Len(list.items))],
                     u.query, u.shownAs, u.flight, u.timers)
           /\ UiTypeOK(v)
<1> DEFINE v == UpdateProvider(u, what, list, i)
           prov == [u.prov EXCEPT ![what] = list]
           sel == [u.sel EXCEPT ![what] = Clamp(i, Len(list.items))]
<1>1. v = Ui(u.event, u.sf, prov, sel, u.query, u.shownAs, u.flight, u.timers)
  BY DEF UpdateProvider, UiTypeOK, Ui
<1>2. prov = [p \in Pane |-> prov[p]] /\ sel \in [Pane -> Nat]
  BY ClampRange DEF UiTypeOK, IsList
<1>3. \A p \in Pane : prov[p] = u.prov[p] \/ (IsList(prov[p]) /\ prov[p].event <= u.event)
  BY DEF UiTypeOK
<1>4. prov[ForPlugins] = u.prov[ForPlugins] \/ prov[ForPlugins].items \in Seq(PluginSet)
  BY PaneFacts DEF UiTypeOK
<1>5. u.sf \in Pane /\ u.query \in [Pane -> Query] /\ u.flight \in [Search -> Searches \cup {NoSearch}]
  BY DEF UiTypeOK
<1> HIDE DEF v, prov, sel
<1>6. UiTypeOK(v)
  BY <1>1, <1>2, <1>3, <1>4, <1>5, ReplaceTyped
<1> QED BY <1>1, <1>6 DEF v, prov, sel

LEMMA UpdateLayoutIs ==
    ASSUME NEW u, UiTypeOK(u), NEW what \in Pane
    PROVE  LET v == UpdateLayout(u, what) IN
           /\ v = Ui(u.event, what, u.prov, u.sel, u.query, u.prov[what], u.flight, u.timers)
           /\ UiTypeOK(v)
<1>1. UpdateLayout(u, what)
        = Ui(u.event, what, u.prov, u.sel, u.query, u.prov[what], u.flight, u.timers)
  <2> DEFINE rows == u.prov[what]
             w == [u EXCEPT !.sf = what]
  <2>1. w = Ui(u.event, what, u.prov, u.sel, u.query, u.shownAs, u.flight, u.timers)
    BY UiIsRecord DEF Ui
  <2> HIDE DEF rows, w
  <2>2. [w EXCEPT !.shownAs = rows]
          = Ui(u.event, what, u.prov, u.sel, u.query, rows, u.flight, u.timers)
    BY <2>1 DEF Ui
  <2> QED BY <2>2, Zenon DEF UpdateLayout, rows, w
<1>2. /\ u.prov = [p \in Pane |-> u.prov[p]]
      /\ u.sel \in [Pane -> Nat] /\ u.query \in [Pane -> Query]
      /\ u.flight \in [Search -> Searches \cup {NoSearch}]
  BY DEF UiTypeOK
<1>3. UiTypeOK(Ui(u.event, what, u.prov, u.sel, u.query, u.prov[what], u.flight, u.timers))
  BY <1>2, ReplaceTyped
<1> QED BY <1>1, <1>3

LEMMA EmptyProviderIsList ==
    ASSUME NEW e \in Nat
    PROVE  /\ IsList(EmptyProvider(e)) /\ EmptyProvider(e).event = e
           /\ EmptyProvider(e).items = <<>> /\ EmptyProvider(e).key = None
           /\ EmptyProvider(e).query = Empty
BY PanesAssumption DEF EmptyProvider, IsList, List

LEMMA ClearFromIs ==
    ASSUME NEW u, UiTypeOK(u), NEW from \in Int
    PROVE  LET v == ClearFrom(u, from) IN
           /\ v = Ui(u.event, u.sf,
                     [p \in Pane |-> IF p >= from THEN EmptyProvider(u.event) ELSE u.prov[p]],
                     [p \in Pane |-> IF p >= from THEN 0 ELSE u.sel[p]],
                     [p \in Pane |-> IF p >= from THEN Empty ELSE u.query[p]],
                     u.shownAs, u.flight, u.timers)
           /\ UiTypeOK(v)
<1> DEFINE prov == [p \in Pane |-> IF p >= from THEN EmptyProvider(u.event) ELSE u.prov[p]]
           sel == [p \in Pane |-> IF p >= from THEN 0 ELSE u.sel[p]]
           query == [p \in Pane |-> IF p >= from THEN Empty ELSE u.query[p]]
<1>0. u.event \in Nat
  BY PanesAssumption DEF UiTypeOK
<1>1. Accepts(u, EmptyProvider(u.event))
  BY <1>0, EmptyProviderIsList, FreshIsAccepted
<1>2. ClearFrom(u, from) = Ui(u.event, u.sf, prov, sel, query, u.shownAs, u.flight, u.timers)
  <2> DEFINE w == [u EXCEPT !.prov = prov]
             x == [w EXCEPT !.sel = sel]
  <2> HIDE DEF prov, sel, query
  <2>1. w = Ui(u.event, u.sf, prov, u.sel, u.query, u.shownAs, u.flight, u.timers)
    BY UiIsRecord DEF Ui
  <2> HIDE DEF w
  <2>2. x = Ui(u.event, u.sf, prov, sel, u.query, u.shownAs, u.flight, u.timers)
    BY <2>1 DEF Ui
  <2> HIDE DEF x
  <2>3. [x EXCEPT !.query = query] = Ui(u.event, u.sf, prov, sel, query, u.shownAs, u.flight, u.timers)
    BY <2>2 DEF Ui
  <2>4. ClearFrom(u, from) = [u EXCEPT !.prov = prov, !.sel = sel, !.query = query]
    BY <1>1, Zenon DEF ClearFrom, prov, sel, query
  <2> QED BY <2>3, <2>4, Zenon DEF w, x
<1>3. \A p \in Pane : prov[p] = u.prov[p] \/ (IsList(prov[p]) /\ prov[p].event <= u.event)
  BY <1>0, EmptyProviderIsList
<1>4. prov[ForPlugins] = u.prov[ForPlugins] \/ prov[ForPlugins].items \in Seq(PluginSet)
  <2>1. ForPlugins \in Pane /\ <<>> \in Seq(PluginSet)
    BY PaneFacts
  <2> QED BY <1>0, <2>1, EmptyProviderIsList
<1>5. /\ prov = [p \in Pane |-> prov[p]] /\ sel \in [Pane -> Nat] /\ query \in [Pane -> Query]
      /\ u.sf \in Pane /\ u.flight \in [Search -> Searches \cup {NoSearch}]
  BY PanesAssumption DEF UiTypeOK
<1> HIDE DEF prov, sel, query
<1>6. UiTypeOK(Ui(u.event, u.sf, prov, sel, query, u.shownAs, u.flight, u.timers))
  BY <1>3, <1>4, <1>5, ReplaceTyped
<1> QED BY <1>2, <1>6 DEF prov, sel, query

LEMMA FreshListIs ==
    ASSUME NEW u, UiTypeOK(u), u.event < MaxEvent, NEW what \in Pane, NEW list, IsList(list),
           list.event = u.event + 1, what = ForPlugins => list.items \in Seq(PluginSet),
           NEW v, v = UpdateLayout(UpdateProvider(Increment(u), what, list, 0), what)
    PROVE  /\ UiTypeOK(v)
           /\ v.event = u.event + 1 /\ v.sf = what /\ v.query = u.query /\ v.flight = u.flight
           /\ v.timers = u.timers /\ v.shownAs = list
           /\ v.prov[what] = list /\ v.sel[what] = 0
           /\ \A p \in Pane : p # what => v.prov[p] = u.prov[p] /\ v.sel[p] = u.sel[p]
<1> DEFINE w == Increment(u)
           x == UpdateProvider(w, what, list, 0)
<1>1. /\ w = Ui(u.event + 1, u.sf, u.prov, u.sel, u.query, u.shownAs, u.flight, u.timers)
      /\ UiTypeOK(w)
  BY IncrementIs
<1>2. v = UpdateLayout(x, what)
  OBVIOUS
<1> HIDE DEF w
<1>3. /\ w.event = u.event + 1 /\ w.prov = u.prov /\ w.sel = u.sel
      /\ w.query = u.query /\ w.flight = u.flight /\ w.timers = u.timers
  BY <1>1 DEF Ui
<1>4. Len(list.items) \in Nat /\ list.event \in Nat
  BY DEF IsList
<1>5. Accepts(w, list) /\ list.event <= w.event /\ Clamp(0, Len(list.items)) = 0
  BY <1>1, <1>3, <1>4, FreshIsAccepted, ClampZero
<1>6. /\ x = Ui(w.event, w.sf, [w.prov EXCEPT ![what] = list], [w.sel EXCEPT ![what] = 0],
                w.query, w.shownAs, w.flight, w.timers)
      /\ UiTypeOK(x)
  BY <1>1, <1>5, UpdateProviderIs
<1> HIDE DEF x
<1>7. /\ x.event = w.event /\ x.query = w.query /\ x.flight = w.flight /\ x.timers = w.timers
      /\ x.prov = [w.prov EXCEPT ![what] = list]
      /\ x.sel = [w.sel EXCEPT ![what] = 0]
  BY <1>6 DEF Ui
<1>8. /\ v = Ui(x.event, what, x.prov, x.sel, x.query, x.prov[what], x.flight, x.timers)
      /\ UiTypeOK(v)
  BY <1>2, <1>6, UpdateLayoutIs
<1>9. /\ v.event = x.event /\ v.sf = what /\ v.query = x.query /\ v.flight = x.flight
      /\ v.timers = x.timers /\ v.shownAs = x.prov[what]
      /\ v.prov = x.prov /\ v.sel = x.sel
  BY <1>8 DEF Ui
<1>10. v.prov = [u.prov EXCEPT ![what] = list] /\ v.sel = [u.sel EXCEPT ![what] = 0]
  BY <1>3, <1>7, <1>9
<1>11. u.prov = [p \in Pane |-> u.prov[p]] /\ u.sel \in [Pane -> Nat]
  BY DEF UiTypeOK
<1>12. /\ v.prov[what] = list /\ v.sel[what] = 0
       /\ \A p \in Pane : p # what => v.prov[p] = u.prov[p] /\ v.sel[p] = u.sel[p]
  BY <1>10, <1>11
<1> QED BY <1>3, <1>7, <1>8, <1>9, <1>12

LEMMA ExecuteSearchIs ==
    ASSUME NEW u, UiTypeOK(u), u.event # 0, NEW q \in Query, NEW plg \in PluginSet \cup {None}
    PROVE  LET v == ExecuteSearch(u, q, plg) IN
           /\ v = Ui(u.event, u.sf, u.prov, u.sel, u.query, u.shownAs,
                     [u.flight EXCEPT ![u.event] = [query |-> q, plugin |-> plg]], u.timers)
           /\ UiTypeOK(v)
<1> DEFINE flight == [u.flight EXCEPT ![u.event] = [query |-> q, plugin |-> plg]]
<1>1. flight \in [Search -> Searches \cup {NoSearch}]
  BY DEF UiTypeOK, Searches
<1>2. ExecuteSearch(u, q, plg)
        = Ui(u.event, u.sf, u.prov, u.sel, u.query, u.shownAs, flight, u.timers)
  BY UiIsRecord DEF ExecuteSearch, Ui
<1>3. /\ u.sf \in Pane /\ u.prov = [p \in Pane |-> u.prov[p]]
      /\ u.sel \in [Pane -> Nat] /\ u.query \in [Pane -> Query]
  BY DEF UiTypeOK
<1> HIDE DEF flight
<1>4. UiTypeOK(Ui(u.event, u.sf, u.prov, u.sel, u.query, u.shownAs, flight, u.timers))
  BY <1>1, <1>3, ReplaceTyped
<1> QED BY <1>2, <1>4 DEF flight

LEMMA SetupTimeoutIs ==
    ASSUME NEW u, UiTypeOK(u), u.event # 0, NEW q \in Query, NEW plg
    PROVE  LET v == SetupTimeout(u, q, plg) IN
           /\ v = Ui(u.event, u.sf, u.prov, u.sel, u.query, u.shownAs, u.flight,
                     IF plg \in Refreshing
                     THEN u.timers \cup {[event |-> u.event, query |-> q, plugin |-> plg]}
                     ELSE u.timers)
           /\ UiTypeOK(v)
<1> DEFINE v == SetupTimeout(u, q, plg)
<1>1. CASE plg \in Refreshing
  <2> DEFINE timers == u.timers \cup {[event |-> u.event, query |-> q, plugin |-> plg]}
  <2>1. v = Ui(u.event, u.sf, u.prov, u.sel, u.query, u.shownAs, u.flight, timers)
    BY <1>1, UiIsRecord DEF SetupTimeout, Ui
  <2>2. timers \subseteq [event : 1..u.event, query : Query, plugin : Refreshing]
    <3>1. u.event \in 1..u.event
      BY PanesAssumption DEF UiTypeOK
    <3> QED BY <1>1, <3>1 DEF UiTypeOK
  <2> HIDE DEF v, timers
  <2>3. /\ v = Ui(v.event, v.sf, v.prov, v.sel, v.query, v.shownAs, v.flight, v.timers)
        /\ v.event = u.event /\ v.sf = u.sf /\ v.prov = u.prov /\ v.sel = u.sel
        /\ v.query = u.query /\ v.flight = u.flight /\ v.timers = timers
    BY <2>1 DEF Ui
  <2>4. UiTypeOK(v)
    BY <2>2, <2>3 DEF UiTypeOK
  <2> QED BY <1>1, <2>1, <2>4 DEF v, timers
<1>2. CASE plg \notin Refreshing
  BY <1>2, UiIsRecord DEF SetupTimeout
<1> QED BY <1>1, <1>2

-----------------------------------------------------------------------------
(* The searches.  Ready is what controller_start_search finds, Settled what *)
(* it leaves behind: the invariant, but for the rows when the answer is     *)
(* still to come.                                                           *)

ChoicesIn(u) ==
    /\ u.sf \in {ForActions, ForTargets} => ActionsMatch(u)
    /\ u.sf = ForTargets => TargetMatches(u)

Settled(u) ==
    /\ UiTypeOK(u) /\ SelectionInRange(u) /\ TimerIsCurrent(u) /\ NothingAhead(u)
    /\ SearchesAreOld(u) /\ SearchIsCurrent(u) /\ ChoicesIn(u)

Offers(u) ==
    /\ ActionsMatch(u)
    /\ Selected(u, ForActions) # None /\ IsActionTarget(Selected(u, ForActions))

LiveAreOld(u) ==
    \A e \in Search : u.flight[e] # NoSearch => e <= u.event /\ e # u.prov[ForSources].event

Ready(u) ==
    /\ UiTypeOK(u) /\ u.event < MaxEvent
    /\ SelectionInRange(u) /\ NothingAhead(u) /\ LiveAreOld(u)
    /\ u.sf = ForActions => Selected(u, ForSources) # None
    /\ u.sf = ForTargets => Offers(u)

\* What a search does that the contract can see.
Issues(u, v) ==
    /\ v.event = u.event + 1
    /\ v.prov[ForSources].event \in {u.prov[ForSources].event, v.event}
    /\ \/ v.flight = u.flight
       \/ /\ v.sf = ForSources /\ v.prov = u.prov
          /\ \E r \in Searches : v.flight = [u.flight EXCEPT ![v.event] = r]

LEMMA SelectedSame ==
    ASSUME NEW u, NEW v, NEW p, u.prov[p] = v.prov[p], u.sel[p] = v.sel[p]
    PROVE  Selected(u, p) = Selected(v, p)
BY DEF Selected

LEMMA SelectedPluginType ==
    ASSUME NEW u, UiTypeOK(u)
    PROVE  SelectedPlugin(u) \in PluginSet \cup {None}
<1>1. CASE Selected(u, ForPlugins) = None
  BY <1>1 DEF SelectedPlugin
<1>2. CASE Selected(u, ForPlugins) # None
  <2>1. /\ u.sel[ForPlugins] < Len(u.prov[ForPlugins].items)
        /\ Selected(u, ForPlugins) = [list |-> u.prov[ForPlugins], index |-> u.sel[ForPlugins]]
    BY <1>2 DEF Selected
  <2>2. u.sel[ForPlugins] \in Nat /\ Len(u.prov[ForPlugins].items) \in Nat
    BY PaneFacts DEF UiTypeOK, IsList
  <2>3. u.sel[ForPlugins] + 1 \in 1..Len(u.prov[ForPlugins].items)
    BY <2>1, <2>2
  <2>4. SelectedPlugin(u) = u.prov[ForPlugins].items[u.sel[ForPlugins] + 1]
    BY <1>2, <2>1 DEF SelectedPlugin, Item
  <2> QED BY <2>3, <2>4 DEF UiTypeOK
<1> QED BY <1>1, <1>2

LEMMA SearchSourcesSettles ==
    ASSUME NEW u, Ready(u), u.sf = ForSources, NEW v,
           v = SearchSources(Increment(u), u.query[ForSources])
    PROVE  /\ Settled(v) /\ Issues(u, v)
           /\ v.sf = ForSources
           /\ RowsAreCurrent(v) \/ (v.prov = u.prov /\ v.shownAs = u.shownAs)
<1> DEFINE w == Increment(u)
           q == u.query[ForSources]
           plg == SelectedPlugin(w)
<1>0. UiTypeOK(u) /\ u.event < MaxEvent /\ u.event \in Nat /\ MaxEvent \in Nat
  BY EventIsNat DEF Ready
<1>1. /\ w = Ui(u.event + 1, u.sf, u.prov, u.sel, u.query, u.shownAs, u.flight, u.timers)
      /\ UiTypeOK(w)
  BY <1>0, IncrementIs
<1> HIDE DEF w
<1>2. /\ w.event = u.event + 1 /\ w.sf = u.sf /\ w.prov = u.prov /\ w.sel = u.sel
      /\ w.query = u.query /\ w.shownAs = u.shownAs /\ w.flight = u.flight /\ w.timers = u.timers
  BY <1>1 DEF Ui
<1>3. q \in Query /\ plg \in PluginSet \cup {None} /\ plg = SelectedPlugin(u)
  BY <1>0, <1>1, <1>2, SelectedPluginType, PaneFacts DEF UiTypeOK, SelectedPlugin, Selected
<1>4. v = IF plg = None /\ q = Empty
          THEN UpdateLayout(UpdateProvider(w, ForSources, EmptyProvider(w.event), 0), ForSources)
          ELSE SetupTimeout(ExecuteSearch(w, q, plg), q, plg)
  BY DEF SearchSources, w
<1>5. \A t \in u.timers : t.event \in Nat /\ t.event < w.event
  BY <1>0, <1>2 DEF UiTypeOK
<1>6. /\ \A e \in Search : e \in Nat /\ (u.flight[e] # NoSearch => e < w.event)
      /\ LiveAreOld(u) /\ SelectionInRange(u) /\ NothingAhead(u)
  BY <1>0, <1>2 DEF Ready, LiveAreOld, Search
<1>7. w.event \in Search /\ u.flight \in [Search -> Searches \cup {NoSearch}]
  BY <1>0, <1>2 DEF Search, UiTypeOK
<1> USE PaneFacts
<1>8. CASE plg = None /\ q = Empty
  <2> DEFINE empty == EmptyProvider(w.event)
  <2>1. IsList(empty) /\ empty.event = w.event /\ empty.items = <<>> /\ empty.key = None
        /\ empty.query = Empty
    BY <1>0, <1>2, EmptyProviderIsList
  <2>2. v = UpdateLayout(UpdateProvider(Increment(u), ForSources, empty, 0), ForSources)
    BY <1>4, <1>8 DEF w
  <2> HIDE DEF empty
  <2>4. /\ UiTypeOK(v)
        /\ v.event = u.event + 1 /\ v.sf = ForSources /\ v.query = u.query
        /\ v.flight = u.flight /\ v.timers = u.timers /\ v.shownAs = empty
        /\ v.prov[ForSources] = empty /\ v.sel[ForSources] = 0
        /\ \A p \in Pane : p # ForSources => v.prov[p] = u.prov[p] /\ v.sel[p] = u.sel[p]
    BY <1>0, <1>2, <2>1, <2>2, FreshListIs
  <2>5. v.event = w.event /\ v.sf = ForSources /\ v.query = u.query /\ v.flight = u.flight
        /\ v.timers = u.timers /\ v.shownAs = v.prov[ForSources]
    BY <1>2, <2>4
  <2>6. v.prov[ForSources] = empty /\ v.sel[ForSources] = 0
        /\ \A p \in Pane : p # ForSources => v.prov[p] = u.prov[p] /\ v.sel[p] = u.sel[p]
    BY <2>4
  <2>7. SelectedPlugin(v) = plg /\ Selected(v, ForPlugins) = Selected(u, ForPlugins)
    BY <1>3, <2>6 DEF SelectedPlugin, Selected
  <2>8. SelectionInRange(v) /\ RowsAreCurrent(v) /\ NothingAhead(v) /\ ChoicesIn(v)
    BY <1>6, <2>5, <2>6, <2>7
    DEF SelectionInRange, RowsAreCurrent, NothingAhead, ChoicesIn
  <2>9. TimerIsCurrent(v)
    BY <1>5, <2>5 DEF TimerIsCurrent
  <2>10. SearchesAreOld(v) /\ SearchIsCurrent(v)
    <3>1. u.flight[w.event] = NoSearch
      BY <1>6, <1>7
    <3> QED BY <1>0, <1>2, <1>6, <1>8, <2>1, <2>5, <2>6, <2>7, <3>1 DEF SearchesAreOld, SearchIsCurrent
  <2>11. Issues(u, v)
    BY <1>2, <2>1, <2>5, <2>6 DEF Issues
  <2> QED BY <2>4, <2>5, <2>8, <2>9, <2>10, <2>11 DEF Settled
<1>9. CASE ~ (plg = None /\ q = Empty)
  <2> DEFINE r == [query |-> q, plugin |-> plg]
             x == ExecuteSearch(w, q, plg)
             t0 == [event |-> w.event, query |-> q, plugin |-> plg]
  <2>1. /\ x = Ui(w.event, w.sf, w.prov, w.sel, w.query, w.shownAs,
                  [w.flight EXCEPT ![w.event] = r], w.timers)
        /\ UiTypeOK(x)
    BY <1>0, <1>1, <1>2, <1>3, ExecuteSearchIs
  <2>2. r \in Searches /\ r # NoSearch
    BY <1>3, PanesAssumption DEF Searches
  <2> HIDE DEF x, r, t0
  <2>3. x.event = w.event /\ x.event # 0
    BY <1>0, <1>2, <2>1 DEF Ui
  <2>4. /\ v = Ui(x.event, x.sf, x.prov, x.sel, x.query, x.shownAs, x.flight,
                  IF plg \in Refreshing THEN x.timers \cup {t0} ELSE x.timers)
        /\ UiTypeOK(v)
    <3>1. v = SetupTimeout(x, q, plg)
      BY <1>4, <1>9 DEF x
    <3>2. t0 = [event |-> x.event, query |-> q, plugin |-> plg]
      BY <2>3 DEF t0
    <3> HIDE DEF q, plg
    <3> QED BY <1>3, <2>1, <2>3, <3>1, <3>2, SetupTimeoutIs
  <2>5. /\ v.event = w.event /\ v.sf = ForSources /\ v.query = u.query
        /\ v.flight = [u.flight EXCEPT ![w.event] = r]
        /\ v.timers \subseteq u.timers \cup {t0} /\ v.shownAs = u.shownAs
        /\ v.prov = u.prov /\ v.sel = u.sel
    BY <1>2, <2>1, <2>4 DEF Ui
  <2>6. SelectedPlugin(v) = plg /\ Selected(v, ForPlugins) = Selected(u, ForPlugins)
    BY <1>3, <2>5 DEF SelectedPlugin, Selected
  <2>7. SelectionInRange(v) /\ NothingAhead(v) /\ ChoicesIn(v)
    BY <1>6, <2>5, <2>6 DEF SelectionInRange, NothingAhead, ChoicesIn
  <2>8. TimerIsCurrent(v)
    <3>1. t0.event = w.event /\ t0.query = q /\ t0.plugin = plg
      BY DEF t0
    <3>2. \A t \in v.timers : t.event = w.event => t = t0
      BY <1>5, <2>5
    <3> QED BY <2>5, <2>6, <3>1, <3>2 DEF TimerIsCurrent
  <2>9. SearchesAreOld(v) /\ SearchIsCurrent(v)
    <3>1. v.flight[w.event] = r /\ \A e \in Search : e # w.event => v.flight[e] = u.flight[e]
      BY <1>7, <2>5
    <3>2. u.prov[ForSources].event <= u.event /\ u.prov[ForSources].event \in Nat
      BY <1>0 DEF UiTypeOK, IsList
    <3>3. SearchesAreOld(v)
      BY <1>0, <1>2, <1>6, <2>5, <3>1, <3>2 DEF SearchesAreOld, LiveAreOld
    <3>4. SearchIsCurrent(v)
      BY <1>0, <1>2, <2>2, <2>5, <2>6, <3>1 DEF SearchIsCurrent, r
    <3> QED BY <3>3, <3>4
  <2>10. Issues(u, v)
    BY <1>2, <2>2, <2>5 DEF Issues
  <2> QED BY <2>4, <2>5, <2>7, <2>8, <2>9, <2>10 DEF Settled
<1> QED BY <1>8, <1>9

\* What the three searches that answer at once have in common.
LEMMA FreshSettles ==
    ASSUME NEW u, UiTypeOK(u), u.event < MaxEvent, SelectionInRange(u), LiveAreOld(u),
           NEW what \in Pane \ {ForSources}, NEW list, IsList(list), list.event = u.event + 1,
           what = ForPlugins => list.items \in Seq(PluginSet),
           NEW v, v = UpdateLayout(UpdateProvider(Increment(u), what, list, 0), what)
    PROVE  /\ UiTypeOK(v) /\ SelectionInRange(v) /\ TimerIsCurrent(v)
           /\ SearchesAreOld(v) /\ SearchIsCurrent(v) /\ RowsAreCurrent(v) /\ Issues(u, v)
           /\ v.sf = what /\ v.query = u.query /\ v.prov[what] = list
           /\ \A p \in Pane : p # what => /\ v.prov[p] = u.prov[p] /\ v.sel[p] = u.sel[p]
                                         /\ Selected(v, p) = Selected(u, p)
<1>0. u.event \in Nat /\ ForSources \in Pane
  BY EventIsNat, PaneFacts
<1>1. /\ UiTypeOK(v)
      /\ v.event = u.event + 1 /\ v.sf = what /\ v.query = u.query /\ v.flight = u.flight
      /\ v.timers = u.timers /\ v.shownAs = list
      /\ v.prov[what] = list /\ v.sel[what] = 0
      /\ \A p \in Pane : p # what => v.prov[p] = u.prov[p] /\ v.sel[p] = u.sel[p]
  BY FreshListIs
<1>2. \A p \in Pane : p # what => Selected(v, p) = Selected(u, p)
  BY <1>1, SelectedSame
<1>3. SelectionInRange(v) /\ RowsAreCurrent(v)
  BY <1>1 DEF SelectionInRange, RowsAreCurrent
<1>4. TimerIsCurrent(v)
  <2>1. \A t \in u.timers : t.event \in Nat /\ t.event <= u.event
    BY <1>0 DEF UiTypeOK
  <2> QED BY <1>0, <1>1, <2>1 DEF TimerIsCurrent
<1>5. SearchesAreOld(v)
  <2>1. \A e \in Search : e \in Nat
    BY EventIsNat DEF Search
  <2> QED BY <1>0, <1>1, <2>1 DEF SearchesAreOld, LiveAreOld
<1>6. SearchIsCurrent(v) /\ Issues(u, v)
  BY <1>0, <1>1 DEF SearchIsCurrent, Issues
<1> QED BY <1>1, <1>2, <1>3, <1>4, <1>5, <1>6

LEMMA SearchPluginsSettles ==
    ASSUME NEW u, Ready(u), u.sf = ForPlugins, NEW q \in Query, NEW items \in Seq(PluginSet),
           NEW v, v = SearchPlugins(Increment(u), q, items)
    PROVE  Settled(v) /\ Issues(u, v) /\ v.sf = ForPlugins /\ RowsAreCurrent(v)
<1> DEFINE list == List(Increment(u).event, None, q, items)
<1>0. /\ UiTypeOK(u) /\ u.event < MaxEvent /\ SelectionInRange(u) /\ LiveAreOld(u)
      /\ u.event \in Nat
  BY EventIsNat DEF Ready
<1>1. Increment(u).event = u.event + 1
  BY <1>0, IncrementIs DEF Ui
<1>2. IsList(list) /\ list.event = u.event + 1 /\ list.items \in Seq(PluginSet)
  BY <1>0, <1>1 DEF IsList, List
<1>3. v = UpdateLayout(UpdateProvider(Increment(u), ForPlugins, list, 0), ForPlugins)
  BY DEF SearchPlugins
<1> HIDE DEF list
<1>4. ForPlugins \in Pane \ {ForSources}
  BY PaneFacts
<1>5. /\ UiTypeOK(v) /\ SelectionInRange(v) /\ TimerIsCurrent(v)
      /\ SearchesAreOld(v) /\ SearchIsCurrent(v) /\ RowsAreCurrent(v) /\ Issues(u, v)
      /\ v.sf = ForPlugins /\ v.query = u.query /\ v.prov[ForPlugins] = list
      /\ \A p \in Pane : p # ForPlugins => /\ v.prov[p] = u.prov[p] /\ v.sel[p] = u.sel[p]
                                          /\ Selected(v, p) = Selected(u, p)
  BY <1>0, <1>2, <1>3, <1>4, FreshSettles
<1>6. NothingAhead(v) /\ ChoicesIn(v)
  BY <1>5, PaneFacts DEF Ready, NothingAhead, ChoicesIn
<1> QED BY <1>5, <1>6 DEF Settled

LEMMA SearchActionsSettles ==
    ASSUME NEW u, Ready(u), u.sf = ForActions, NEW q \in Query, NEW items \in ActionLists,
           NEW v, v = SearchActions(Increment(u), q, items)
    PROVE  Settled(v) /\ Issues(u, v) /\ v.sf = ForActions /\ RowsAreCurrent(v)
<1> DEFINE w == Increment(u)
           list == List(w.event, Selected(w, ForSources), q, items)
<1>0. /\ UiTypeOK(u) /\ u.event < MaxEvent /\ SelectionInRange(u) /\ LiveAreOld(u)
      /\ u.event \in Nat /\ Selected(u, ForSources) # None
  BY EventIsNat DEF Ready
<1>1. w.event = u.event + 1 /\ w.prov = u.prov /\ w.sel = u.sel
  BY <1>0, IncrementIs DEF Ui
<1>2. Selected(w, ForSources) = Selected(u, ForSources)
  BY <1>1, SelectedSame
<1>3. v = UpdateLayout(UpdateProvider(w, ForActions, list, 0), ForActions)
  BY <1>0, <1>2 DEF SearchActions
<1>4. IsList(list) /\ list.event = u.event + 1 /\ list.key = Selected(u, ForSources)
  <2>1. Len(items) \in Nat
    BY PanesAssumption
  <2> HIDE DEF w
  <2> QED BY <1>0, <1>1, <1>2, <2>1 DEF IsList, List
<1>5. ForActions \in Pane \ {ForSources} /\ ForActions # ForPlugins
  BY PaneFacts
<1>6. v = UpdateLayout(UpdateProvider(Increment(u), ForActions, list, 0), ForActions)
  BY <1>3
<1> HIDE DEF list, w
<1>7. /\ UiTypeOK(v) /\ SelectionInRange(v) /\ TimerIsCurrent(v)
      /\ SearchesAreOld(v) /\ SearchIsCurrent(v) /\ RowsAreCurrent(v) /\ Issues(u, v)
      /\ v.sf = ForActions /\ v.query = u.query /\ v.prov[ForActions] = list
      /\ \A p \in Pane : p # ForActions => /\ v.prov[p] = u.prov[p] /\ v.sel[p] = u.sel[p]
                                          /\ Selected(v, p) = Selected(u, p)
  BY <1>0, <1>4, <1>5, <1>6, FreshSettles
<1>8. NothingAhead(v) /\ ChoicesIn(v)
  BY <1>0, <1>4, <1>7, PaneFacts DEF Ready, NothingAhead, ChoicesIn, ActionsMatch
<1> QED BY <1>7, <1>8 DEF Settled

\* From the pane of the actions too, when one that needs a target is executed.
LEMMA SearchTargetsSettles ==
    ASSUME NEW u, UiTypeOK(u), u.event < MaxEvent, SelectionInRange(u), NothingAhead(u),
           LiveAreOld(u), u.sf # ForPlugins, Offers(u),
           NEW q, q = u.query[ForTargets], NEW items \in {<<"target">>},
           NEW v, v = SearchTargets(Increment(u), q, items)
    PROVE  Settled(v) /\ Issues(u, v) /\ v.sf = ForTargets /\ RowsAreCurrent(v)
<1> DEFINE w == Increment(u)
           list == List(w.event, Selected(w, ForActions), q, items)
<1>0. u.event \in Nat /\ q \in Query
  BY EventIsNat, PaneFacts DEF UiTypeOK
<1>1. w.event = u.event + 1 /\ w.prov = u.prov /\ w.sel = u.sel
  BY <1>0, IncrementIs DEF Ui
<1>2. Selected(w, ForActions) = Selected(u, ForActions)
  BY <1>1, SelectedSame
<1>3. v = UpdateLayout(UpdateProvider(Increment(u), ForTargets, list, 0), ForTargets)
  BY DEF SearchTargets
<1>4. /\ IsList(list) /\ list.event = u.event + 1 /\ list.key = Selected(u, ForActions)
      /\ list.query = q
  <2>1. Len(items) \in Nat
    OBVIOUS
  <2> HIDE DEF w
  <2> QED BY <1>0, <1>1, <1>2, <2>1 DEF IsList, List
<1>5. ForTargets \in Pane \ {ForSources} /\ ForTargets # ForPlugins
  BY PaneFacts
<1> HIDE DEF list, w
<1>7. /\ UiTypeOK(v) /\ SelectionInRange(v) /\ TimerIsCurrent(v)
      /\ SearchesAreOld(v) /\ SearchIsCurrent(v) /\ RowsAreCurrent(v) /\ Issues(u, v)
      /\ v.sf = ForTargets /\ v.query = u.query /\ v.prov[ForTargets] = list
      /\ \A p \in Pane : p # ForTargets => /\ v.prov[p] = u.prov[p] /\ v.sel[p] = u.sel[p]
                                          /\ Selected(v, p) = Selected(u, p)
  BY <1>4, <1>5, <1>3, FreshSettles
<1>8. NothingAhead(v)
  BY <1>7, PaneFacts DEF NothingAhead
<1>9. ChoicesIn(v)
  BY <1>4, <1>7, PaneFacts DEF ChoicesIn, Offers, ActionsMatch, TargetMatches
<1> QED BY <1>7, <1>8, <1>9 DEF Settled

\* controller_start_search, in whatever pane the user is.
LEMMA StartSearchSettles ==
    ASSUME NEW u, Ready(u), NEW v \in StartSearch(u, u.query[u.sf])
    PROVE  /\ Settled(v) /\ Issues(u, v) /\ v.sf = u.sf
           /\ \/ RowsAreCurrent(v)
              \/ u.sf = ForSources /\ v.prov = u.prov /\ v.shownAs = u.shownAs
<1> DEFINE w == Increment(u)
           q == u.query[u.sf]
<1>0. UiTypeOK(u) /\ u.event < MaxEvent /\ u.sf \in Pane /\ q \in Query
  BY DEF Ready, UiTypeOK
<1>1. w.sf = u.sf
  BY <1>0, IncrementIs DEF Ui
<1>2. PICK items \in Lists(u.sf, q) :
         v = CASE u.sf = ForPlugins -> SearchPlugins(w, q, items)
               [] u.sf = ForSources -> SearchSources(w, q)
               [] u.sf = ForActions -> SearchActions(w, q, items)
               [] u.sf = ForTargets -> SearchTargets(w, q, items)
  BY <1>1 DEF StartSearch
<1>3. CASE u.sf = ForPlugins
  <2>1. items \in Seq(PluginSet)
    <3>1. items \in {Plugins} \/ items \in PluginLists
      BY <1>2, <1>3, PaneFacts DEF Lists
    <3> QED BY <3>1, PanesAssumption
  <2>2. v = SearchPlugins(w, q, items)
    BY <1>2, <1>3, PaneFacts
  <2> QED BY <1>0, <1>3, <2>1, <2>2, SearchPluginsSettles
<1>4. CASE u.sf = ForSources
  <2>1. v = SearchSources(w, q)
    BY <1>2, <1>4, PaneFacts
  <2> QED BY <1>4, <2>1, SearchSourcesSettles
<1>5. CASE u.sf = ForActions
  <2>1. items \in ActionLists /\ v = SearchActions(w, q, items)
    BY <1>2, <1>5, PaneFacts DEF Lists
  <2> QED BY <1>0, <1>5, <2>1, SearchActionsSettles
<1>6. CASE u.sf = ForTargets
  <2>1. items \in {<<"target">>} /\ v = SearchTargets(w, q, items)
    BY <1>2, <1>6, PaneFacts DEF Lists
  <2>2. SelectionInRange(u) /\ NothingAhead(u) /\ LiveAreOld(u) /\ Offers(u) /\ u.sf # ForPlugins
    BY <1>6, PaneFacts DEF Ready
  <2> QED BY <1>0, <1>6, <2>1, <2>2, SearchTargetsSettles
<1> QED BY <1>0, <1>3, <1>4, <1>5, <1>6, PaneFacts

-----------------------------------------------------------------------------
(* The handlers that edit, move and select.                                *)

PanesOK(u) == UiInv(u) /\ ChoicesIn(u)

\* What a handler does that the contract can see.
Handles(u, v) ==
    /\ v.event \in u.event..MaxEvent
    /\ v.prov[ForSources].event \in {u.prov[ForSources].event} \cup (u.event + 1..v.event)
    /\ u.sf = ForSources /\ v.sf # ForSources => v.event > u.event
    /\ \/ v.flight = u.flight
       \/ /\ v.event > u.event
          /\ v.prov[ForSources].event # v.event
          /\ v.sf = ForSources
          /\ \E r \in Searches : v.flight = [u.flight EXCEPT ![v.event] = r]

LEMMA PanesOKIs ==
    ASSUME NEW u PROVE PanesOK(u) <=> Settled(u) /\ RowsAreCurrent(u)
BY DEF PanesOK, UiInv, Settled

LEMMA ReadyWhenOK ==
    ASSUME NEW u, PanesOK(u), u.event < MaxEvent PROVE Ready(u)
BY DEF PanesOK, UiInv, Ready, SearchesAreOld, LiveAreOld, ChoicesIn, ActionsMatch,
       TargetMatches, Offers

\* Every search is issued by a handler, which may have moved on before.
LEMMA IssuesHandles ==
    ASSUME NEW u, NEW w, NEW v, UiTypeOK(u), UiTypeOK(w), UiTypeOK(v), Issues(w, v),
           w.flight = u.flight, w.event >= u.event,
           w.prov[ForSources].event \in {u.prov[ForSources].event} \cup (u.event + 1..w.event)
    PROVE  Handles(u, v)
<1>1. /\ u.event \in Nat /\ w.event \in Nat /\ v.event \in Nat /\ MaxEvent \in Nat
      /\ v.event <= MaxEvent
  BY EventIsNat
<1>2. w.prov[ForSources].event \in Nat /\ w.prov[ForSources].event <= w.event
  BY PaneFacts DEF UiTypeOK, IsList
<1>3. v.event = w.event + 1 /\ v.prov[ForSources].event \in {w.prov[ForSources].event, v.event}
  BY DEF Issues
<1>4. /\ v.event \in u.event..MaxEvent /\ v.event > u.event
      /\ v.prov[ForSources].event \in {u.prov[ForSources].event} \cup (u.event + 1..v.event)
  BY <1>1, <1>3
<1>5. \/ v.flight = u.flight
      \/ /\ v.prov[ForSources].event # v.event /\ v.sf = ForSources
         /\ \E r \in Searches : v.flight = [u.flight EXCEPT ![v.event] = r]
  BY <1>1, <1>2, <1>3 DEF Issues
<1> QED BY <1>4, <1>5 DEF Handles

LEMMA EditKeeps ==
    ASSUME NEW u, Ready(u), RowsAreCurrent(u), NEW q \in Query, NEW v \in Edit(u, q)
    PROVE  PanesOK(v) /\ Issues(u, v) /\ v.sf = u.sf
<1> DEFINE w == [u EXCEPT !.query[u.sf] = q]
           query == [u.query EXCEPT ![u.sf] = q]
<1>0. UiTypeOK(u) /\ u.sf \in Pane /\ u.query \in [Pane -> Query] /\ query \in [Pane -> Query]
  BY DEF Ready, UiTypeOK
<1>1. w = Ui(u.event, u.sf, u.prov, u.sel, query, u.shownAs, u.flight, u.timers)
  BY <1>0, UiIsRecord DEF Ui
<1>2. query[u.sf] = q /\ \A p \in Pane : p # u.sf => query[p] = u.query[p]
  BY <1>0
<1>3. v \in StartSearch(w, q)
  BY DEF Edit
<1> HIDE DEF w, query
<1>4. UiTypeOK(w)
  <2>1. /\ u.prov = [p \in Pane |-> u.prov[p]] /\ u.sel \in [Pane -> Nat]
        /\ u.flight \in [Search -> Searches \cup {NoSearch}]
    BY <1>0 DEF UiTypeOK
  <2> QED BY <1>0, <1>1, <2>1, ReplaceTyped
<1>5. /\ w.event = u.event /\ w.sf = u.sf /\ w.prov = u.prov /\ w.sel = u.sel
      /\ w.query = query /\ w.shownAs = u.shownAs /\ w.flight = u.flight /\ w.timers = u.timers
  BY <1>1 DEF Ui
<1>6. \A p \in Pane : Selected(w, p) = Selected(u, p)
  BY <1>5, SelectedSame
<1>7. Ready(w)
  <2>1. SelectionInRange(w) /\ LiveAreOld(w) /\ w.event < MaxEvent
    BY <1>5 DEF Ready, SelectionInRange, LiveAreOld
  <2>2. NothingAhead(w)
    <3>1. \A p \in Pane : p > w.sf => w.query[p] = Empty
      BY <1>0, <1>2, <1>5, PaneFacts DEF Ready, NothingAhead
    <3> QED BY <1>0, <1>2, <1>5, <1>6, <3>1, PaneFacts DEF Ready, NothingAhead
  <2>3. /\ w.sf = ForActions => Selected(w, ForSources) # None
        /\ w.sf = ForTargets => Offers(w)
    BY <1>5, <1>6, PaneFacts DEF Ready, Offers, ActionsMatch
  <2> QED BY <1>4, <2>1, <2>2, <2>3 DEF Ready
<1>8. v \in StartSearch(w, w.query[w.sf])
  BY <1>2, <1>3, <1>5
<1>9. /\ Settled(v) /\ Issues(w, v) /\ v.sf = w.sf
      /\ RowsAreCurrent(v) \/ (w.sf = ForSources /\ v.prov = w.prov /\ v.shownAs = w.shownAs)
  BY <1>7, <1>8, StartSearchSettles
<1>10. RowsAreCurrent(v)
  BY <1>5, <1>9 DEF RowsAreCurrent
<1>11. Issues(u, v)
  BY <1>5, <1>9 DEF Issues
<1> QED BY <1>5, <1>9, <1>10, <1>11, PanesOKIs

\* The selection moves, and nothing but that.
LEMMA GotoKeeps ==
    ASSUME NEW u, PanesOK(u), NEW v \in Goto(u)
    PROVE  /\ PanesOK(v) /\ v.event = u.event /\ v.sf = u.sf /\ v.prov = u.prov
           /\ v.query = u.query /\ v.flight = u.flight
<1>0. UiTypeOK(u) /\ u.sf \in Pane /\ u.sel \in [Pane -> Nat] /\ u.prov = [p \in Pane |-> u.prov[p]]
  BY DEF PanesOK, UiInv, UiTypeOK
<1> DEFINE n == Len(u.prov[u.sf].items)
<1>1. PICK i \in 0..n : v = [u EXCEPT !.sel[u.sf] = Clamp(i, n)]
  BY DEF Goto
<1>2. n \in Nat
  BY <1>0 DEF UiTypeOK, IsList
<1> HIDE DEF n
<1> DEFINE c == Clamp(i, n)
           sel == [u.sel EXCEPT ![u.sf] = c]
<1>3. c \in Nat /\ (c = 0 \/ c < n)
  BY <1>2, ClampRange
<1> HIDE DEF c
<1>4. v = Ui(u.event, u.sf, u.prov, sel, u.query, u.shownAs, u.flight, u.timers)
  BY <1>0, <1>1, UiIsRecord DEF Ui, c
<1>5. sel \in [Pane -> Nat] /\ sel[u.sf] = c /\ \A p \in Pane : p # u.sf => sel[p] = u.sel[p]
  BY <1>0, <1>3
<1> HIDE DEF sel
<1>6. /\ v.event = u.event /\ v.sf = u.sf /\ v.prov = u.prov /\ v.sel = sel
      /\ v.query = u.query /\ v.shownAs = u.shownAs /\ v.flight = u.flight /\ v.timers = u.timers
  BY <1>4 DEF Ui
<1>7. UiTypeOK(v)
  <2>1. u.query \in [Pane -> Query] /\ u.flight \in [Search -> Searches \cup {NoSearch}]
    BY <1>0 DEF UiTypeOK
  <2> QED BY <1>0, <1>4, <1>5, <2>1, ReplaceTyped
<1>8. \A p \in Pane : p # u.sf => Selected(v, p) = Selected(u, p)
  BY <1>5, <1>6, SelectedSame
<1>9. u.sf # ForPlugins => SelectedPlugin(v) = SelectedPlugin(u)
  BY <1>8, PaneFacts DEF SelectedPlugin
<1>10. SelectionInRange(v) /\ RowsAreCurrent(v) /\ SearchesAreOld(v)
  BY <1>3, <1>5, <1>6 DEF n, PanesOK, UiInv, SelectionInRange, RowsAreCurrent, SearchesAreOld
<1>11. TimerIsCurrent(v) /\ SearchIsCurrent(v)
  BY <1>6, <1>9, PaneFacts DEF PanesOK, UiInv, TimerIsCurrent, SearchIsCurrent
<1>12. NothingAhead(v)
  BY <1>6, <1>8, PaneFacts DEF PanesOK, UiInv, NothingAhead
<1>13. ChoicesIn(v)
  BY <1>6, <1>8, PaneFacts DEF PanesOK, ChoicesIn, ActionsMatch, TargetMatches
<1> QED BY <1>6, <1>7, <1>10, <1>11, <1>12, <1>13 DEF PanesOK, UiInv

\* Laying the rows out again changes nothing else.
LEMMA LayoutKeeps ==
    ASSUME NEW u, Settled(u), NEW v, v = UpdateLayout(u, u.sf)
    PROVE  /\ PanesOK(v) /\ v.event = u.event /\ v.sf = u.sf /\ v.prov = u.prov
           /\ v.query = u.query /\ v.flight = u.flight
           /\ \A w : Handles(w, u) => Handles(w, v)
<1>0. UiTypeOK(u) /\ u.sf \in Pane
  BY DEF Settled, UiTypeOK
<1>1. /\ v = Ui(u.event, u.sf, u.prov, u.sel, u.query, u.prov[u.sf], u.flight, u.timers)
      /\ UiTypeOK(v)
  BY <1>0, UpdateLayoutIs
<1>2. /\ v.event = u.event /\ v.sf = u.sf /\ v.prov = u.prov /\ v.sel = u.sel
      /\ v.query = u.query /\ v.shownAs = u.prov[u.sf] /\ v.flight = u.flight
      /\ v.timers = u.timers
  BY <1>1 DEF Ui
<1>3. \A p \in Pane : Selected(v, p) = Selected(u, p)
  BY <1>2, SelectedSame
<1>4. SelectedPlugin(v) = SelectedPlugin(u)
  BY <1>3, PaneFacts DEF SelectedPlugin
<1>5. SelectionInRange(v) /\ RowsAreCurrent(v) /\ SearchesAreOld(v)
  BY <1>2 DEF Settled, SelectionInRange, RowsAreCurrent, SearchesAreOld
<1>6. TimerIsCurrent(v) /\ SearchIsCurrent(v)
  BY <1>2, <1>4 DEF Settled, TimerIsCurrent, SearchIsCurrent
<1>7. NothingAhead(v)
  BY <1>2, <1>3, PaneFacts DEF Settled, NothingAhead
<1>8. ChoicesIn(v)
  BY <1>2, <1>3, PaneFacts DEF Settled, ChoicesIn, ActionsMatch, TargetMatches
<1>9. \A w : Handles(w, u) => Handles(w, v)
  BY <1>2 DEF Handles
<1> QED BY <1>1, <1>2, <1>5, <1>6, <1>7, <1>8, <1>9 DEF PanesOK, UiInv

\* Increment, then ClearFrom: what state_reset and state_change_category share.
LEMMA ClearedIs ==
    ASSUME NEW u, UiTypeOK(u), u.event < MaxEvent, NEW from \in Int,
           NEW v, v = ClearFrom(Increment(u), from)
    PROVE  /\ UiTypeOK(v)
           /\ v = Ui(v.event, v.sf, v.prov, v.sel, v.query, v.shownAs, v.flight, v.timers)
           /\ v.event = u.event + 1 /\ v.sf = u.sf /\ v.shownAs = u.shownAs
           /\ v.flight = u.flight /\ v.timers = u.timers
           /\ \A p \in Pane :
                 IF p >= from
                 THEN /\ v.prov[p].event = u.event + 1 /\ v.prov[p].items = <<>>
                      /\ v.prov[p].key = None /\ v.prov[p].query = Empty
                      /\ v.sel[p] = 0 /\ v.query[p] = Empty
                 ELSE v.prov[p] = u.prov[p] /\ v.sel[p] = u.sel[p] /\ v.query[p] = u.query[p]
<1> DEFINE w == Increment(u)
<1>1. /\ w = Ui(u.event + 1, u.sf, u.prov, u.sel, u.query, u.shownAs, u.flight, u.timers)
      /\ UiTypeOK(w)
  BY IncrementIs
<1>2. v = ClearFrom(w, from)
  OBVIOUS
<1> HIDE DEF w
<1>3. /\ w.event = u.event + 1 /\ w.sf = u.sf /\ w.prov = u.prov /\ w.sel = u.sel
      /\ w.query = u.query /\ w.shownAs = u.shownAs /\ w.flight = u.flight /\ w.timers = u.timers
  BY <1>1 DEF Ui
<1> DEFINE prov == [p \in Pane |-> IF p >= from THEN EmptyProvider(w.event) ELSE w.prov[p]]
           sel == [p \in Pane |-> IF p >= from THEN 0 ELSE w.sel[p]]
           query == [p \in Pane |-> IF p >= from THEN Empty ELSE w.query[p]]
<1>4. /\ v = Ui(w.event, w.sf, prov, sel, query, w.shownAs, w.flight, w.timers)
      /\ UiTypeOK(v)
  BY <1>1, <1>2, ClearFromIs
<1>5. \A p \in Pane :
         IF p >= from
         THEN prov[p] = EmptyProvider(w.event) /\ sel[p] = 0 /\ query[p] = Empty
         ELSE prov[p] = w.prov[p] /\ sel[p] = w.sel[p] /\ query[p] = w.query[p]
  OBVIOUS
<1> HIDE DEF prov, sel, query
<1>6. /\ v.event = w.event /\ v.sf = w.sf /\ v.prov = prov /\ v.sel = sel /\ v.query = query
      /\ v.shownAs = w.shownAs /\ v.flight = w.flight /\ v.timers = w.timers
  BY <1>4 DEF Ui
<1>7. w.event \in Nat
  BY <1>1, EventIsNat
<1>8. v = Ui(v.event, v.sf, v.prov, v.sel, v.query, v.shownAs, v.flight, v.timers)
  BY <1>4, UiIsRecord
<1> QED BY <1>3, <1>4, <1>5, <1>6, <1>7, <1>8, EmptyProviderIsList

LEMMA ResetKeeps ==
    ASSUME NEW u, PanesOK(u), u.event < MaxEvent, NEW v, v = Reset(u)
    PROVE  PanesOK(v) /\ Handles(u, v) /\ \A p \in Pane : v.query[p] = Empty
<1> DEFINE w == ClearFrom(Increment(u), ForPlugins)
<1>0. UiTypeOK(u) /\ u.event \in Nat /\ MaxEvent \in Nat
  BY EventIsNat DEF PanesOK, UiInv
<1>1. v = UpdateLayout(w, ForSources) /\ w = ClearFrom(Increment(u), ForPlugins)
  BY DEF Reset
<1> HIDE DEF w
<1>2. /\ UiTypeOK(w) /\ w.event = u.event + 1 /\ w.flight = u.flight /\ w.timers = u.timers
      /\ \A p \in Pane : /\ w.prov[p].event = u.event + 1 /\ w.prov[p].items = <<>>
                         /\ w.prov[p].key = None /\ w.prov[p].query = Empty
                         /\ w.sel[p] = 0 /\ w.query[p] = Empty
  BY <1>0, <1>1, ClearedIs, PaneFacts
<1>3. /\ v = Ui(w.event, ForSources, w.prov, w.sel, w.query, w.prov[ForSources], w.flight, w.timers)
      /\ UiTypeOK(v)
  BY <1>1, <1>2, UpdateLayoutIs, PaneFacts
<1>4. /\ v.event = u.event + 1 /\ v.sf = ForSources /\ v.flight = u.flight /\ v.timers = u.timers
      /\ v.prov = w.prov /\ v.sel = w.sel /\ v.query = w.query /\ v.shownAs = w.prov[ForSources]
  BY <1>2, <1>3 DEF Ui
<1>5. Selected(v, ForPlugins) = None
  BY <1>2, <1>4, PaneFacts DEF Selected
<1>6. SelectionInRange(v) /\ RowsAreCurrent(v) /\ NothingAhead(v) /\ ChoicesIn(v)
  BY <1>2, <1>4, PaneFacts DEF SelectionInRange, RowsAreCurrent, NothingAhead, ChoicesIn
<1>7. TimerIsCurrent(v)
  <2>1. \A t \in u.timers : t.event \in Nat /\ t.event <= u.event
    BY <1>0 DEF UiTypeOK
  <2> QED BY <1>0, <1>4, <2>1 DEF TimerIsCurrent
<1>8. SearchesAreOld(v) /\ SearchIsCurrent(v)
  <2>1. \A e \in Search : e \in Nat /\ (u.flight[e] # NoSearch => e <= u.event)
    BY <1>0 DEF Search, PanesOK, UiInv, SearchesAreOld
  <2>2. u.event + 1 \in Search
    BY <1>0 DEF Search
  <2>3. u.flight[u.event + 1] = NoSearch
    BY <1>0, <2>1, <2>2
  <2> QED BY <1>0, <1>2, <1>4, <1>5, <2>1, <2>3, PaneFacts
          DEF SearchesAreOld, SearchIsCurrent, SelectedPlugin
<1>9. Handles(u, v)
  BY <1>0, <1>2, <1>4, PaneFacts DEF Handles
<1> QED BY <1>2, <1>3, <1>4, <1>6, <1>7, <1>8, <1>9 DEF PanesOK, UiInv

\* One may go back to any pane, and on to the next with something selected.
LEMMA ChangeCategoryKeeps ==
    ASSUME NEW u, PanesOK(u), u.event + 2 <= MaxEvent, NEW what \in -1..3,
           what <= u.sf + 1,
           what = u.sf + 1 => /\ Selected(u, u.sf) # None
                              /\ u.sf = ForActions => IsActionTarget(Selected(u, ForActions)),
           NEW v \in ChangeCategory(u, what)
    PROVE  PanesOK(v) /\ Handles(u, v)
<1>0. /\ UiTypeOK(u) /\ u.event \in Nat /\ MaxEvent \in Nat /\ u.event < MaxEvent
      /\ u.sf \in Pane
  <2>1. UiTypeOK(u)
    BY DEF PanesOK, UiInv
  <2>2. u.event \in Nat /\ MaxEvent \in Nat
    BY <2>1, EventIsNat
  <2> QED BY <2>1, <2>2 DEF UiTypeOK
<1>1. CASE what = u.sf
  <2>1. v = u
    BY <1>1 DEF ChangeCategory
  <2>2. u.event \in u.event..MaxEvent
    BY <1>0
  <2> QED BY <2>1, <2>2 DEF Handles
<1>2. CASE what # u.sf
  <2> DEFINE c == ClearFrom(Increment(u), what + 1)
             sf == IF what = ForReset THEN ForSources ELSE what
             w == [c EXCEPT !.sf = sf]
  <2>1. PICK x \in StartSearch(w, w.query[w.sf]) :
           v = IF what < u.sf THEN UpdateLayout(x, x.sf) ELSE x
    BY <1>2 DEF ChangeCategory
  <2>2. /\ UiTypeOK(c)
        /\ c = Ui(c.event, c.sf, c.prov, c.sel, c.query, c.shownAs, c.flight, c.timers)
        /\ c.event = u.event + 1 /\ c.sf = u.sf /\ c.shownAs = u.shownAs
        /\ c.flight = u.flight /\ c.timers = u.timers
        /\ \A p \in Pane :
              IF p >= what + 1
              THEN /\ c.prov[p].event = u.event + 1 /\ c.prov[p].items = <<>>
                   /\ c.sel[p] = 0 /\ c.query[p] = Empty
              ELSE c.prov[p] = u.prov[p] /\ c.sel[p] = u.sel[p] /\ c.query[p] = u.query[p]
    BY <1>0, ClearedIs
  <2>3. sf \in Pane /\ (what = ForReset => sf = ForSources) /\ (what # ForReset => sf = what)
    BY PaneFacts
  <2> HIDE DEF c, sf
  <2>4. w = Ui(c.event, sf, c.prov, c.sel, c.query, c.shownAs, c.flight, c.timers)
    BY <2>2 DEF Ui
  <2>5. UiTypeOK(w)
    <3>1. /\ c.prov = [p \in Pane |-> c.prov[p]] /\ c.sel \in [Pane -> Nat]
          /\ c.query \in [Pane -> Query] /\ c.flight \in [Search -> Searches \cup {NoSearch}]
      BY <2>2 DEF UiTypeOK
    <3> HIDE DEF w
    <3> QED BY <2>2, <2>3, <2>4, <3>1, ReplaceTyped
  <2> HIDE DEF w
  <2>6. /\ w.event = u.event + 1 /\ w.sf = sf /\ w.prov = c.prov /\ w.sel = c.sel
        /\ w.query = c.query /\ w.shownAs = u.shownAs /\ w.flight = u.flight
    BY <2>2, <2>4 DEF Ui
  <2>7. /\ \A p \in Pane : p >= what + 1 =>
              /\ w.prov[p].event = u.event + 1 /\ w.prov[p].items = <<>>
              /\ w.sel[p] = 0 /\ w.query[p] = Empty
        /\ \A p \in Pane : p <= what =>
              /\ w.prov[p] = u.prov[p] /\ w.sel[p] = u.sel[p] /\ w.query[p] = u.query[p]
              /\ Selected(w, p) = Selected(u, p)
    <3>1. \A p \in Pane : p \in Int /\ (p <= what <=> ~ (p >= what + 1))
      BY PaneFacts
    <3>2. \A p \in Pane : p <= what =>
             w.prov[p] = u.prov[p] /\ w.sel[p] = u.sel[p] /\ w.query[p] = u.query[p]
      BY <2>2, <2>6, <3>1
    <3>3. \A p \in Pane : p <= what => Selected(w, p) = Selected(u, p)
      BY <3>2, SelectedSame
    <3> QED BY <2>2, <2>6, <3>2, <3>3
  <2>8. Ready(w)
    <3>1. SelectionInRange(w)
      BY <2>7, PaneFacts DEF PanesOK, UiInv, SelectionInRange
    <3>2. LiveAreOld(w)
      <4>1. \A e \in Search : e \in Nat /\ (u.flight[e] # NoSearch =>
                                   e <= u.event /\ e # u.prov[ForSources].event)
        BY <1>0 DEF Search, PanesOK, UiInv, SearchesAreOld
      <4>2. w.prov[ForSources].event \in {u.event + 1, u.prov[ForSources].event}
        BY <2>7, PaneFacts
      <4> QED BY <1>0, <2>6, <4>1, <4>2 DEF LiveAreOld
    <3>3. /\ \A p \in Pane : p > w.sf => w.query[p] = Empty
          /\ w.sf # ForTargets => w.prov[ForTargets].items = <<>>
          /\ w.sf = ForPlugins => w.prov[ForSources].items = <<>>
      BY <2>3, <2>6, <2>7, PaneFacts
    <3>4. w.sf # ForPlugins /\ Selected(w, ForPlugins) = None => w.query[ForPlugins] = Empty
      <4>1. CASE what = ForReset
        BY <2>7, <4>1, PaneFacts
      <4>2. CASE what # ForReset
        BY <1>0, <1>2, <2>3, <2>6, <2>7, <4>2, PaneFacts DEF PanesOK, UiInv, NothingAhead
      <4> QED BY <4>1, <4>2
    <3>5. w.sf = ForActions => Selected(w, ForSources) # None
      BY <1>0, <1>2, <2>3, <2>6, <2>7, PaneFacts DEF PanesOK, ChoicesIn, ActionsMatch
    <3>6. w.sf = ForTargets => Offers(w)
      BY <1>0, <1>2, <2>3, <2>6, <2>7, PaneFacts DEF PanesOK, ChoicesIn, ActionsMatch, Offers
    <3> QED BY <1>0, <2>5, <2>6, <3>1, <3>2, <3>3, <3>4, <3>5, <3>6 DEF Ready, NothingAhead
  <2>9. /\ Settled(x) /\ Issues(w, x) /\ x.sf = w.sf
        /\ \/ RowsAreCurrent(x)
           \/ w.sf = ForSources /\ x.prov = w.prov /\ x.shownAs = w.shownAs
    BY <2>1, <2>8, StartSearchSettles
  <2>10. w.prov[ForSources].event \in {u.prov[ForSources].event} \cup (u.event + 1..w.event)
    BY <1>0, <2>6, <2>7, PaneFacts
  <2>11. Handles(u, x)
    <3>1. UiTypeOK(x)
      BY <2>9 DEF Settled
    <3> QED BY <1>0, <2>5, <2>6, <2>9, <2>10, <3>1, IssuesHandles
  <2>12. CASE what < u.sf
    <3>1. v = UpdateLayout(x, x.sf)
      BY <2>1, <2>12
    <3> QED BY <2>9, <2>11, <3>1, LayoutKeeps
  <2>13. CASE ~ (what < u.sf)
    <3>1. v = x
      BY <2>1, <2>13
    <3>2. w.sf = ForSources => w.prov[ForSources].items = <<>>
      BY <1>0, <1>2, <2>3, <2>6, <2>7, <2>13, PaneFacts DEF PanesOK, UiInv, NothingAhead
    <3>3. RowsAreCurrent(x)
      BY <2>9, <3>2 DEF RowsAreCurrent
    <3> QED BY <2>9, <2>11, <3>1, <3>3, PanesOKIs
  <2> QED BY <2>12, <2>13
<1> QED BY <1>1, <1>2

-----------------------------------------------------------------------------
(* controller_execute                                                      *)

LEMMA SameHandles ==
    ASSUME NEW u, NEW w, NEW v, Handles(w, v), w.event = u.event, w.flight = u.flight,
           w.sf = u.sf, w.prov[ForSources] = u.prov[ForSources]
    PROVE  Handles(u, v)
BY DEF Handles

\* What controller_execute leaves behind and posts.
Executed(u, r) ==
    /\ PanesOK(r.ui) /\ Handles(u, r.ui)
    /\ r.job # None => IsWhole(r.job)

LEMMA NothingDone ==
    ASSUME NEW u, PanesOK(u), NEW r, r = Done(u, None)
    PROVE  Executed(u, r)
<1>1. u.event \in u.event..MaxEvent
  BY EventIsNat DEF PanesOK, UiInv
<1>2. r.ui = u /\ r.job = None
  BY DEF Done
<1> QED BY <1>1, <1>2 DEF Executed, Handles

LEMMA Execute2Keeps ==
    ASSUME NEW u, PanesOK(u), u.event < MaxEvent, u.sf # ForPlugins, ActionsMatch(u),
           NEW r \in Execute2(u)
    PROVE  Executed(u, r)
<1> DEFINE action == Selected(u, ForActions)
<1>0. UiTypeOK(u) /\ u.sf \in Pane
  BY DEF PanesOK, UiInv, UiTypeOK
<1>1. CASE action = None
  <2>1. r = Done(u, None)
    BY <1>1 DEF Execute2
  <2> QED BY <2>1, NothingDone
<1>2. CASE action # None /\ IsActionTarget(action) /\ u.sf < ForTargets
  <2>1. PICK items \in {<<"target">>} : r = Done(SearchTargets(Increment(u), Empty, items), None)
    <3>1. Lists(ForTargets, Empty) = {<<"target">>}
      BY PaneFacts DEF Lists
    <3>2. r \in {Done(SearchTargets(Increment(u), Empty, items), None) : items \in Lists(ForTargets, Empty)}
      BY <1>2 DEF Execute2
    <3> QED BY <3>1, <3>2
  <2> DEFINE v == SearchTargets(Increment(u), Empty, items)
  <2>2. u.query[ForTargets] = Empty
    BY <1>2, PaneFacts DEF PanesOK, UiInv, NothingAhead
  <2>3. SelectionInRange(u) /\ NothingAhead(u) /\ LiveAreOld(u) /\ Offers(u)
    BY <1>2 DEF PanesOK, UiInv, SearchesAreOld, LiveAreOld, Offers
  <2>4. Settled(v) /\ Issues(u, v) /\ RowsAreCurrent(v)
    BY <1>0, <2>2, <2>3, SearchTargetsSettles
  <2>5. r.ui = v /\ r.job = None
    BY <2>1 DEF Done
  <2> HIDE DEF v
  <2>6. Handles(u, v)
    <3>1. UiTypeOK(v) /\ u.event >= u.event
      BY <1>0, <2>4, EventIsNat DEF Settled
    <3> QED BY <1>0, <2>4, <3>1, IssuesHandles
  <2> QED BY <2>4, <2>5, <2>6, PanesOKIs DEF Executed
<1>3. CASE /\ action # None /\ ~ (IsActionTarget(action) /\ u.sf < ForTargets)
           /\ ~ (IsActionTarget(action) /\ Selected(u, ForTargets) = None)
           /\ ~ (u.sf = ForTargets /\ u.query[ForTargets] = Empty)
  <2>1. r = Done(u, Job(u))
    BY <1>3 DEF Execute2
  <2> DEFINE j == Job(u)
  <2>2. /\ j.source = Selected(u, ForSources) /\ j.action = action
        /\ j.target = Selected(u, ForTargets)
    BY DEF Job
  <2> HIDE DEF j
  <2>3. j.source # None /\ j.action # None /\ j.action.list = u.prov[ForActions]
    BY <1>3, <2>2 DEF ActionsMatch, Selected
  <2>4. j.action.list.key = j.source
    BY <2>2, <2>3 DEF ActionsMatch
  <2>5. ASSUME IsActionTarget(action) PROVE IsWhole(j)
    <3>1. u.sf = ForTargets /\ Selected(u, ForTargets) # None /\ u.query[ForTargets] # Empty
      BY <1>0, <1>3, <2>5, PaneFacts
    <3>2. TargetMatches(u)
      BY <3>1 DEF PanesOK, ChoicesIn
    <3>3. j.target # None /\ j.target.list = u.prov[ForTargets]
      BY <2>2, <3>1 DEF Selected
    <3> QED BY <2>2, <2>3, <2>4, <2>5, <3>1, <3>2, <3>3 DEF IsWhole, TargetMatches
  <2>6. ASSUME ~ IsActionTarget(action) PROVE IsWhole(j)
    <3>1. u.sf # ForTargets
      BY <2>6 DEF PanesOK, ChoicesIn, TargetMatches
    <3>2. u.prov[ForTargets].items = <<>> /\ u.sel[ForTargets] \in Nat
      BY <1>0, <3>1, PaneFacts DEF PanesOK, UiInv, NothingAhead, UiTypeOK
    <3>3. j.target = None
      BY <2>2, <3>2 DEF Selected
    <3> QED BY <2>2, <2>3, <2>4, <2>6, <3>3 DEF IsWhole
  <2>7. IsWhole(j)
    BY <2>5, <2>6
  <2>8. r.ui = u /\ r.job = j
    BY <2>1 DEF Done, j
  <2>9. Handles(u, u)
    BY <1>0, EventIsNat DEF Handles
  <2> QED BY <2>7, <2>8, <2>9 DEF Executed
<1>4. CASE ~ (action = None) /\ ~ (action # None /\ IsActionTarget(action) /\ u.sf < ForTargets)
           /\ \/ IsActionTarget(action) /\ Selected(u, ForTargets) = None
              \/ u.sf = ForTargets /\ u.query[ForTargets] = Empty
  <2>1. r = Done(u, None)
    BY <1>4 DEF Execute2
  <2> QED BY <2>1, NothingDone
<1> QED BY <1>1, <1>2, <1>3, <1>4

\* The actions of the selected source are looked for before the first of them
\* is executed.
LEMMA ActionsFilledIn ==
    ASSUME NEW u, PanesOK(u), u.sf = ForSources, Selected(u, ForSources) # None,
           NEW items \in ActionLists,
           NEW v, v = UpdateProvider(u, ForActions,
                          List(u.event, Selected(u, ForSources), Empty, items), 0)
    PROVE  /\ PanesOK(v) /\ ActionsMatch(v)
           /\ v.event = u.event /\ v.sf = u.sf /\ v.flight = u.flight
           /\ v.prov[ForSources] = u.prov[ForSources]
<1> DEFINE list == List(u.event, Selected(u, ForSources), Empty, items)
<1>0. UiTypeOK(u) /\ u.event \in Nat
  BY EventIsNat DEF PanesOK, UiInv
<1>1. /\ IsList(list) /\ list.event = u.event /\ list.key = Selected(u, ForSources)
      /\ Len(list.items) \in Nat
  <2>1. Len(items) \in Nat
    BY PanesAssumption
  <2> QED BY <1>0, <2>1, PanesAssumption DEF IsList, List
<1>2. v = UpdateProvider(u, ForActions, list, 0)
  OBVIOUS
<1> HIDE DEF list
<1>3. Accepts(u, list) /\ list.event <= u.event /\ Clamp(0, Len(list.items)) = 0
  BY <1>0, <1>1, FreshIsAccepted, ClampZero
<1>4. /\ v = Ui(u.event, u.sf, [u.prov EXCEPT ![ForActions] = list],
                [u.sel EXCEPT ![ForActions] = Clamp(0, Len(list.items))],
                u.query, u.shownAs, u.flight, u.timers)
      /\ UiTypeOK(v)
  BY <1>0, <1>1, <1>2, <1>3, UpdateProviderIs, PaneFacts
<1>5. /\ v.event = u.event /\ v.sf = u.sf /\ v.prov = [u.prov EXCEPT ![ForActions] = list]
      /\ v.sel = [u.sel EXCEPT ![ForActions] = 0] /\ v.query = u.query
      /\ v.shownAs = u.shownAs /\ v.flight = u.flight /\ v.timers = u.timers
  BY <1>3, <1>4 DEF Ui
<1>6. u.prov = [p \in Pane |-> u.prov[p]] /\ u.sel \in [Pane -> Nat]
  BY <1>0 DEF UiTypeOK
<1>7. /\ v.prov[ForActions] = list /\ v.sel[ForActions] = 0
      /\ \A p \in Pane : p # ForActions => v.prov[p] = u.prov[p] /\ v.sel[p] = u.sel[p]
  BY <1>5, <1>6, PaneFacts
<1>8. \A p \in Pane : p # ForActions => Selected(v, p) = Selected(u, p)
  BY <1>7, SelectedSame
<1>9. SelectedPlugin(v) = SelectedPlugin(u)
  BY <1>8, PaneFacts DEF SelectedPlugin
<1>10. SelectionInRange(v) /\ RowsAreCurrent(v) /\ SearchesAreOld(v)
  BY <1>5, <1>7, PaneFacts DEF PanesOK, UiInv, SelectionInRange, RowsAreCurrent, SearchesAreOld
<1>11. TimerIsCurrent(v) /\ SearchIsCurrent(v)
  BY <1>5, <1>7, <1>9, PaneFacts DEF PanesOK, UiInv, TimerIsCurrent, SearchIsCurrent
<1>12. NothingAhead(v) /\ ChoicesIn(v)
  BY <1>5, <1>7, <1>8, PaneFacts DEF PanesOK, UiInv, NothingAhead, ChoicesIn
<1>13. ActionsMatch(v)
  BY <1>1, <1>7, <1>8, PaneFacts DEF ActionsMatch
<1> QED BY <1>4, <1>5, <1>7, <1>10, <1>11, <1>12, <1>13, PaneFacts DEF PanesOK, UiInv

LEMMA ExecuteKeeps ==
    ASSUME NEW u, PanesOK(u), u.event + 2 <= MaxEvent, NEW r \in Execute(u)
    PROVE  Executed(u, r)
<1>0. UiTypeOK(u) /\ u.sf \in Pane /\ u.event < MaxEvent
  <2>1. UiTypeOK(u)
    BY DEF PanesOK, UiInv
  <2>2. u.event < MaxEvent
    BY <2>1, EventIsNat
  <2> QED BY <2>1, <2>2 DEF UiTypeOK
<1>1. CASE \/ Selected(u, u.sf) = None
           \/ u.sf # ForPlugins /\ Selected(u, ForSources) = None
  <2>1. r = Done(u, None)
    BY <1>1 DEF Execute
  <2> QED BY <2>1, NothingDone
<1>2. CASE Selected(u, u.sf) # None /\ u.sf = ForPlugins
  <2>1. PICK v \in ChangeCategory(u, ForSources) : r = Done(v, None)
    BY <1>2 DEF Execute
  <2>2. /\ ForSources \in -1..3 /\ ForSources <= u.sf + 1 /\ ForSources = u.sf + 1
        /\ u.sf # ForActions
    BY <1>2, PaneFacts
  <2>3. PanesOK(v) /\ Handles(u, v)
    BY <1>2, <2>1, <2>2, ChangeCategoryKeeps
  <2> QED BY <2>1, <2>3 DEF Executed, Done
<1>3. CASE /\ Selected(u, u.sf) # None /\ u.sf # ForPlugins
           /\ Selected(u, ForSources) # None /\ u.sf < ForActions
  <2>1. u.sf = ForSources
    BY <1>0, <1>3, PaneFacts
  <2>2. PICK items \in ActionLists :
           r \in Execute2(UpdateProvider(u, ForActions,
                             List(u.event, Selected(u, ForSources), Empty, items), 0))
    BY <1>3 DEF Execute
  <2> DEFINE v == UpdateProvider(u, ForActions,
                             List(u.event, Selected(u, ForSources), Empty, items), 0)
  <2>3. /\ PanesOK(v) /\ ActionsMatch(v)
        /\ v.event = u.event /\ v.sf = u.sf /\ v.flight = u.flight
        /\ v.prov[ForSources] = u.prov[ForSources]
    BY <1>3, <2>1, ActionsFilledIn
  <2>4. r \in Execute2(v)
    BY <2>2
  <2> HIDE DEF v
  <2>5. Executed(v, r)
    BY <1>0, <1>3, <2>3, <2>4, Execute2Keeps
  <2> QED BY <2>3, <2>5, SameHandles DEF Executed
<1>4. CASE /\ Selected(u, u.sf) # None /\ u.sf # ForPlugins
           /\ Selected(u, ForSources) # None /\ ~ (u.sf < ForActions)
  <2>1. u.sf \in {ForActions, ForTargets}
    BY <1>0, <1>4, PaneFacts
  <2>2. ActionsMatch(u) /\ r \in Execute2(u)
    BY <1>4, <2>1 DEF PanesOK, ChoicesIn, Execute
  <2> QED BY <1>0, <1>4, <2>2, Execute2Keeps
<1> QED BY <1>1, <1>2, <1>3, <1>4

-----------------------------------------------------------------------------
(* The steps of the main thread.                                           *)

Inv ==
    /\ PanesInv /\ ChoicesIn(ui)
    /\ JobIsWhole

LEMMA InvIs == Inv <=> TypeOK /\ PanesOK(ui) /\ JobIsWhole
BY DEF Inv, PanesInv, PanesOK

\* What each action does to the panes: what a handler may, or it hands in or
\* drops the answer to a search.
AnswersSearch(u, v) ==
    \E e \in Search :
        /\ u.flight[e] # NoSearch /\ v.flight = [u.flight EXCEPT ![e] = NoSearch]
        /\ v.event = u.event /\ v.sf = u.sf
        /\ \/ /\ u.sf = ForSources /\ e > u.prov[ForSources].event
              /\ v.prov[ForSources].event = e
           \/ e # u.event /\ v.prov = u.prov

Moves(u, v) == PanesOK(v) /\ (Handles(u, v) \/ AnswersSearch(u, v))

LEMMA StandingStill ==
    ASSUME NEW u, PanesOK(u) PROVE Moves(u, u)
BY EventIsNat DEF PanesOK, UiInv, Moves, Handles

LEMMA HasRoomIs ==
    ASSUME PanesOK(ui), HasRoom
    PROVE  /\ ui.event + 2 <= MaxEvent /\ ui.event < MaxEvent
           /\ Ready(ui) /\ RowsAreCurrent(ui) /\ UiTypeOK(ui)
<1>1. UiTypeOK(ui) /\ ui.event + 2 <= MaxEvent /\ RowsAreCurrent(ui)
  BY DEF PanesOK, UiInv, HasRoom
<1>2. ui.event < MaxEvent
  BY <1>1, EventIsNat
<1> QED BY <1>1, <1>2, ReadyWhenOK

LEMMA EditMoves ==
    ASSUME PanesOK(ui), HasRoom, NEW q \in Query, NEW v \in Edit(ui, q)
    PROVE  Moves(ui, v)
<1>1. PanesOK(v) /\ Issues(ui, v)
  BY HasRoomIs, EditKeeps
<1>2. UiTypeOK(ui) /\ UiTypeOK(v) /\ ui.event >= ui.event
  BY <1>1, EventIsNat DEF PanesOK, UiInv
<1> QED BY <1>1, <1>2, IssuesHandles DEF Moves

LEMMA KeyEditMoves == ASSUME PanesOK(ui), KeyEdit PROVE Moves(ui, ui')
BY EditMoves DEF KeyEdit, Command

LEMMA LayoutMoves ==
    ASSUME NEW u, NEW w, NEW v, PanesOK(w), Handles(u, w), v = UpdateLayout(w, w.sf)
    PROVE  PanesOK(v) /\ Handles(u, v)
BY PanesOKIs, LayoutKeeps

LEMMA GotoMoves ==
    ASSUME NEW u, PanesOK(u), NEW v \in Goto(u)
    PROVE  /\ PanesOK(v) /\ v.event = u.event /\ v.sf = u.sf
           /\ \A w : Handles(v, w) => Handles(u, w)
           /\ Handles(u, v)
<1>1. /\ PanesOK(v) /\ v.event = u.event /\ v.sf = u.sf /\ v.prov = u.prov
      /\ v.flight = u.flight
  BY GotoKeeps
<1>2. \A w : Handles(v, w) => Handles(u, w)
  BY <1>1, SameHandles
<1>3. Handles(u, v)
  BY <1>1, EventIsNat DEF Handles, PanesOK, UiInv
<1> QED BY <1>1, <1>2, <1>3

LEMMA MoveSelectionMoves == ASSUME PanesOK(ui), MoveSelection PROVE Moves(ui, ui')
<1>1. PICK v \in Goto(ui) : ui' = UpdateLayout(v, v.sf)
  BY DEF MoveSelection
<1>2. PanesOK(v) /\ Handles(ui, v)
  BY GotoMoves
<1> QED BY <1>1, <1>2, LayoutMoves DEF Moves

\* The same with the rows laid out, as the number keys do it.
LEMMA GotoLaidOut ==
    ASSUME PanesOK(ui), HasRoom, NEW v \in Goto(ui), NEW w, w = UpdateLayout(v, v.sf)
    PROVE  PanesOK(w) /\ w.event + 2 <= MaxEvent /\ \A x : Handles(w, x) => Handles(ui, x)
<1>1. /\ PanesOK(v) /\ v.event = ui.event /\ v.sf = ui.sf /\ v.prov = ui.prov
      /\ v.flight = ui.flight
  BY GotoKeeps
<1>2. /\ PanesOK(w) /\ w.event = v.event /\ w.sf = v.sf /\ w.prov = v.prov
      /\ w.flight = v.flight
  BY <1>1, PanesOKIs, LayoutKeeps
<1>3. \A x : Handles(w, x) => Handles(ui, x)
  BY <1>1, <1>2, SameHandles
<1> QED BY <1>1, <1>2, <1>3, HasRoomIs

LEMMA PostKeeps ==
    ASSUME Inv, NEW r, PanesOK(r.ui), r.job # None => IsWhole(r.job), Post(r)
    PROVE  ui' = r.ui /\ JobIsWhole'
BY DEF Post, JobIsWhole, Inv

LEMMA ExecuteMoves ==
    ASSUME Inv, KeyExecute \/ KeyMatch \/ Click
    PROVE  Moves(ui, ui') /\ JobIsWhole'
<1>0. PanesOK(ui) /\ HasRoom /\ ui.event + 2 <= MaxEvent
  BY InvIs, HasRoomIs DEF KeyExecute, KeyMatch, Click, Command
<1>1. ASSUME NEW u, PanesOK(u), u.event + 2 <= MaxEvent, \A x : Handles(u, x) => Handles(ui, x),
             NEW r \in Execute(u), Post(r)
      PROVE  Moves(ui, ui') /\ JobIsWhole'
  <2>1. Executed(u, r)
    BY <1>1, ExecuteKeeps
  <2> QED BY <1>1, <2>1, PostKeeps DEF Executed, Moves
<1>2. CASE KeyExecute
  BY <1>0, <1>1, <1>2 DEF KeyExecute
<1>3. CASE KeyMatch
  <2>1. PICK v \in Goto(ui) : \E r \in Execute(UpdateLayout(v, v.sf)) : Post(r)
    BY <1>3 DEF KeyMatch
  <2> DEFINE w == UpdateLayout(v, v.sf)
  <2>2. PanesOK(w) /\ w.event + 2 <= MaxEvent /\ \A x : Handles(w, x) => Handles(ui, x)
    BY <1>0, GotoLaidOut
  <2>3. \E r \in Execute(w) : Post(r)
    BY <2>1
  <2> HIDE DEF w
  <2> QED BY <1>1, <2>2, <2>3
<1>4. CASE Click
  <2>1. PICK v \in Goto(ui) : \E r \in Execute(v) : Post(r)
    BY <1>4 DEF Click
  <2>2. PanesOK(v) /\ v.event + 2 <= MaxEvent /\ \A x : Handles(v, x) => Handles(ui, x)
    BY <1>0, GotoMoves
  <2> QED BY <1>1, <2>1, <2>2
<1> QED BY <1>2, <1>3, <1>4

\* NEXT_PANE only goes on from a pane in which something is selected.
LEMMA OnFrom ==
    ASSUME NEW u, PanesOK(u), ~ AtEnd(u)
    PROVE  /\ u.sf + 1 \in -1..3 /\ u.sf + 1 <= u.sf + 1
           /\ Selected(u, u.sf) # None
           /\ u.sf = ForActions => IsActionTarget(Selected(u, ForActions))
BY PaneFacts DEF AtEnd, PanesOK, UiInv, UiTypeOK

LEMMA BackFrom ==
    ASSUME NEW u, PanesOK(u)
    PROVE  u.sf - 1 \in -1..3 /\ u.sf - 1 <= u.sf + 1 /\ u.sf - 1 # u.sf + 1
BY PaneFacts DEF PanesOK, UiInv, UiTypeOK

LEMMA BackKeeps ==
    ASSUME PanesOK(ui), HasRoom, NEW v \in ChangeCategory(ui, ui.sf - 1)
    PROVE  Moves(ui, v)
BY HasRoomIs, BackFrom, ChangeCategoryKeeps DEF Moves

\* From the initial state one goes to the plugins.
LEMMA ToPlugins ==
    ASSUME PanesOK(ui), HasRoom, InInitialState(ui), NEW v \in ChangeCategory(ui, ForPlugins)
    PROVE  Moves(ui, v)
<1>1. ForPlugins \in -1..3 /\ ForPlugins <= ui.sf + 1 /\ ForPlugins # ui.sf + 1
  BY PaneFacts DEF InInitialState
<1> QED BY <1>1, HasRoomIs, ChangeCategoryKeeps DEF Moves

LEMMA PaneKeysMove ==
    ASSUME PanesOK(ui), KeyNextPane \/ KeyNextPaneOf \/ KeyPrevPane
    PROVE  Moves(ui, ui')
<1>0. HasRoom
  BY DEF KeyNextPane, KeyNextPaneOf, KeyPrevPane, Command
<1>1. CASE KeyNextPane
  <2>1. CASE InInitialState(ui)
    BY <1>0, <1>1, <2>1, ToPlugins DEF KeyNextPane
  <2>2. CASE ~ InInitialState(ui) /\ AtEnd(ui)
    <3>1. ui' \in ChangeCategory(ui, ui.sf + (-1))
      BY <1>1, <2>2 DEF KeyNextPane
    <3>2. ui.sf + (-1) = ui.sf - 1
      BY PaneFacts DEF PanesOK, UiInv, UiTypeOK
    <3> QED BY <1>0, <3>1, <3>2, BackKeeps
  <2>3. CASE ~ InInitialState(ui) /\ ~ AtEnd(ui)
    <3>1. ui' \in ChangeCategory(ui, ui.sf + 1)
      BY <1>1, <2>3 DEF KeyNextPane
    <3> QED BY <1>0, <2>3, <3>1, OnFrom, HasRoomIs, ChangeCategoryKeeps DEF Moves
  <2> QED BY <2>1, <2>2, <2>3
<1>2. CASE KeyNextPaneOf
  <2>1. CASE InInitialState(ui)
    BY <1>0, <1>2, <2>1, ToPlugins DEF KeyNextPaneOf
  <2>2. CASE ~ InInitialState(ui)
    <3>1. PICK v \in Goto(ui) :
             ui' \in IF AtEnd(v) THEN {UpdateLayout(v, v.sf)} ELSE ChangeCategory(v, v.sf + 1)
      BY <1>2, <2>2 DEF KeyNextPaneOf
    <3>2. /\ PanesOK(v) /\ v.event + 2 <= MaxEvent /\ Handles(ui, v)
          /\ \A w : Handles(v, w) => Handles(ui, w)
      BY <1>0, GotoMoves, HasRoomIs
    <3>3. CASE AtEnd(v)
      BY <3>1, <3>2, <3>3, LayoutMoves DEF Moves
    <3>4. CASE ~ AtEnd(v)
      <4>1. PanesOK(ui') /\ Handles(v, ui')
        BY <3>1, <3>2, <3>4, OnFrom, ChangeCategoryKeeps
      <4> QED BY <3>2, <4>1 DEF Moves
    <3> QED BY <3>3, <3>4
  <2> QED BY <2>1, <2>2
<1>3. CASE KeyPrevPane
  BY <1>0, <1>3, BackKeeps DEF KeyPrevPane
<1> QED BY <1>1, <1>2, <1>3

LEMMA HideMoves == ASSUME PanesOK(ui), HasRoom, ui' = Reset(ui) PROVE Moves(ui, ui')
BY HasRoomIs, ResetKeeps DEF Moves

LEMMA KeyClearOrHideMoves == ASSUME PanesOK(ui), KeyClearOrHide PROVE Moves(ui, ui')
BY HideMoves, BackKeeps DEF KeyClearOrHide, Command, Hide

LEMMA ToggleMoves == ASSUME PanesOK(ui), Toggle PROVE Moves(ui, ui')
BY HideMoves, StandingStill DEF Toggle, Hide

LEMMA PasteMoves == ASSUME PanesOK(ui), Paste \/ PasteArrives PROVE Moves(ui, ui')
BY EditMoves, StandingStill DEF Paste, PasteArrives

LEMMA JobReturnsMoves == ASSUME PanesOK(ui), JobReturns PROVE Moves(ui, ui')
<1>1. HasRoom /\ ui' \in {ui, UpdateLayout(ui, ui.sf), Reset(ui)}
  BY DEF JobReturns
<1>2. Handles(ui, ui)
  BY EventIsNat DEF PanesOK, UiInv, Handles
<1>3. CASE ui' = UpdateLayout(ui, ui.sf)
  BY <1>2, <1>3, LayoutMoves DEF Moves
<1> QED BY <1>1, <1>3, StandingStill, HideMoves

\* A request for a plugin raises the counter twice, once for the plugins and
\* once for the search, and comes only into a clean initial state.
LEMMA SelectPluginMoves == ASSUME PanesOK(ui), SelectPlugin PROVE Moves(ui, ui')
<1>0. /\ HasRoom /\ UiTypeOK(ui) /\ ui.event + 2 <= MaxEvent /\ ui.event < MaxEvent
      /\ ui.event \in Nat /\ MaxEvent \in Nat
  BY HasRoomIs, EventIsNat DEF SelectPlugin
<1>1. CASE Hide
  BY <1>0, <1>1, HideMoves DEF Hide
<1>2. CASE UNCHANGED vars
  BY <1>2, StandingStill DEF vars
<1>3. ASSUME InInitialState(ui), NEW i \in 1..Len(Plugins), NEW q \in Query,
             NEW v, v = UpdateProvider(Increment(ui), ForPlugins,
                            List(Increment(ui).event, None, Empty, Plugins), i - 1),
             ui' \in Edit(v, q)
      PROVE  Moves(ui, ui')
  <2> DEFINE u == Increment(ui)
             list == List(u.event, None, Empty, Plugins)
  <2>1. /\ u = Ui(ui.event + 1, ui.sf, ui.prov, ui.sel, ui.query, ui.shownAs, ui.flight, ui.timers)
        /\ UiTypeOK(u)
    BY <1>0, IncrementIs
  <2> HIDE DEF u
  <2>2. /\ u.event = ui.event + 1 /\ u.sf = ui.sf /\ u.prov = ui.prov /\ u.sel = ui.sel
        /\ u.query = ui.query /\ u.shownAs = ui.shownAs /\ u.flight = ui.flight
    BY <2>1 DEF Ui
  <2>3. /\ IsList(list) /\ list.event = u.event /\ list.items \in Seq(PluginSet)
        /\ Len(list.items) \in Nat
    <3>1. Plugins \in Seq(PluginSet) /\ Len(Plugins) \in Nat /\ Empty \in Query
      BY PanesAssumption
    <3> QED BY <1>0, <2>2, <3>1 DEF IsList, List
  <2>4. v = UpdateProvider(u, ForPlugins, list, i - 1)
    BY <1>3 DEF u
  <2> DEFINE n == Len(list.items)
             c == Clamp(i - 1, n)
  <2> HIDE DEF list
  <2>5. Accepts(u, list) /\ list.event <= u.event /\ i - 1 \in Int
    BY <1>0, <2>1, <2>2, <2>3, FreshIsAccepted
  <2>6. /\ v = Ui(u.event, u.sf, [u.prov EXCEPT ![ForPlugins] = list],
                  [u.sel EXCEPT ![ForPlugins] = c], u.query, u.shownAs, u.flight, u.timers)
        /\ UiTypeOK(v)
    BY <2>1, <2>3, <2>4, <2>5, UpdateProviderIs, PaneFacts
  <2>7. c \in Nat /\ (c = 0 \/ c < n)
    BY <2>3, <2>5, ClampRange
  <2> HIDE DEF n, c
  <2>8. /\ v.event = u.event /\ v.sf = u.sf /\ v.prov = [u.prov EXCEPT ![ForPlugins] = list]
        /\ v.sel = [u.sel EXCEPT ![ForPlugins] = c] /\ v.query = u.query
        /\ v.shownAs = u.shownAs /\ v.flight = u.flight
    BY <2>6 DEF Ui
  <2>9. u.prov = [p \in Pane |-> u.prov[p]] /\ u.sel \in [Pane -> Nat]
    BY <2>1 DEF UiTypeOK
  <2>10. /\ v.prov[ForPlugins] = list /\ v.sel[ForPlugins] = c
         /\ \A p \in Pane : p # ForPlugins => v.prov[p] = ui.prov[p] /\ v.sel[p] = ui.sel[p]
    BY <2>2, <2>8, <2>9, PaneFacts
  <2>11. ui.sf = ForSources /\ ui.query[ForPlugins] = Empty
    BY <1>3, PaneFacts DEF InInitialState, PanesOK, UiInv, NothingAhead
  <2>12. Ready(v)
    <3>1. SelectionInRange(v)
      BY <2>7, <2>10 DEF n, PanesOK, UiInv, SelectionInRange
    <3>2. LiveAreOld(v)
      <4>1. \A e \in Search : e \in Nat
        BY <1>0 DEF Search
      <4> QED BY <1>0, <2>2, <2>8, <2>10, <4>1, PaneFacts
              DEF PanesOK, UiInv, SearchesAreOld, LiveAreOld
    <3>3. NothingAhead(v)
      BY <2>2, <2>8, <2>10, <2>11, PaneFacts DEF PanesOK, UiInv, NothingAhead
    <3> QED BY <1>0, <2>2, <2>6, <2>8, <2>11, <3>1, <3>2, <3>3, PaneFacts DEF Ready
  <2>13. RowsAreCurrent(v)
    BY <2>2, <2>8, <2>10, <2>11, PaneFacts DEF PanesOK, UiInv, RowsAreCurrent
  <2>14. PanesOK(ui') /\ Issues(v, ui')
    BY <1>3, <2>12, <2>13, EditKeeps
  <2>15. Handles(ui, ui')
    <3>1. UiTypeOK(ui')
      BY <2>14 DEF PanesOK, UiInv
    <3>2. /\ v.flight = ui.flight /\ v.event >= ui.event
          /\ v.prov[ForSources].event = ui.prov[ForSources].event
      BY <1>0, <2>2, <2>8, <2>10, PaneFacts
    <3> QED BY <1>0, <2>6, <2>14, <3>1, <3>2, IssuesHandles
  <2> QED BY <2>14, <2>15 DEF Moves
<1> QED BY <1>1, <1>2, <1>3 DEF SelectPlugin

\* A search that is not in flight any more.
Landed(u, e) == [u EXCEPT !.flight[e] = NoSearch]

LEMMA LandedIs ==
    ASSUME NEW u, UiTypeOK(u), NEW e \in Search, NEW v, v = Landed(u, e)
    PROVE  /\ UiTypeOK(v)
           /\ v.event = u.event /\ v.sf = u.sf /\ v.prov = u.prov /\ v.sel = u.sel
           /\ v.query = u.query /\ v.shownAs = u.shownAs /\ v.timers = u.timers
           /\ v.flight = [u.flight EXCEPT ![e] = NoSearch]
           /\ v.flight[e] = NoSearch
           /\ \A x \in Search : x # e => v.flight[x] = u.flight[x]
<1> DEFINE flight == [u.flight EXCEPT ![e] = NoSearch]
<1>1. /\ u.flight \in [Search -> Searches \cup {NoSearch}] /\ u.sf \in Pane
      /\ u.prov = [p \in Pane |-> u.prov[p]] /\ u.sel \in [Pane -> Nat]
      /\ u.query \in [Pane -> Query]
  BY DEF UiTypeOK
<1>2. /\ flight \in [Search -> Searches \cup {NoSearch}] /\ flight[e] = NoSearch
      /\ \A x \in Search : x # e => flight[x] = u.flight[x]
  BY <1>1
<1>3. v = Ui(u.event, u.sf, u.prov, u.sel, u.query, u.shownAs, flight, u.timers)
  BY UiIsRecord DEF Ui, Landed
<1> HIDE DEF flight
<1>4. UiTypeOK(v)
  <2>1. UiTypeOK(Ui(u.event, u.sf, u.prov, u.sel, u.query, u.shownAs, flight, u.timers))
    BY <1>1, <1>2, ReplaceTyped
  <2> QED BY <1>3, <2>1
<1>5. /\ v.event = u.event /\ v.sf = u.sf /\ v.prov = u.prov /\ v.sel = u.sel
      /\ v.query = u.query /\ v.shownAs = u.shownAs /\ v.timers = u.timers
      /\ v.flight = flight
  BY <1>3 DEF Ui
<1> QED BY <1>2, <1>4, <1>5 DEF flight

\* finalize_search, and update_ui_callback for an answer that comes too late.
LEMMA ForgetKeeps ==
    ASSUME NEW u, PanesOK(u), NEW e \in Search, u.flight[e] # NoSearch, e # u.event,
           NEW v, v = Landed(u, e)
    PROVE  Moves(u, v)
<1>0. UiTypeOK(u) /\ u.event \in Nat /\ MaxEvent \in Nat /\ u.event <= MaxEvent
  BY EventIsNat DEF PanesOK, UiInv
<1>1. /\ UiTypeOK(v)
      /\ v.event = u.event /\ v.sf = u.sf /\ v.prov = u.prov /\ v.sel = u.sel
      /\ v.query = u.query /\ v.shownAs = u.shownAs /\ v.timers = u.timers
      /\ v.flight = [u.flight EXCEPT ![e] = NoSearch]
      /\ v.flight[e] = NoSearch
      /\ \A x \in Search : x # e => v.flight[x] = u.flight[x]
  BY <1>0, LandedIs
<1>2. \A p \in Pane : Selected(v, p) = Selected(u, p)
  BY <1>1, SelectedSame
<1>3. SelectedPlugin(v) = SelectedPlugin(u)
  BY <1>2, PaneFacts DEF SelectedPlugin
<1>4. SelectionInRange(v) /\ RowsAreCurrent(v) /\ TimerIsCurrent(v)
  BY <1>1, <1>3 DEF PanesOK, UiInv, SelectionInRange, RowsAreCurrent, TimerIsCurrent
<1>5. SearchesAreOld(v)
  BY <1>1 DEF PanesOK, UiInv, SearchesAreOld
<1>6. SearchIsCurrent(v)
  <2>1. u.event > 0 => u.event \in Search
    BY <1>0 DEF Search
  <2> QED BY <1>1, <1>3, <2>1 DEF PanesOK, UiInv, SearchIsCurrent
<1>7. NothingAhead(v) /\ ChoicesIn(v)
  BY <1>1, <1>2, PaneFacts
  DEF PanesOK, UiInv, NothingAhead, ChoicesIn, ActionsMatch, TargetMatches
<1>8. AnswersSearch(u, v)
  BY <1>1 DEF AnswersSearch
<1> QED BY <1>1, <1>4, <1>5, <1>6, <1>7, <1>8 DEF PanesOK, UiInv, Moves

\* An answer that is accepted: by SearchesAreOld the user is in the sources
\* pane.  The search need not be the current one, but then the current one is
\* still in flight, and SearchIsCurrent speaks of that one.
LEMMA AnswerKeeps ==
    ASSUME NEW u, PanesOK(u), NEW e \in Search, u.flight[e] # NoSearch,
           NEW items \in SourceLists, NEW w, w = Landed(u, e),
           NEW list, list = List(e, u.flight[e].plugin, u.flight[e].query, items),
           Accepts(w, list), NEW index \in Int,
           NEW v, v = UpdateLayout(UpdateProvider(w, ForSources, list, index), ForSources)
    PROVE  Moves(u, v)
<1>0. UiTypeOK(u) /\ u.event \in Nat /\ MaxEvent \in Nat /\ u.event <= MaxEvent /\ u.sf \in Pane
  <2>1. UiTypeOK(u)
    BY DEF PanesOK, UiInv
  <2>2. u.event \in Nat /\ MaxEvent \in Nat /\ u.event <= MaxEvent
    BY <2>1, EventIsNat
  <2> QED BY <2>1, <2>2 DEF UiTypeOK
<1>1. /\ UiTypeOK(w)
      /\ w.event = u.event /\ w.sf = u.sf /\ w.prov = u.prov /\ w.sel = u.sel
      /\ w.query = u.query /\ w.shownAs = u.shownAs /\ w.timers = u.timers
      /\ w.flight = [u.flight EXCEPT ![e] = NoSearch]
      /\ w.flight[e] = NoSearch
      /\ \A x \in Search : x # e => w.flight[x] = u.flight[x]
  BY <1>0, LandedIs
<1>2. e \in Nat /\ e > 0 /\ e <= u.event /\ e # u.prov[ForSources].event
  BY <1>0 DEF Search, PanesOK, UiInv, SearchesAreOld
<1>3. /\ list.event = e /\ list.key = u.flight[e].plugin /\ list.query = u.flight[e].query
      /\ list.items = items
  BY DEF List
<1>4. u.sf = ForSources /\ e > u.prov[ForSources].event
  <2>1. ~ (e < u.prov[u.sf].event)
    BY <1>1, <1>3 DEF Accepts
  <2>2. u.sf = ForSources
    BY <2>1 DEF PanesOK, UiInv, SearchesAreOld
  <2>3. u.prov[ForSources].event \in Nat
    BY <1>0, PaneFacts DEF UiTypeOK, IsList
  <2> QED BY <1>2, <2>1, <2>2, <2>3
<1>5. /\ u.event > 0 /\ u.flight[u.event] # NoSearch
      /\ u.flight[u.event] = [query |-> u.query[ForSources], plugin |-> SelectedPlugin(u)]
  <2>1. u.event > 0
    BY <1>0, <1>2
  <2>2. u.flight[u.event] # NoSearch
    <3>1. SUFFICES ASSUME u.flight[u.event] = NoSearch PROVE FALSE
      OBVIOUS
    <3>2. u.prov[ForSources].event = u.event
      BY <1>4, <3>1 DEF PanesOK, UiInv, SearchIsCurrent
    <3> QED BY <1>0, <1>2, <1>4, <3>2
  <2> QED BY <1>4, <2>1, <2>2 DEF PanesOK, UiInv, SearchIsCurrent
<1>6. IsList(list) /\ list.event <= w.event /\ Len(items) \in Nat
  <2>1. u.flight[e] \in Searches
    BY <1>0 DEF UiTypeOK
  <2>2. list.query \in Query
    BY <1>3, <2>1 DEF Searches
  <2>3. Len(items) \in Nat
    BY PanesAssumption
  <2> QED BY <1>1, <1>2, <1>3, <2>2, <2>3 DEF IsList, List
<1> DEFINE n == Len(list.items)
           c == Clamp(index, n)
           x == UpdateProvider(w, ForSources, list, index)
<1>7. c \in Nat /\ (c = 0 \/ c < n)
  BY <1>3, <1>6, ClampRange
<1>8. v = UpdateLayout(x, ForSources)
  OBVIOUS
<1>9. /\ x = Ui(w.event, w.sf, [w.prov EXCEPT ![ForSources] = list],
                [w.sel EXCEPT ![ForSources] = c], w.query, w.shownAs, w.flight, w.timers)
      /\ UiTypeOK(x)
  BY <1>1, <1>6, UpdateProviderIs, PaneFacts
<1> HIDE DEF n, c, x
<1>10. /\ x.event = w.event /\ x.prov = [w.prov EXCEPT ![ForSources] = list]
       /\ x.sel = [w.sel EXCEPT ![ForSources] = c] /\ x.query = w.query
       /\ x.flight = w.flight /\ x.timers = w.timers
  BY <1>9 DEF Ui
<1>11. /\ v = Ui(x.event, ForSources, x.prov, x.sel, x.query, x.prov[ForSources], x.flight, x.timers)
       /\ UiTypeOK(v)
  BY <1>8, <1>9, UpdateLayoutIs, PaneFacts
<1>12. /\ v.event = x.event /\ v.sf = ForSources /\ v.prov = x.prov /\ v.sel = x.sel
       /\ v.query = x.query /\ v.shownAs = x.prov[ForSources] /\ v.flight = x.flight
       /\ v.timers = x.timers
  BY <1>11 DEF Ui
<1>13. u.prov = [p \in Pane |-> u.prov[p]] /\ u.sel \in [Pane -> Nat]
  BY <1>0 DEF UiTypeOK
<1>14. /\ v.prov[ForSources] = list /\ v.sel[ForSources] = c
       /\ \A p \in Pane : p # ForSources => v.prov[p] = u.prov[p] /\ v.sel[p] = u.sel[p]
  BY <1>1, <1>10, <1>12, <1>13, PaneFacts
<1>15. /\ v.event = u.event /\ v.sf = u.sf /\ v.query = u.query /\ v.timers = u.timers
       /\ v.flight = [u.flight EXCEPT ![e] = NoSearch]
       /\ v.flight[e] = NoSearch
       /\ \A y \in Search : y # e => v.flight[y] = u.flight[y]
  BY <1>1, <1>4, <1>10, <1>12
<1>16. \A p \in Pane : p # ForSources => Selected(v, p) = Selected(u, p)
  BY <1>14, SelectedSame
<1>17. SelectedPlugin(v) = SelectedPlugin(u)
  BY <1>16, PaneFacts DEF SelectedPlugin
<1>18. SelectionInRange(v)
  BY <1>7, <1>14 DEF n, PanesOK, UiInv, SelectionInRange
<1>19. RowsAreCurrent(v)
  BY <1>12 DEF RowsAreCurrent
<1>20. TimerIsCurrent(v)
  BY <1>15, <1>17 DEF PanesOK, UiInv, TimerIsCurrent
<1>21. NothingAhead(v)
  BY <1>4, <1>14, <1>15, <1>16, PaneFacts DEF PanesOK, UiInv, NothingAhead
<1>22. SearchesAreOld(v)
  BY <1>3, <1>4, <1>14, <1>15 DEF PanesOK, UiInv, SearchesAreOld
<1>23. SearchIsCurrent(v)
  <2>1. u.event \in Search
    BY <1>0, <1>5 DEF Search
  <2>2. CASE e = u.event
    <3>1. list.query = u.query[ForSources] /\ list.key = SelectedPlugin(u)
      BY <1>3, <1>5, <2>2
    <3>2. v.flight[v.event] = NoSearch /\ v.prov[ForSources].event = v.event
      BY <1>3, <1>14, <1>15, <2>2
    <3>3. v.prov[ForSources].query = v.query[ForSources] /\ v.prov[ForSources].key = SelectedPlugin(v)
      BY <1>14, <1>15, <1>17, <3>1
    <3> QED BY <3>2, <3>3 DEF SearchIsCurrent
  <2>3. CASE e # u.event
    BY <1>5, <1>15, <1>17, <2>1, <2>3 DEF SearchIsCurrent
  <2> QED BY <2>2, <2>3
<1>24. ChoicesIn(v)
  BY <1>12, PaneFacts DEF ChoicesIn
<1>25. AnswersSearch(u, v)
  <2>1. v.prov[ForSources].event = e /\ e > u.prov[ForSources].event
    BY <1>3, <1>4, <1>14
  <2> QED BY <1>4, <1>15, <2>1 DEF AnswersSearch
<1> QED BY <1>11, <1>18, <1>19, <1>20, <1>21, <1>22, <1>23, <1>24, <1>25
        DEF PanesOK, UiInv, Moves

LEMMA UpdateUiMoves ==
    ASSUME PanesOK(ui), NEW e \in Search, UpdateUi(e) \/ Drop(e)
    PROVE  Moves(ui, ui')
<1>1. CASE Drop(e)
  BY <1>1, ForgetKeeps DEF Drop, Landed
<1>2. CASE UpdateUi(e)
  <2> DEFINE w == Landed(ui, e)
  <2>1. PICK items \in SourceLists :
          LET list == List(e, ui.flight[e].plugin, ui.flight[e].query, items)
              index == IF Len(ui.prov[ForSources].items) # Len(items) THEN 0 ELSE ui.sel[ForSources]
          IN  ui' = IF Accepts(w, list)
                    THEN UpdateLayout(UpdateProvider(w, ForSources, list, index), ForSources)
                    ELSE w
    BY <1>2 DEF UpdateUi, Landed
  <2> DEFINE list == List(e, ui.flight[e].plugin, ui.flight[e].query, items)
             index == IF Len(ui.prov[ForSources].items) # Len(items) THEN 0 ELSE ui.sel[ForSources]
  <2>2. ui.flight[e] # NoSearch /\ UiTypeOK(ui)
    BY <1>2 DEF UpdateUi, PanesOK, UiInv
  <2>3. index \in Int
    BY <2>2, PaneFacts DEF UiTypeOK
  <2>4. CASE Accepts(w, list)
    <3>1. ui' = UpdateLayout(UpdateProvider(w, ForSources, list, index), ForSources)
      BY <2>1, <2>4
    <3> HIDE DEF index
    <3> QED BY <2>2, <2>3, <2>4, <3>1, AnswerKeeps
  <2>5. CASE ~ Accepts(w, list)
    <3>1. ui' = w
      BY <2>1, <2>5
    <3>2. w.sf = ui.sf /\ w.prov = ui.prov
      BY <2>2, UiIsRecord DEF Landed, Ui
    <3>3. e < ui.prov[ui.sf].event
      BY <2>5, <3>2 DEF Accepts, List
    <3>4. ui.prov[ui.sf].event <= ui.event /\ ui.prov[ui.sf].event \in Nat /\ ui.event \in Nat /\ e \in Nat
      BY <2>2, EventIsNat DEF UiTypeOK, IsList, Search
    <3>5. e # ui.event
      BY <3>3, <3>4
    <3> QED BY <2>2, <3>1, <3>5, ForgetKeeps
  <2> QED BY <2>4, <2>5
<1> QED BY <1>1, <1>2

\* Timers come and go without anything else.
LEMMA TimersIs ==
    ASSUME NEW u, UiTypeOK(u), NEW timers,
           timers \subseteq [event : 1..u.event, query : Query, plugin : Refreshing],
           NEW v, v = Ui(u.event, u.sf, u.prov, u.sel, u.query, u.shownAs, u.flight, timers)
    PROVE  /\ UiTypeOK(v)
           /\ v.event = u.event /\ v.sf = u.sf /\ v.prov = u.prov /\ v.sel = u.sel
           /\ v.query = u.query /\ v.shownAs = u.shownAs /\ v.flight = u.flight
           /\ v.timers = timers
<1>1. /\ v = Ui(v.event, v.sf, v.prov, v.sel, v.query, v.shownAs, v.flight, v.timers)
      /\ v.event = u.event /\ v.sf = u.sf /\ v.prov = u.prov /\ v.sel = u.sel
      /\ v.query = u.query /\ v.shownAs = u.shownAs /\ v.flight = u.flight /\ v.timers = timers
  BY DEF Ui
<1>2. UiTypeOK(v)
  BY <1>1 DEF UiTypeOK
<1> QED BY <1>1, <1>2

\* A timer that is behind the counter is removed.
LEMMA TimerEnds ==
    ASSUME NEW u, PanesOK(u), NEW t,
           NEW v, v = Ui(u.event, u.sf, u.prov, u.sel, u.query, u.shownAs, u.flight, u.timers \ {t})
    PROVE  Moves(u, v)
<1>0. UiTypeOK(u)
  BY DEF PanesOK, UiInv
<1>1. u.timers \ {t} \subseteq [event : 1..u.event, query : Query, plugin : Refreshing]
  BY <1>0 DEF UiTypeOK
<1>2. /\ UiTypeOK(v)
      /\ v.event = u.event /\ v.sf = u.sf /\ v.prov = u.prov /\ v.sel = u.sel
      /\ v.query = u.query /\ v.shownAs = u.shownAs /\ v.flight = u.flight
      /\ v.timers = u.timers \ {t}
  BY <1>0, <1>1, TimersIs
<1>3. \A p \in Pane : Selected(v, p) = Selected(u, p)
  BY <1>2, SelectedSame
<1>4. SelectedPlugin(v) = SelectedPlugin(u)
  BY <1>3, PaneFacts DEF SelectedPlugin
<1>5. SelectionInRange(v) /\ RowsAreCurrent(v) /\ SearchesAreOld(v)
  BY <1>2 DEF PanesOK, UiInv, SelectionInRange, RowsAreCurrent, SearchesAreOld
<1>6. TimerIsCurrent(v) /\ SearchIsCurrent(v)
  BY <1>2, <1>4 DEF PanesOK, UiInv, TimerIsCurrent, SearchIsCurrent
<1>7. NothingAhead(v)
  BY <1>2, <1>3, PaneFacts DEF PanesOK, UiInv, NothingAhead
<1>8. ChoicesIn(v)
  BY <1>2, <1>3, PaneFacts DEF PanesOK, ChoicesIn, ActionsMatch, TargetMatches
<1>9. Handles(u, v)
  BY <1>0, <1>2, EventIsNat DEF Handles
<1> QED BY <1>2, <1>5, <1>6, <1>7, <1>8, <1>9 DEF PanesOK, UiInv, Moves

\* What is left of timer t when it goes on at the count n.
Again(t, n) == [t EXCEPT !.event = n]

Ticked(x, t, n) == [x EXCEPT !.timers = (@ \ {t}) \cup {Again(t, n)}]

LEMMA TickedIs ==
    ASSUME NEW x, UiTypeOK(x), NEW t, NEW n, NEW v, v = Ticked(x, t, n)
    PROVE  v = Ui(x.event, x.sf, x.prov, x.sel, x.query, x.shownAs, x.flight,
                  (x.timers \ {t}) \cup {Again(t, n)})
<1> DEFINE timers == (x.timers \ {t}) \cup {Again(t, n)}
<1>1. v = [x EXCEPT !.timers = timers]
  BY DEF Ticked
<1> HIDE DEF timers
<1>2. v = Ui(x.event, x.sf, x.prov, x.sel, x.query, x.shownAs, x.flight, timers)
  BY <1>1, UiIsRecord DEF Ui
<1> QED BY <1>2 DEF timers

\* A timer whose search is the current one repeats it at the next count.  By
\* TimerIsCurrent the user is in the sources pane and the timer repeats what
\* the user sees, and no other timer is at the current count.
LEMMA TimerRepeats ==
    ASSUME NEW u, PanesOK(u), u.event < MaxEvent, NEW t \in u.timers, t.event = u.event,
           NEW w, w = Increment(u), NEW x, x = ExecuteSearch(w, t.query, t.plugin),
           NEW v, v = Ticked(x, t, w.event)
    PROVE  Moves(u, v)
<1>0. /\ UiTypeOK(u) /\ u.event \in Nat /\ MaxEvent \in Nat
      /\ t \in [event : 1..u.event, query : Query, plugin : Refreshing]
  BY EventIsNat DEF PanesOK, UiInv, UiTypeOK
<1>1. /\ u.sf = ForSources /\ t.query = u.query[ForSources] /\ t.plugin = SelectedPlugin(u)
      /\ \A s \in u.timers : s.event = u.event => s = t
  BY DEF PanesOK, UiInv, TimerIsCurrent
<1>2. /\ w = Ui(u.event + 1, u.sf, u.prov, u.sel, u.query, u.shownAs, u.flight, u.timers)
      /\ UiTypeOK(w)
  BY <1>0, IncrementIs
<1>3. /\ w.event = u.event + 1 /\ w.sf = u.sf /\ w.prov = u.prov /\ w.sel = u.sel
      /\ w.query = u.query /\ w.shownAs = u.shownAs /\ w.flight = u.flight
      /\ w.timers = u.timers
  BY <1>2 DEF Ui
<1>4. /\ w.event # 0 /\ w.event \in Nat /\ w.event \in Search
      /\ t.query \in Query /\ t.plugin \in PluginSet \cup {None}
  BY <1>0, <1>1, <1>3, SelectedPluginType DEF Search
<1> DEFINE r == [query |-> t.query, plugin |-> t.plugin]
<1>5. /\ x = Ui(w.event, w.sf, w.prov, w.sel, w.query, w.shownAs,
                [w.flight EXCEPT ![w.event] = r], w.timers)
      /\ UiTypeOK(x)
  BY <1>2, <1>4, ExecuteSearchIs
<1>6. r \in Searches
  BY <1>4 DEF Searches
<1> HIDE DEF r
<1>7. /\ x.event = w.event /\ x.sf = w.sf /\ x.prov = w.prov /\ x.sel = w.sel
      /\ x.query = w.query /\ x.flight = [w.flight EXCEPT ![w.event] = r]
      /\ x.timers = w.timers
  BY <1>5 DEF Ui
<1> DEFINE again == Again(t, w.event)
           timers == (x.timers \ {t}) \cup {again}
<1>8. /\ again \in [event : 1..x.event, query : Query, plugin : Refreshing]
      /\ again.event = w.event /\ again.query = t.query /\ again.plugin = t.plugin
  BY <1>0, <1>3, <1>7 DEF Again
<1>9. timers \subseteq [event : 1..x.event, query : Query, plugin : Refreshing]
  BY <1>5, <1>8 DEF UiTypeOK
<1>10. v = Ui(x.event, x.sf, x.prov, x.sel, x.query, x.shownAs, x.flight, timers)
  BY <1>5, TickedIs
<1> HIDE DEF again, timers
<1>11. /\ UiTypeOK(v)
       /\ v.event = x.event /\ v.sf = x.sf /\ v.prov = x.prov /\ v.sel = x.sel
       /\ v.query = x.query /\ v.shownAs = x.shownAs /\ v.flight = x.flight
       /\ v.timers = timers
  BY <1>5, <1>9, <1>10, TimersIs
<1>12. /\ v.event = u.event + 1 /\ v.sf = ForSources /\ v.prov = u.prov /\ v.sel = u.sel
       /\ v.query = u.query /\ v.flight = [u.flight EXCEPT ![v.event] = r]
  BY <1>1, <1>3, <1>7, <1>11
<1>13. /\ v.flight[v.event] = r
       /\ \A e \in Search : e # v.event => v.flight[e] = u.flight[e]
  BY <1>0, <1>3, <1>4, <1>12 DEF UiTypeOK
<1>14. \A p \in Pane : Selected(v, p) = Selected(u, p)
  BY <1>12, SelectedSame
<1>15. SelectedPlugin(v) = SelectedPlugin(u)
  BY <1>14, PaneFacts DEF SelectedPlugin
<1>16. v.shownAs = u.shownAs
  BY <1>2, <1>5, <1>11 DEF Ui
<1>17. SelectionInRange(v) /\ RowsAreCurrent(v)
  BY <1>1, <1>12, <1>16 DEF PanesOK, UiInv, SelectionInRange, RowsAreCurrent
<1>18. TimerIsCurrent(v)
  <2>1. ASSUME NEW s \in v.timers, s.event = v.event PROVE s = again
    <3>1. s \in u.timers => s.event <= u.event /\ s.event \in Nat
      BY <1>0 DEF UiTypeOK
    <3>2. s \notin u.timers
      BY <1>0, <1>12, <2>1, <3>1
    <3> QED BY <1>3, <1>7, <1>11, <2>1, <3>2 DEF timers
  <2> QED BY <1>1, <1>3, <1>8, <1>12, <1>15, <2>1 DEF TimerIsCurrent
<1>19. NothingAhead(v)
  BY <1>1, <1>12, <1>14, PaneFacts DEF PanesOK, UiInv, NothingAhead
<1>20. u.prov[ForSources].event \in Nat /\ u.prov[ForSources].event <= u.event
  BY <1>0, PaneFacts DEF UiTypeOK, IsList
<1>21. SearchesAreOld(v)
  <2>1. ASSUME NEW e \in Search, v.flight[e] # NoSearch
        PROVE  e <= v.event /\ e # v.prov[ForSources].event
    <3>1. CASE e = v.event
      BY <1>0, <1>12, <1>20, <3>1
    <3>2. CASE e # v.event
      <4>1. e <= u.event /\ e # u.prov[ForSources].event /\ e \in Nat
        BY <1>13, <2>1, <3>2 DEF PanesOK, UiInv, SearchesAreOld, Search
      <4> QED BY <1>0, <1>12, <4>1
    <3> QED BY <3>1, <3>2
  <2> QED BY <1>12, <2>1 DEF SearchesAreOld
<1>22. SearchIsCurrent(v)
  <2>1. v.event > 0 /\ v.flight[v.event] = [query |-> v.query[ForSources], plugin |-> SelectedPlugin(v)]
    BY <1>0, <1>1, <1>12, <1>13, <1>15 DEF r
  <2>2. NoSearch \notin Searches
    BY PanesAssumption
  <2>3. v.flight[v.event] # NoSearch
    BY <1>6, <1>13, <2>2
  <2> QED BY <2>1, <2>3 DEF SearchIsCurrent
<1>23. ChoicesIn(v)
  BY <1>12, PaneFacts DEF ChoicesIn
<1>24. Handles(u, v)
  <2>1. /\ v.event \in u.event..MaxEvent /\ v.event > u.event
        /\ v.prov[ForSources].event = u.prov[ForSources].event
        /\ v.prov[ForSources].event # v.event
    BY <1>0, <1>12, <1>20
  <2> QED BY <1>6, <1>12, <2>1 DEF Handles
<1> QED BY <1>11, <1>17, <1>18, <1>19, <1>21, <1>22, <1>23, <1>24 DEF PanesOK, UiInv, Moves

LEMMA TickMoves == ASSUME PanesOK(ui), Tick PROVE Moves(ui, ui')
<1>0. HasRoom /\ ui.event < MaxEvent /\ UiTypeOK(ui)
  BY HasRoomIs DEF Tick
<1>1. PICK t \in ui.timers :
        LET u == Increment(ui) IN
        ui' = IF t.event # ui.event
              THEN [ui EXCEPT !.timers = @ \ {t}]
              ELSE [ExecuteSearch(u, t.query, t.plugin) EXCEPT
                      !.timers = (@ \ {t}) \cup {[t EXCEPT !.event = u.event]}]
  BY DEF Tick
<1>2. CASE t.event # ui.event
  <2>1. ui' = [ui EXCEPT !.timers = @ \ {t}]
    BY <1>1, <1>2
  <2>2. ui' = Ui(ui.event, ui.sf, ui.prov, ui.sel, ui.query, ui.shownAs, ui.flight, ui.timers \ {t})
    BY <1>0, <2>1, UiIsRecord DEF Ui
  <2> QED BY <2>2, TimerEnds
<1>3. CASE t.event = ui.event
  BY <1>0, <1>1, <1>3, TimerRepeats DEF Ticked, Again
<1> QED BY <1>2, <1>3

-----------------------------------------------------------------------------
(* The theorems.                                                           *)

LEMMA InitInv == Init => Inv
<1> SUFFICES ASSUME Init PROVE Inv
  OBVIOUS
<1> DEFINE prov == [p \in Pane |-> EmptyProvider(0)]
           sel == [p \in Pane |-> 0]
           query == [p \in Pane |-> Empty]
           flight == [e \in Search |-> NoSearch]
<1>1. ui = Ui(0, ForSources, prov, sel, query, EmptyProvider(0), flight, {})
  BY DEF Init
<1>2. /\ IsList(EmptyProvider(0)) /\ EmptyProvider(0).event = 0 /\ EmptyProvider(0).query = Empty
      /\ EmptyProvider(0).items = <<>> /\ EmptyProvider(0).key = None
  BY PanesAssumption, EmptyProviderIsList DEF EmptyProvider, List
<1>3. /\ \A p \in Pane : prov[p] = EmptyProvider(0) /\ sel[p] = 0 /\ query[p] = Empty
      /\ prov = [p \in Pane |-> prov[p]] /\ sel \in [Pane -> Nat] /\ query \in [Pane -> Query]
      /\ \A e \in Search : flight[e] = NoSearch
      /\ flight \in [Search -> Searches \cup {NoSearch}]
  BY PanesAssumption
<1> HIDE DEF prov, sel, query, flight
<1>4. /\ ui = Ui(ui.event, ui.sf, ui.prov, ui.sel, ui.query, ui.shownAs, ui.flight, ui.timers)
      /\ ui.event = 0 /\ ui.sf = ForSources /\ ui.prov = prov /\ ui.sel = sel
      /\ ui.query = query /\ ui.shownAs = EmptyProvider(0) /\ ui.flight = flight /\ ui.timers = {}
  BY <1>1 DEF Ui
<1>5. UiTypeOK(ui)
  BY <1>2, <1>3, <1>4, PanesAssumption, PaneFacts DEF UiTypeOK
<1>6. SelectionInRange(ui) /\ RowsAreCurrent(ui) /\ TimerIsCurrent(ui) /\ SearchesAreOld(ui)
  BY <1>3, <1>4, PaneFacts DEF SelectionInRange, RowsAreCurrent, TimerIsCurrent, SearchesAreOld
<1>7. \A p \in Pane : Selected(ui, p) = None
  BY <1>2, <1>3, <1>4 DEF Selected
<1>8. NothingAhead(ui) /\ ChoicesIn(ui)
  BY <1>2, <1>3, <1>4, PaneFacts DEF NothingAhead, ChoicesIn
<1>9. SearchIsCurrent(ui)
  BY <1>2, <1>3, <1>4, <1>7, PaneFacts DEF SearchIsCurrent, SelectedPlugin
<1>10. TypeOK
  <2>1. visible = FALSE /\ executing = FALSE /\ jobs = 0 /\ pasting = FALSE /\ MaxJobs \in Nat
    BY PanesAssumption DEF Init
  <2>2. jobs \in 0..MaxJobs
    BY <2>1
  <2>3. visible \in BOOLEAN /\ executing \in BOOLEAN /\ pasting \in BOOLEAN
    BY <2>1, Zenon
  <2> QED BY <1>5, <2>2, <2>3, Zenon DEF TypeOK
<1> QED BY <1>5, <1>6, <1>8, <1>9, <1>10 DEF Inv, PanesInv, UiInv, JobIsWhole, Init

\* What every action does to the panes, and that only an execution posts a job.
LEMMA NextMoves ==
    ASSUME Inv, Next
    PROVE  Moves(ui, ui') /\ JobIsWhole'
<1>0. PanesOK(ui)
  BY InvIs
<1>1. CASE KeyExecute \/ KeyMatch \/ Click
  BY <1>1, ExecuteMoves
<1>2. ASSUME job' \in {job, None} PROVE JobIsWhole'
  BY <1>2 DEF Inv, JobIsWhole
<1>3. CASE KeyEdit
  BY <1>0, <1>2, <1>3, KeyEditMoves DEF KeyEdit, PanesOnly
<1>4. CASE MoveSelection
  BY <1>0, <1>2, <1>4, MoveSelectionMoves DEF MoveSelection, PanesOnly
<1>5. CASE KeyNextPane \/ KeyNextPaneOf \/ KeyPrevPane
  BY <1>0, <1>2, <1>5, PaneKeysMove DEF KeyNextPane, KeyNextPaneOf, KeyPrevPane, PanesOnly
<1>6. CASE KeyClearOrHide
  BY <1>0, <1>2, <1>6, KeyClearOrHideMoves DEF KeyClearOrHide, Hide, PanesOnly
<1>7. CASE Toggle
  BY <1>0, <1>2, <1>7, ToggleMoves DEF Toggle, Hide
<1>8. CASE SelectPlugin
  BY <1>0, <1>2, <1>8, SelectPluginMoves DEF SelectPlugin, Hide, vars
<1>9. CASE Paste \/ PasteArrives
  BY <1>0, <1>2, <1>9, PasteMoves DEF Paste, PasteArrives
<1>10. CASE Tick
  BY <1>0, <1>2, <1>10, TickMoves DEF Tick, PanesOnly
<1>11. CASE JobReturns
  <2>1. job' \in {job, None}
    BY <1>11 DEF JobReturns
  <2> QED BY <1>0, <1>2, <1>11, <2>1, JobReturnsMoves
<1>12. ASSUME NEW e \in Search, UpdateUi(e) \/ Drop(e) PROVE Moves(ui, ui') /\ JobIsWhole'
  BY <1>0, <1>2, <1>12, UpdateUiMoves DEF UpdateUi, Drop, PanesOnly
<1> QED BY <1>1, <1>3, <1>4, <1>5, <1>6, <1>7, <1>8, <1>9, <1>10, <1>11, <1>12 DEF Next

\* The variables beside the panes keep their types.
LEMMA TypesKept ==
    ASSUME Inv, Next
    PROVE  /\ visible' \in BOOLEAN /\ executing' \in BOOLEAN /\ jobs' \in 0..MaxJobs
           /\ pasting' \in BOOLEAN
<1>0. /\ visible \in BOOLEAN /\ executing \in BOOLEAN /\ jobs \in 0..MaxJobs /\ pasting \in BOOLEAN
      /\ MaxJobs \in Nat
  BY PanesAssumption DEF Inv, PanesInv, TypeOK
<1>1. ASSUME NEW r, Post(r) PROVE executing' \in BOOLEAN /\ jobs' \in 0..MaxJobs
  <2>1. CASE r.job = None
    BY <1>0, <1>1, <2>1 DEF Post
  <2>2. CASE r.job # None
    BY <1>0, <1>1, <2>2 DEF Post
  <2> QED BY <2>1, <2>2
<1>2. CASE KeyExecute \/ KeyMatch \/ Click
  BY <1>0, <1>1, <1>2 DEF KeyExecute, KeyMatch, Click
<1>3. CASE KeyEdit \/ MoveSelection \/ KeyNextPane \/ KeyNextPaneOf \/ KeyPrevPane \/ Tick
  BY <1>0, <1>3 DEF KeyEdit, MoveSelection, KeyNextPane, KeyNextPaneOf, KeyPrevPane, Tick, PanesOnly
<1>4. CASE KeyClearOrHide \/ Toggle \/ SelectPlugin
  BY <1>0, <1>4 DEF KeyClearOrHide, Toggle, SelectPlugin, Hide, PanesOnly, vars
<1>5. CASE Paste \/ PasteArrives
  BY <1>0, <1>5 DEF Paste, PasteArrives
<1>6. CASE JobReturns
  <2>1. jobs > 0 /\ jobs' = jobs - 1 /\ pasting' = pasting
    BY <1>6 DEF JobReturns
  <2>2. visible' \in {visible, FALSE} /\ executing' \in {executing, FALSE}
    BY <1>6 DEF JobReturns
  <2>3. jobs' \in 0..MaxJobs
    BY <1>0, <2>1
  <2>4. visible' \in BOOLEAN /\ executing' \in BOOLEAN /\ pasting' \in BOOLEAN
    BY <1>0, <2>1, <2>2, Zenon
  <2> QED BY <2>3, <2>4
<1>7. ASSUME NEW e \in Search, UpdateUi(e) \/ Drop(e)
      PROVE  visible' = visible /\ executing' = executing /\ jobs' = jobs /\ pasting' = pasting
  BY <1>7 DEF UpdateUi, Drop, PanesOnly
<1> QED BY <1>0, <1>2, <1>3, <1>4, <1>5, <1>6, <1>7 DEF Next

LEMMA NextInv == Inv /\ [Next]_vars => Inv'
<1> SUFFICES ASSUME Inv, [Next]_vars PROVE Inv'
  OBVIOUS
<1>1. CASE UNCHANGED vars
  BY <1>1 DEF vars, Inv, PanesInv, TypeOK, JobIsWhole
<1>2. CASE Next
  <2>1. PanesOK(ui') /\ JobIsWhole'
    BY <1>2, NextMoves DEF Moves
  <2>2. TypeOK'
    BY <1>2, <2>1, TypesKept DEF TypeOK, PanesOK, UiInv
  <2> QED BY <2>1, <2>2 DEF Inv, PanesInv, PanesOK
<1> QED BY <1>1, <1>2

LEMMA SpecInv == Spec => []Inv
<1> QED BY InitInv, NextInv, PTL DEF Spec

\* The invariant of the panes, in every reachable state: whatever keys,
\* answers, timers, pastes and requests come in whatever order, the selection
\* addresses a match, the rows are those of the list the keys act on, a timer
\* in force repeats the search of the user, nothing is left ahead, and a search
\* in flight is condemned as soon as the user has left the sources pane.
THEOREM PanesCorrect == Spec => []PanesInv
<1>1. Inv => PanesInv
  BY DEF Inv
<1> QED BY <1>1, SpecInv, PTL

\* What is offered in the later panes belongs to what was chosen in the earlier
\* ones: no search that lands late exchanges the source under an action.
THEOREM ChoicesStay == Spec => []ChoicesMatch
<1>1. Inv => ChoicesMatch
  BY DEF Inv, ChoicesIn, ChoicesMatch
<1> QED BY <1>1, SpecInv, PTL

\* Once no search for the current count is in flight, the sources pane shows
\* the results of the query and the plugin that the user sees.
THEOREM DisplayIsRight == Spec => []DisplayedAnswersQuery
<1>1. Inv => DisplayedAnswersQuery
  <2> SUFFICES ASSUME Inv, ui.sf = ForSources, ui.event = 0 \/ ui.flight[ui.event] = NoSearch
               PROVE  /\ ui.prov[ForSources].query = ui.query[ForSources]
                      /\ ui.prov[ForSources].key = SelectedPlugin(ui)
    BY DEF DisplayedAnswersQuery
  <2>1. SearchIsCurrent(ui)
    BY DEF Inv, PanesInv, UiInv
  <2> QED BY <2>1 DEF SearchIsCurrent
<1> QED BY <1>1, SpecInv, PTL

\* The test of state_is_in_initial_state is enough: no pane holds any text.
THEOREM InitialIsClean == Spec => []InitialStateIsClean
<1>1. Inv => InitialStateIsClean
  <2> SUFFICES ASSUME Inv, InInitialState(ui), NEW p \in Pane PROVE ui.query[p] = Empty
    BY DEF InitialStateIsClean
  <2>1. NothingAhead(ui)
    BY DEF Inv, PanesInv, UiInv
  <2> QED BY <2>1, PaneFacts DEF NothingAhead, InInitialState
<1> QED BY <1>1, SpecInv, PTL

\* Every job posted to the thread pool is whole, whichever pane it was executed
\* from: its action was offered for its source, and it has a target exactly
\* when the action wants one, made for that action from a text.
THEOREM JobsAreWhole == Spec => []JobIsWhole
<1>1. Inv => JobIsWhole
  BY DEF Inv
<1> QED BY <1>1, SpecInv, PTL

\* The searches in flight, as the contract counts them.
Live(u) == {e \in Search : u.flight[e] # NoSearch}

LEMMA IssuedIsLive ==
    ASSUME NEW u, NEW v, UiTypeOK(u), NEW r \in Searches, v.event \in Search,
           v.flight = [u.flight EXCEPT ![v.event] = r]
    PROVE  Live(v) = Live(u) \cup {v.event}
<1>1. u.flight \in [Search -> Searches \cup {NoSearch}] /\ r # NoSearch
  BY PanesAssumption DEF UiTypeOK
<1>2. v.flight[v.event] = r /\ \A e \in Search : e # v.event => v.flight[e] = u.flight[e]
  BY <1>1
<1> QED BY <1>1, <1>2 DEF Live

LEMMA LandedIsNotLive ==
    ASSUME NEW u, NEW v, UiTypeOK(u), NEW e \in Search,
           v.flight = [u.flight EXCEPT ![e] = NoSearch]
    PROVE  Live(v) = Live(u) \ {e}
<1>1. u.flight \in [Search -> Searches \cup {NoSearch}]
  BY DEF UiTypeOK
<1>2. v.flight[e] = NoSearch /\ \A x \in Search : x # e => v.flight[x] = u.flight[x]
  BY <1>1
<1> QED BY <1>2 DEF Live

\* Every step of the panes is a step of the contract, or none at all.
LEMMA StepRefines ==
    ASSUME Inv, Moves(ui, ui')
    PROVE  Contract!Next
<1>0. UiTypeOK(ui) /\ UiTypeOK(ui') /\ Live(ui) = {e \in Search : ui.flight[e] # NoSearch}
      /\ Live(ui') = {e \in Search : ui'.flight[e] # NoSearch}
      /\ Search = 1..MaxEvent
  BY DEF Inv, PanesInv, UiInv, Moves, PanesOK, Live, Search
<1>1. /\ ui.event \in Nat /\ ui'.event \in Nat /\ MaxEvent \in Nat /\ ui'.event <= MaxEvent
  BY <1>0, EventIsNat
<1>2. CASE Handles(ui, ui')
  <2>1. /\ ui'.event \in ui.event..MaxEvent
        /\ ui'.prov[ForSources].event \in {ui.prov[ForSources].event} \cup (ui.event + 1..ui'.event)
        /\ (ui.sf = ForSources /\ ~ (ui'.sf = ForSources)) => ui'.event > ui.event
    BY <1>2 DEF Handles
  <2>2. \/ Live(ui') = Live(ui)
        \/ /\ ui'.event > ui.event /\ ui'.prov[ForSources].event # ui'.event
           /\ ui'.sf = ForSources
           /\ Live(ui') = Live(ui) \cup {ui'.event}
    <3>1. CASE ui'.flight = ui.flight
      BY <3>1 DEF Live
    <3>2. ASSUME ui'.event > ui.event, NEW r \in Searches,
                 ui'.flight = [ui.flight EXCEPT ![ui'.event] = r]
          PROVE  Live(ui') = Live(ui) \cup {ui'.event}
      <4>1. ui'.event \in Search
        BY <1>1, <3>2 DEF Search
      <4> QED BY <1>0, <3>2, <4>1, IssuedIsLive
    <3> QED BY <1>2, <3>1, <3>2 DEF Handles
  <2>3. Contract!Handle
    BY <1>0, <2>1, <2>2 DEF Contract!Handle
  <2> QED BY <2>3 DEF Contract!Next
<1>3. CASE AnswersSearch(ui, ui')
  <2>1. PICK e \in Search :
          /\ ui.flight[e] # NoSearch /\ ui'.flight = [ui.flight EXCEPT ![e] = NoSearch]
          /\ ui'.event = ui.event /\ ui'.sf = ui.sf
          /\ \/ /\ ui.sf = ForSources /\ e > ui.prov[ForSources].event
                /\ ui'.prov[ForSources].event = e
             \/ e # ui.event /\ ui'.prov = ui.prov
    BY <1>3 DEF AnswersSearch
  <2>2. e \in Live(ui) /\ Live(ui') = Live(ui) \ {e} /\ e \in 1..MaxEvent
    <3>1. Live(ui') = Live(ui) \ {e}
      BY <1>0, <2>1, LandedIsNotLive
    <3> QED BY <1>0, <2>1, <3>1
  <2>3. Contract!Answer(e) \/ Contract!Discard(e)
    BY <1>0, <2>1, <2>2 DEF Contract!Answer, Contract!Discard
  <2> QED BY <2>2, <2>3 DEF Contract!Next
<1> QED BY <1>2, <1>3 DEF Moves

\* The main thread keeps its side of the contract of the source search: it
\* raises the counter when it leaves the sources pane, issues a search only at
\* the new count and for that pane, and takes an answer only there and never
\* behind a newer list.  With PipelineImplementsContract of the worker threads' side
\* this is the whole protocol between the two.
THEOREM PanesImplementContract == Spec => ImplementsContract
<1>1. Init => Contract!Init
  <2> SUFFICES ASSUME Init PROVE Contract!Init
    OBVIOUS
  <2>1. /\ ui.event = 0 /\ ui.sf = ForSources
        /\ ui.prov = [p \in Pane |-> EmptyProvider(0)]
        /\ ui.flight = [e \in Search |-> NoSearch]
    BY DEF Init, Ui
  <2>2. ui.prov[ForSources].event = 0
    BY <2>1, PaneFacts DEF EmptyProvider, List
  <2>3. {e \in Search : ui.flight[e] # NoSearch} = {}
    BY <2>1
  <2> QED BY <2>1, <2>2, <2>3 DEF Contract!Init
<1>2. Inv /\ [Next]_vars => [Contract!Next]_Contract!vars
  <2> SUFFICES ASSUME Inv, [Next]_vars PROVE [Contract!Next]_Contract!vars
    OBVIOUS
  <2>1. CASE UNCHANGED vars
    BY <2>1 DEF vars, Contract!vars
  <2>2. CASE Next
    BY <2>2, NextMoves, StepRefines
  <2> QED BY <2>1, <2>2
<1> QED BY <1>1, <1>2, SpecInv, PTL DEF Spec, ImplementsContract, Contract!Spec

=============================================================================
