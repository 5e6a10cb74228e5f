----------------------------- MODULE PluginLoader -----------------------------
(***************************************************************************)
(* The plugin loader (plugin-loader.c) and the settings of a search        *)
(* provider it listens to (search-base.c).  A plugin offers an array of    *)
(* search providers; the loader keeps the providers of the enabled plugins *)
(* in one list sorted by their number of shards, those that take part in a *)
(* default search in a second one, and listens to the providers it listed. *)
(*                                                                         *)
(* All handlers run on the main thread, one after the other, but one calls *)
(* another through a settings or property notification before it ends:     *)
(* each action is a handler with all it sets off.  What a plugin does in   *)
(* activate and deactivate is its own: it may refuse to be activated, and  *)
(* it may offer another array of providers at any time, in these two calls *)
(* included.                                                               *)
(***************************************************************************)
EXTENDS Integers, Sequences, SequencesExt, FiniteSets

CONSTANTS Plugin,       \* the loaded plugins, in the order they were loaded
          Arrays,       \* for each plugin the arrays of providers it may offer
          ShardCounts   \* the numbers of shards a provider may have

VARIABLES stage,    \* "new", "up" or "down"
          setting,  \* the "enabled" key of a plugin's settings
          byDefault,\* the "enabled-in-default" key of a plugin's settings
          enabled,  \* the plugin's enabled property
          offered,  \* the plugin's search_providers
          flag,     \* enabled_in_default_search of a provider
          shards,   \* shard_count of a provider
          lists     \* plugin_loader_search_providers (all),
                    \* plugin_loader_default_search_providers (dflt) and the
                    \* providers whose signals are connected (wired)

vars == <<stage, setting, byDefault, enabled, offered, flag, shards, lists>>

Plugins == ToSet(Plugin)
Offers(p) == UNION {ToSet(a) : a \in Arrays[p]}
Providers == UNION {Offers(p) : p \in Plugins}
Empty == [all |-> <<>>, dflt |-> <<>>, wired |-> {}]

TypeOK ==
    /\ stage \in {"new", "up", "down"}
    /\ setting \in [Plugins -> BOOLEAN] /\ byDefault \in [Plugins -> BOOLEAN]
    /\ enabled \in [Plugins -> BOOLEAN]
    /\ \A p \in Plugins : offered[p] \in Arrays[p] \cup {<<>>}
    /\ flag \in [Providers -> BOOLEAN] /\ shards \in [Providers -> ShardCounts]
    /\ ToSet(lists.all) \cup ToSet(lists.dflt) \cup lists.wired \subseteq Providers

-----------------------------------------------------------------------------
(* Lists of pointers                                                        *)

Before(key, i, j) == key[i] < key[j] \/ (key[i] = key[j] /\ i < j)

\* What a list has at some places, in the order of a key, and of the places
\* where keys are equal.
Arranged(s, places, key) ==
    LET rank(i) == 1 + Cardinality({j \in places : Before(key, j, i)})
    IN [k \in 1 .. Cardinality(places) |-> s[CHOOSE i \in places : rank(i) = k]]

At(s, places) == Arranged(s, places, [i \in places |-> 0])

Only(s, V) == At(s, {i \in DOMAIN s : s[i] \in V})

\* g_ptr_array_remove for each of V: the first occurrence goes.
Without(s, V) ==
    At(s, {i \in DOMAIN s : s[i] \in V => \E j \in 1 .. i - 1 : s[j] = s[i]})

\* g_ptr_array_sort with shard_comp, a stable merge sort.
Sorted(s, count) == Arranged(s, DOMAIN s, [i \in DOMAIN s |-> count[s[i]]])

-----------------------------------------------------------------------------
(* A record of lists and what a handler does to it                          *)

\* The rounds of the loop of remove_providers, for the providers V.
Drop(l, V) == [all |-> Without(l.all, V), dflt |-> Without(l.dflt, V),
               wired |-> l.wired \ V]

remove_providers(l, array) == Drop(l, ToSet(array))

\* on_provider_default_search_changed, for those of an array that are in V and
\* wired.
DefaultChanged(l, array, V, on) ==
    [l EXCEPT !.dflt = IF on THEN @ \o Only(array, (V \cap l.wired) \ ToSet(@))
                       ELSE Without(@, V \cap l.wired)]

\* handle_base_settings of every provider of an array: the ones whose flag
\* changes notify the loader.
ApplyDefault(l, array, fl, on) ==
    DefaultChanged(l, array, {v \in ToSet(array) : fl[v] # on}, on)

Listed(l, array, fl) ==
    [all |-> l.all \o array, wired |-> l.wired \cup ToSet(array),
     dflt |-> l.dflt \o Only(array, {v \in ToSet(array) : fl[v]})]

\* add_providers: list, connect, sort, then apply the plugin's settings.
add_providers(l, array, fl, on) ==
    LET m == Listed(l, array, fl)
    IN ApplyDefault([m EXCEPT !.all = Sorted(@, shards)], array, fl, on)

\* A mutant of the next definition: the providers stay in the default list.
DropOffered_All(l, array) == [l EXCEPT !.all = Without(@, ToSet(array))]

\* The loop of on_plugin_search_providers_changed: it drops the listed providers
\* that the plugin's new array holds.
DropOffered(l, array) == Drop(l, ToSet(array) \cap ToSet(l.all))

on_plugin_search_providers_changed(l, p, array, isEnabled, fl) ==
    LET m == DropOffered(l, array)
    IN IF isEnabled THEN add_providers(m, array, fl, byDefault[p]) ELSE m

\* The flags once the settings of a plugin were applied to its providers.
Flags(fl, array, on) == [v \in Providers |-> IF v \in ToSet(array) THEN on ELSE fl[v]]

\* The lists and flags after the plugin offered another array.
Offer(l, fl, p, array, isEnabled) ==
    [lists |-> on_plugin_search_providers_changed(l, p, array, isEnabled, fl),
     flag |-> IF isEnabled THEN Flags(fl, array, byDefault[p]) ELSE fl]

\* What activate and deactivate leave of the offer: the old array, or another
\* one with its notification.
Offered(l, fl, p, array, isEnabled) ==
    IF array = offered[p] THEN [lists |-> l, flag |-> fl]
    ELSE Offer(l, fl, p, array, isEnabled)

\* on_plugin_enabled_changed
on_plugin_enabled_changed(l, fl, p, array, on) ==
    IF on THEN [lists |-> add_providers(l, array, fl, byDefault[p]),
                flag |-> Flags(fl, array, byDefault[p])]
    ELSE [lists |-> remove_providers(l, array), flag |-> fl]

-----------------------------------------------------------------------------
Init ==
    /\ stage = "new" /\ lists = Empty
    /\ setting = [p \in Plugins |-> FALSE] /\ byDefault = [p \in Plugins |-> FALSE]
    /\ enabled = [p \in Plugins |-> FALSE]
    /\ offered = [p \in Plugins |-> <<>>]
    /\ flag = [v \in Providers |-> FALSE]
    /\ shards = [v \in Providers |-> 1]

\* initialize_plugin: the plugins whose settings want them and that come up.
initialize_plugin(want, ready) == {p \in ready : want[p]}

\* plugin_loader_initialize: every plugin is activated if its settings want
\* it, then the signals of the plugins are connected, then the providers of the
\* plugins that are enabled are added in the order of loading.
Initialize ==
    /\ stage = "new" /\ stage' = "up"
    /\ \E want, on \in [Plugins -> BOOLEAN], ready \in SUBSET Plugins,
          arrays \in {f \in [Plugins -> UNION {Arrays[p] : p \in Plugins}] :
                        \A p \in Plugins : f[p] \in Arrays[p]} :
        LET live == initialize_plugin(want, ready)
            start == Only(Plugin, live)
            listed == FlattenSeq([i \in DOMAIN start |-> arrays[start[i]]])
            of(v) == CHOOSE p \in Plugins : v \in Offers(p)
            final == [v \in Providers |->
                        IF v \in ToSet(listed) THEN on[of(v)] ELSE flag[v]]
            all == Sorted(listed, shards)
        IN /\ setting' = [p \in Plugins |-> p \in live]
           /\ enabled' = setting'
           /\ byDefault' = on
           /\ offered' = arrays
           /\ flag' = final
           /\ lists' = [all |-> all, wired |-> ToSet(all),
                        dflt |-> Only(listed, {v \in Providers : final[v]})]
    /\ UNCHANGED shards

\* The "enabled" key changes and handle_enabled follows it.  A plugin that is
\* not activated is deactivated and the key is written back; the change of the
\* key this causes finds the plugin as the key says.
SwitchOn(p) ==
    /\ stage = "up" /\ ~setting[p]
    /\ \E ok \in BOOLEAN, array \in Arrays[p] :
         LET m == Offered(lists, flag, p, array, enabled[p])
             n == IF ok THEN on_plugin_enabled_changed(m.lists, m.flag, p, array, TRUE)
                  ELSE m
         IN /\ offered' = [offered EXCEPT ![p] = array]
            /\ enabled' = [enabled EXCEPT ![p] = ok]
            /\ setting' = [setting EXCEPT ![p] = ok]
            /\ lists' = n.lists /\ flag' = n.flag
    /\ UNCHANGED <<stage, byDefault, shards>>

SwitchOff(p) ==
    /\ stage = "up" /\ setting[p]
    /\ \E array \in Arrays[p] :
         LET m == Offered(lists, flag, p, array, enabled[p])
             n == on_plugin_enabled_changed(m.lists, m.flag, p, array, FALSE)
         IN /\ offered' = [offered EXCEPT ![p] = array]
            /\ lists' = n.lists /\ flag' = n.flag
    /\ enabled' = [enabled EXCEPT ![p] = FALSE]
    /\ setting' = [setting EXCEPT ![p] = FALSE]
    /\ UNCHANGED <<stage, byDefault, shards>>

\* settings_changed_handler for "enabled-in-default": every provider the
\* plugin offers, listed or not, takes the value.
SetDefault(p) ==
    /\ stage = "up"
    /\ byDefault' = [byDefault EXCEPT ![p] = ~@]
    /\ lists' = ApplyDefault(lists, offered[p], flag, byDefault'[p])
    /\ flag' = Flags(flag, offered[p], byDefault'[p])
    /\ UNCHANGED <<stage, setting, enabled, offered, shards>>

\* The plugin offers another array of providers.
ChangeOffer(p) ==
    /\ stage = "up"
    /\ \E array \in Arrays[p] \ {offered[p]} :
         LET m == Offer(lists, flag, p, array, enabled[p])
         IN /\ lists' = m.lists /\ flag' = m.flag
            /\ offered' = [offered EXCEPT ![p] = array]
    /\ UNCHANGED <<stage, setting, byDefault, enabled, shards>>

\* set_shard_count by the plugin; on_shard_count_changed if it is wired.
SetShards(v) ==
    /\ stage = "up"
    /\ \E n \in ShardCounts \ {shards[v]} : shards' = [shards EXCEPT ![v] = n]
    /\ lists' = IF v \in lists.wired THEN [lists EXCEPT !.all = Sorted(@, shards')]
                ELSE lists
    /\ UNCHANGED <<stage, setting, byDefault, enabled, offered, flag>>

\* set_enabled_in_default_search by the plugin.
SetFlag(v) ==
    /\ stage = "up"
    /\ flag' = [flag EXCEPT ![v] = ~@]
    /\ lists' = DefaultChanged(lists, <<v>>, {v}, flag'[v])
    /\ UNCHANGED <<stage, setting, byDefault, enabled, offered, shards>>

\* plugin_loader_shutdown
Shutdown ==
    /\ stage = "up" /\ stage' = "down"
    /\ lists' = Empty
    /\ UNCHANGED <<setting, byDefault, enabled, offered, flag, shards>>

Next ==
    \/ Initialize
    \/ \E p \in Plugins : \/ SwitchOn(p)
                          \/ SwitchOff(p)
                          \/ SetDefault(p)
                          \/ ChangeOffer(p)
    \/ \E v \in Providers : SetShards(v) \/ SetFlag(v)
    \/ Shutdown

Spec == Init /\ [][Next]_vars

-----------------------------------------------------------------------------
Times(s, v) == Cardinality({i \in DOMAIN s : s[i] = v})

\* While the loader is up, a provider that its plugin offers is in the search
\* list exactly once if the plugin is enabled and not at all otherwise, its
\* signals are connected in the first case only, and it is in the default list,
\* once, exactly if it is listed and takes part in a default search; the search
\* list is in the order of the shard counts.  So whatever sequence of settings,
\* activations, and changes of the providers came before, no provider is
\* searched twice, forgotten, or missed by a later change of a setting.
OffersAreListed ==
    stage = "up" =>
      /\ \A p \in Plugins : \A v \in ToSet(offered[p]) :
           LET listed == IF enabled[p] THEN 1 ELSE 0
           IN /\ Times(lists.all, v) = listed
              /\ v \in lists.wired <=> enabled[p]
              /\ Times(lists.dflt, v) = IF flag[v] THEN listed ELSE 0
      /\ \A i, j \in DOMAIN lists.all :
           i < j => shards[lists.all[i]] <= shards[lists.all[j]]
=============================================================================
