-------------------------------- MODULE Desk --------------------------------
(* What the main thread keeps in step with what is outside it, one component  *)
(* at a time: the table of applications on the bus, the opening of files, the *)
(* lists of search providers, the icon cache, the query, the rows and the     *)
(* scores.  They share no variable; a behaviour is about one of them, and the *)
(* others stay as they were.                                                  *)
EXTENDS Naturals, Sequences, FiniteSets

CONSTANTS
    Name, Owner, MaxChanges, None,               \* of module ScopeMonitor
    App, DisplayName, TextApp, OnBus, MaxItems,  \* of OpenFiles
    Plugin, Arrays, ShardCounts,                 \* of PluginLoader
    Entry, MaxVersion,                           \* of IconCache
    Tails, Composed, Typed, MaxLen, MaxCursor,   \* of QueryEditor
    BoxSizes, MaxSize, MaxEvent,                 \* of ResultRows
    Needles, Texts, Ends, MaxText                \* of FuzzyMatch

VARIABLES
    part,
    owner, exported, left, changes, signals, phase, toScan, asked, found, pending,
    table, slow, odd,
    items, call, exec, terminal, at, groups, launches, stage,
    loaded, setting, byDefault, enabled, offered, flag, shards, lists,
    disk, cached, watching, events, timer,
    state_sf, queries, cursor, preedit, drawn,
    event, shown, sources, later, pool, visible,
    needle, text, cols

busVars == <<owner, exported, left, changes, signals, phase, toScan, asked, found,
             pending, table, slow, odd>>
openVars == <<items, call, exec, terminal, at, groups, launches, stage>>
pluginVars == <<loaded, setting, byDefault, enabled, offered, flag, shards, lists>>
iconVars == <<disk, cached, watching, events, timer>>
queryVars == <<state_sf, queries, cursor, preedit, drawn>>
rowVars == <<event, shown, sources, later, pool, visible>>
scoreVars == <<needle, text, cols>>

-----------------------------------------------------------------------------
Bus == INSTANCE ScopeMonitor
Open == INSTANCE OpenFiles WITH phase <- stage
Plugins == INSTANCE PluginLoader WITH stage <- loaded
Icons == INSTANCE IconCache
Query == INSTANCE QueryEditor
Rows == INSTANCE ResultRows
Scores == INSTANCE FuzzyMatch WITH Tails <- Ends

ASSUME BusAssumption == None \notin Name \cup Owner

ASSUME OpenAssumption == None \notin App /\ TextApp \in App \cup {None}

\* Plugins have providers of their own, and none twice in an array.
ASSUME PluginsAssumption ==
    /\ Plugin \in Seq(Plugins!Plugins)
    /\ \A i, j \in DOMAIN Plugin : Plugin[i] = Plugin[j] => i = j
    /\ \A p \in Plugins!Plugins : \A a \in Arrays[p] :
          /\ a \in Seq(Plugins!Offers(p))
          /\ \A i, j \in DOMAIN a : a[i] = a[j] => i = j
    /\ \A p, q \in Plugins!Plugins : p # q => Plugins!Offers(p) \cap Plugins!Offers(q) = {}
    /\ ShardCounts \subseteq Nat /\ 1 \in ShardCounts

ASSUME IconsAssumption == MaxVersion \in Nat

ASSUME QueryAssumption == Tails \subseteq Query!Text /\ Composed \subseteq Query!Text

ASSUME RowsAssumption == BoxSizes \subseteq Nat /\ BoxSizes # {} /\ MaxSize \in Nat

-----------------------------------------------------------------------------
Init ==
    /\ part \in {"bus", "open", "plugins", "icons", "query", "rows", "scores"}
    /\ Bus!Init /\ Open!Init /\ Plugins!Init /\ Icons!Init /\ Query!Init /\ Rows!Init
    /\ Scores!Init
    /\ part # "bus" => \A n \in Name : owner[n] = None

Next ==
    /\ UNCHANGED part
    /\ \/ /\ part = "bus" /\ Bus!Next
          /\ UNCHANGED <<openVars, pluginVars, iconVars, queryVars, rowVars, scoreVars>>
       \/ /\ part = "open" /\ Open!Next
          /\ UNCHANGED <<busVars, pluginVars, iconVars, queryVars, rowVars, scoreVars>>
       \/ /\ part = "plugins" /\ Plugins!Next
          /\ UNCHANGED <<busVars, openVars, iconVars, queryVars, rowVars, scoreVars>>
       \/ /\ part = "icons" /\ Icons!Next
          /\ UNCHANGED <<busVars, openVars, pluginVars, queryVars, rowVars, scoreVars>>
       \/ /\ part = "query" /\ Query!Next
          /\ UNCHANGED <<busVars, openVars, pluginVars, iconVars, rowVars, scoreVars>>
       \/ /\ part = "rows" /\ Rows!Next
          /\ UNCHANGED <<busVars, openVars, pluginVars, iconVars, queryVars, scoreVars>>
       \/ /\ part = "scores" /\ Scores!Next
          /\ UNCHANGED <<busVars, openVars, pluginVars, iconVars, queryVars, rowVars>>

Spec == Init /\ [][Next]_<<part, busVars, openVars, pluginVars, iconVars, queryVars,
                           rowVars, scoreVars>>

Types ==
    /\ Bus!TypeOK /\ Open!TypeOK /\ Plugins!TypeOK /\ Icons!TypeOK /\ Query!TypeOK
    /\ Rows!TypeOK /\ Scores!TypeOK

TableMirrorsBus == Bus!TableMirrorsBus
OneLaunchPerName == Open!OneLaunchPerName
OffersAreListed == Plugins!OffersAreListed
StaleIsPending == Icons!StaleIsPending
CursorInText == Query!CursorInText
EditsWhereDrawn == Query!EditsWhereDrawn
BackspaceDeletes == Query!BackspaceDeletes
RowsShowTheWindow == Rows!RowsShowTheWindow
ScoresAreBest == Scores!ScoresAreBest
HighlightsAreWhole == Scores!HighlightsAreWhole
=============================================================================
