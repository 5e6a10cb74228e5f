------------------------------ MODULE OpenFiles ------------------------------
(***************************************************************************)
(* Opening files and URIs with their applications: launch_files and         *)
(* launch_uris of systemd-launcher.c and common-launcher.c, the command     *)
(* line of a desktop entry, and the suffix :line:column of path-utils.h.    *)
(*                                                                         *)
(* An item is a URI.  Of a file URI the model keeps how many numbers end    *)
(* its path ("a:12:5" has two) and which of the paths that are left after   *)
(* cutting some off exists.  What becomes of a launch is ScopeLaunch.       *)
(***************************************************************************)
EXTENDS Naturals, Sequences, SequencesExt

CONSTANTS
    App,         \* applications
    DisplayName, \* g_app_info_get_name of each: two may have the same
    TextApp,     \* the handler of text/plain, or None
    OnBus,       \* applications in dbus_name_to_object_path
    None,
    MaxItems

AppNames == {DisplayName[a] : a \in App}

\* The words of an Exec line: a word, a file or URI placeholder, another code.
Exec == {<<"word">>, <<"word", "other", "files">>, <<"files", "word", "files">>}

\* exists is how many numbers to cut off; Nowhere if none of the paths exists or
\* g_file_query_info fails on the one that does, which has the same outcome.
Nowhere == 4
Item ==
    {i \in [scheme : {"file"}, numbers : {0, 3}, exists : 0 .. Nowhere, app : App \cup {None}] :
        i.exists <= i.numbers \/ i.exists = Nowhere} \cup
    [scheme : {"web"}, numbers : {0}, exists : {0}, app : App \cup {None}] \cup
    [scheme : {"none"}, numbers : {0}, exists : {0}, app : {None}]

VARIABLES
    items,    \* what to open
    call,     \* through which function
    exec,     \* the command line of the applications
    terminal, \* they need a terminal
    at,       \* how many items have been grouped
    groups,   \* app_to_uris, by the name of an application: places in items
    launches, \* the launches so far
    phase

vars == <<items, call, exec, terminal, at, groups, launches, phase>>

TypeOK ==
    /\ items \in Seq(Item)
    /\ call \in {"files", "uris", "common"}
    /\ exec \in Exec /\ terminal \in BOOLEAN
    /\ at \in 0 .. Len(items)
    /\ groups \in [AppNames -> Seq(Nat)]
    /\ phase \in {"idle", "group", "launch", "done"}

Init ==
    /\ items = <<>> /\ call = "files" /\ exec = <<"word">> /\ terminal = FALSE
    /\ at = 0 /\ launches = <<>> /\ phase = "idle"
    /\ groups = [d \in AppNames |-> <<>>]

-----------------------------------------------------------------------------

\* Faulty variant: one number is cut off only.
Cut_One(i) == IF i.exists <= 1 /\ i.exists <= i.numbers THEN i.exists ELSE 0

\* path_find_existing_base with max_strips = 2: how many numbers are cut off.
\* The path stays whole when no shorter one exists.
Cut(i) ==
    IF i.exists <= 2 /\ i.exists <= i.numbers THEN i.exists ELSE 0

\* g_file_query_info fails on a path that is not there; an unknown content type
\* is opened as text.
QueryHandler(i) ==
    IF Cut(i) # i.exists THEN None ELSE IF i.app = None THEN TextApp ELSE i.app

FileHandler(i) == IF i.scheme # "file" THEN None ELSE QueryHandler(i)

UriHandler(i) ==
    CASE i.scheme = "none" -> None
      [] i.scheme = "file" -> QueryHandler(i)
      [] OTHER             -> i.app

Handler(i) == IF call = "files" THEN FileHandler(i) ELSE UriHandler(i)

\* common_launcher_launch_files cuts nothing off and has no default: the query
\* fails on anything but a file under its whole name.
CommonHandler(i) == IF i.scheme = "file" /\ i.exists = 0 THEN i.app ELSE None

\* Stands for the words of the command line itself; files are their places in items.
Word == 0

\* get_argv_for_app and get_argv_for_app_with_uris, with get_terminal_argv:
\* other codes are left out.
Argv(uris) ==
    (IF terminal THEN <<Word>> ELSE <<>>) \o
    FlattenSeq([k \in 1 .. Len(exec) |->
                  CASE exec[k] = "files" -> uris
                    [] exec[k] = "word"  -> <<Word>>
                    [] OTHER             -> <<>>])

Open ==
    /\ phase = "idle" /\ phase' = "group"
    /\ \E n \in 0 .. MaxItems : items' \in [1 .. n -> Item]
    /\ call' \in {"files", "uris", "common"}
    /\ exec' \in Exec /\ terminal' \in BOOLEAN
    /\ UNCHANGED <<at, groups, launches>>

\* One turn of the first loop: items without a handler are skipped, the others
\* are collected under the name of theirs.
Group ==
    /\ phase = "group" /\ call # "common" /\ at < Len(items)
    /\ at' = at + 1
    /\ LET a == Handler(items[at + 1]) IN
          groups' = IF a = None THEN groups
                    ELSE [groups EXCEPT ![DisplayName[a]] = Append(@, at + 1)]
    /\ UNCHANGED <<items, call, exec, terminal, launches, phase>>

EndGroup ==
    /\ phase = "group" /\ call # "common" /\ at = Len(items)
    /\ phase' = "launch"
    /\ UNCHANGED <<items, call, exec, terminal, at, groups, launches>>

\* app_name_to_info keeps the handler of the first item of a name.
Kept(d) == Handler(items[groups[d][1]])

\* One turn of the second loop, in the order of the hash table, through
\* launch_wrapper_internal: an application that is on the bus and has nothing but
\* its name on the command line is activated.
LaunchGroup(d) ==
    /\ phase = "launch" /\ groups[d] # <<>>
    /\ groups' = [groups EXCEPT ![d] = <<>>]
    /\ LET a == Kept(d)
           argv == Argv(groups[d])
       IN launches' = Append(launches,
                          [app |-> a, argv |-> argv,
                           way |-> IF a \in OnBus /\ Len(argv) = 1 THEN "activate" ELSE "scope"])
    /\ UNCHANGED <<items, call, exec, terminal, at, phase>>

EndLaunch ==
    /\ phase = "launch" /\ \A d \in AppNames : groups[d] = <<>>
    /\ phase' = "done"
    /\ UNCHANGED <<items, call, exec, terminal, at, groups, launches>>

\* common_launcher_launch_files with files that are no directories: the handler
\* of the first file gets all of them.
LaunchCommon ==
    /\ phase = "group" /\ call = "common"
    /\ phase' = "done"
    /\ launches' =
         IF items = <<>> \/ CommonHandler(items[1]) = None THEN <<>>
         ELSE <<[app |-> CommonHandler(items[1]), argv |-> [k \in 1 .. Len(items) |-> k],
                 way |-> "common"]>>
    /\ UNCHANGED <<items, call, exec, terminal, at, groups>>

Next ==
    \/ Open \/ Group \/ EndGroup \/ EndLaunch \/ LaunchCommon
    \/ \E d \in AppNames : LaunchGroup(d)

Spec == Init /\ [][Next]_vars

-----------------------------------------------------------------------------
(* Properties.                                                             *)

\* What the item names: with a suffix of up to two numbers cut off, a file.
Resolves(i) == i.scheme = "web" \/ (i.scheme = "file" /\ i.exists <= i.numbers /\ i.exists <= 2)

\* The application an item is meant for.
MeantFor(i) ==
    IF ~ Resolves(i) \/ (call = "files" /\ i.scheme = "web") THEN None
    ELSE IF i.scheme = "file" /\ i.app = None THEN TextApp ELSE i.app

\* The applications of a name, and what they are to open, as places in items.
Called(d) == {a \in App : DisplayName[a] = d}
Theirs(d) == {k \in 1 .. Len(items) : MeantFor(items[k]) \in Called(d)}

\* A command line holds every item once for each placeholder, nothing else, and
\* items side by side are in their order.
Carries(argv, places) ==
    /\ \A m \in DOMAIN argv : argv[m] \in places \cup {Word}
    /\ \A k \in places : Cardinality({m \in DOMAIN argv : argv[m] = k})
                           = Cardinality({w \in DOMAIN exec : exec[w] = "files"})
    /\ \A m \in 2 .. Len(argv) :
          Word \notin {argv[m - 1], argv[m]} => argv[m - 1] < argv[m]

\* In the end there has been one launch for every name of an application that
\* something is meant for, and none for another name: with just the items meant
\* for applications of that name, in their order, for each placeholder, and by the
\* application the first of them is meant for.  An application whose name no other
\* has thus opens just what is meant for it; an item nobody can open does not keep
\* the others from being opened.
OneLaunchPerName ==
    phase = "done" /\ call # "common" =>
        \A d \in AppNames :
            LET of == {n \in DOMAIN launches : launches[n].app \in Called(d)}
            IN IF Theirs(d) = {} THEN of = {}
               ELSE \E n \in of, k \in Theirs(d) :
                        /\ of = {n} /\ Carries(launches[n].argv, Theirs(d))
                        /\ \A j \in Theirs(d) : k <= j
                        /\ launches[n].app = MeantFor(items[k])

=============================================================================
