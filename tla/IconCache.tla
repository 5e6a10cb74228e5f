------------------------------ MODULE IconCache ------------------------------
(***************************************************************************)
(* The cache of icons (icon-cache-service.c).  Paintables by icon name and *)
(* icon names by content type are looked up in the theme once and kept     *)
(* until the theme changes or, a moment after the last of a burst of       *)
(* changes, files in its directories do.  Both tables are filled and       *)
(* cleared alike: an entry stands for a name in either.  What a file is    *)
(* changed to is a version number; the queue of the file monitor is part   *)
(* of the external library.                                                *)
(***************************************************************************)
EXTENDS Integers

CONSTANTS Entry,       \* icon names and content types
          MaxVersion   \* bound: how often the files of an entry change

Uncached == -1         \* not in the table

VARIABLES disk,     \* the version of an entry's files
          cached,   \* the version in icon_cache or mime_type_map, or Uncached
          watching, \* monitor: the directories of the theme are watched
          events,   \* changes the monitor has seen and not reported
          timer     \* debounce_timer_id is set

vars == <<disk, cached, watching, events, timer>>

TypeOK ==
    /\ disk \in [Entry -> 0 .. MaxVersion] /\ cached \in [Entry -> Uncached .. MaxVersion]
    /\ watching \in BOOLEAN /\ events \in Nat /\ timer \in BOOLEAN

Cleared == [e \in Entry |-> Uncached]

\* icon_cache_service_initialize; setup_directory_monitoring may fail.
Init == /\ disk = [e \in Entry |-> 0]
        /\ cached = Cleared
        /\ watching = TRUE
        /\ events = 0
        /\ timer = FALSE

FileChange(e) ==
    /\ disk[e] < MaxVersion
    /\ disk' = [disk EXCEPT ![e] = @ + 1]
    /\ events' = IF watching THEN events + 1 ELSE events
    /\ UNCHANGED <<cached, watching, timer>>

\* icon_cache_service_get_paintable_for_icon_name and
\* icon_cache_service_best_icon_name_for_mime_type
Get(e) ==
    /\ cached' = [cached EXCEPT ![e] = IF @ = Uncached THEN disk[e] ELSE @]
    /\ UNCHANGED <<disk, watching, events, timer>>

\* A mutant of the next action: a timer that runs is removed, and not set again.
on_file_change_Once ==
    /\ events > 0
    /\ events' = events - 1
    /\ timer' = ~timer
    /\ UNCHANGED <<disk, cached, watching>>

\* The timer starts anew.
on_file_change ==
    /\ events > 0
    /\ events' = events - 1
    /\ timer' = TRUE
    /\ UNCHANGED <<disk, cached, watching>>

\* debounced_cache_clear
debounced_cache_clear ==
    /\ timer
    /\ cached' = Cleared
    /\ timer' = FALSE
    /\ UNCHANGED <<disk, watching, events>>

\* on_theme_changed: the old monitor goes with the changes it has not
\* reported; the new one may fail to start.
on_theme_changed ==
    /\ cached' = Cleared
    /\ events' = 0
    /\ watching' \in BOOLEAN
    /\ UNCHANGED <<disk, timer>>

Next == \/ \E e \in Entry : FileChange(e) \/ Get(e)
        \/ on_file_change
        \/ debounced_cache_clear
        \/ on_theme_changed

Spec == Init /\ [][Next]_vars

-----------------------------------------------------------------------------
\* As long as the directories are watched, an entry of the cache that is older
\* than the files is on its way out: a change is still to be reported or the
\* timer that clears the cache is armed, however changes, reports, lookups,
\* timeouts and changes of the theme follow each other.
StaleIsPending ==
    watching /\ (\E e \in Entry : cached[e] \notin {Uncached, disk[e]})
      => events > 0 \/ timer
=============================================================================
