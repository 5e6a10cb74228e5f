--------------------------- MODULE SearchContract ---------------------------
(***************************************************************************)
(* What the asynchronous source search promises to the main thread, and    *)
(* what the main thread promises back.  The contract is written over four  *)
(* observables only:                                                       *)
(*                                                                         *)
(*   event     the global event counter of events.c                        *)
(*   shown     the event id of state_providers[SOURCES], the result list   *)
(*             that the user sees in the sources pane                      *)
(*   atSources whether state_sf is SOURCES                                 *)
(*   live      the event ids of the searches that have been issued and     *)
(*             have neither been shown nor dropped                         *)
(*                                                                         *)
(* SearchPipeline implements it from the side of the worker threads,       *)
(* Panes from the side of the main thread.                                 *)
(***************************************************************************)
EXTENDS Naturals

CONSTANT MaxEvent      \* bound on the event counter

VARIABLES event, shown, atSources, live

vars == <<event, shown, atSources, live>>

TypeOK ==
    /\ event \in 0..MaxEvent
    /\ shown \in 0..MaxEvent
    /\ atSources \in BOOLEAN
    /\ live \subseteq 1..MaxEvent

Init ==
    /\ event = 0
    /\ shown = 0
    /\ atSources = TRUE
    /\ live = {}

\* A handler of the main thread may raise the counter, replace the result
\* list by one it built itself (which carries a fresh id) and move to another
\* pane.  Leaving the sources pane always raises the counter: that is what
\* condemns the searches in flight.  A search may be issued at the new count,
\* and only for the sources pane.
Handle ==
    /\ event' \in event..MaxEvent
    /\ shown' \in {shown} \cup ((event + 1)..event')
    /\ atSources' \in BOOLEAN
    /\ atSources /\ ~atSources' => event' > event
    /\ \/ live' = live
       \/ /\ event' > event
          /\ shown' # event'
          /\ atSources'
          /\ live' = live \cup {event'}

\* A finished search becomes the result list: only while the user is in the
\* sources pane, which it does not leave, and never behind a newer list.
Answer(e) ==
    /\ e \in live
    /\ atSources
    /\ e > shown
    /\ shown' = e
    /\ live' = live \ {e}
    /\ UNCHANGED <<event, atSources>>

\* A search may be dropped, but only after the counter has moved on from it.
Discard(e) ==
    /\ e \in live
    /\ e # event
    /\ live' = live \ {e}
    /\ UNCHANGED <<event, shown, atSources>>

Next ==
    \/ Handle
    \/ \E e \in 1..MaxEvent : Answer(e) \/ Discard(e)

Spec == Init /\ [][Next]_vars

=============================================================================
