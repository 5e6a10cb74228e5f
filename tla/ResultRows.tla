------------------------------ MODULE ResultRows ------------------------------
(***************************************************************************)
(* The rows in which the matches of a list are shown (result-box.c,        *)
(* match-row.c) and the commands that take a match by its row              *)
(* (controller.c, main-container.c, scroll-controller.c).                  *)
(*                                                                         *)
(* A pool of rows is kept for the whole time.  A row remembers the event   *)
(* of the list and the index of the match it shows; when the list is laid  *)
(* out again, a row that shows a match still in the window keeps it, the   *)
(* other rows take the matches that are missing, and the pool is sorted so *)
(* that the rows in front, as many as are visible, are the window in its   *)
(* order.  Lists of matches are known by event and size.                   *)
(***************************************************************************)
EXTENDS Integers, Sequences, FiniteSets

CONSTANTS BoxSizes,   \* values of the setting box-size
          MaxSize,    \* bound: matches in a list
          MaxEvent    \* bound: searches

VARIABLES event,     \* the event counter
          shown,     \* the list of the pane the user is in, and the selection
          sources,   \* the list of the sources pane while the user is in a
                     \* later one
          later,     \* the user is in a later pane
          pool,      \* bob_launcher_result_box_row_pool
          visible    \* bob_launcher_result_box_visible_size

vars == <<event, shown, sources, later, pool, visible>>

TypeOK ==
    /\ event \in 0 .. MaxEvent /\ later \in BOOLEAN
    /\ \A l \in {shown, sources} :
          l.event <= event /\ l.size \in 0 .. MaxSize /\ l.selected \in 0 .. MaxSize
    /\ Len(pool) \in BoxSizes /\ visible \in 0 .. Len(pool)

List(e, n, sel) == [event |-> e, size |-> n, selected |-> sel]
Row(e, i) == [event |-> e, abs |-> i]
Smaller(a, b) == IF a < b THEN a ELSE b
Larger(a, b) == IF a > b THEN a ELSE b

-----------------------------------------------------------------------------
(* bob_launcher_result_box_update_layout                                    *)

VisibleSize(l, box) == Smaller(l.size, box)
StartIndex(l, n) == Larger(0, Smaller(l.size - n, l.selected - (n - 1) \div 2))

should_swap(a, b) == a.event < b.event \/ (a.event = b.event /\ a.abs > b.abs)

\* sort_row_pool, an insertion sort: the newest list first, its matches in
\* order, and rows that show the same as they were.
Precedes(p, j, i) == should_swap(p[i], p[j]) \/ (~should_swap(p[j], p[i]) /\ j < i)
Place(p, i) == 1 + Cardinality({j \in DOMAIN p : Precedes(p, j, i)})
Sort(p) == [k \in DOMAIN p |-> p[CHOOSE i \in DOMAIN p : Place(p, i) = k]]

\* A mutant of the next definition: a row above the window takes the match
\* at its own place.
Placed_InPlace(r, i, l, w) ==
    IF r.event # l.event THEN i + w.start - 1
    ELSE IF r.abs < w.start THEN i + w.start - 1
    ELSE IF r.abs > w.stop THEN w.start + w.below
    ELSE r.abs

\* The match row i of the pool takes: a row of another list the one at its
\* place, a row above the window the next from the window's end, a row below
\* it the next from its beginning.
Placed(r, i, l, w) ==
    IF r.event # l.event THEN i + w.start - 1
    ELSE IF r.abs < w.start THEN w.stop - w.above
    ELSE IF r.abs > w.stop THEN w.start + w.below
    ELSE r.abs

\* The window from start to stop, and how many of the rows before row i were
\* above and below it: as many matches are taken from its end and beginning.
Window(p, l, n, i) ==
    LET start == StartIndex(l, n)
        stop == start + n - 1
    IN [start |-> start, stop |-> stop,
        above |-> Cardinality({j \in 1 .. i - 1 : p[j].event = l.event /\ p[j].abs < start}),
        below |-> Cardinality({j \in 1 .. i - 1 : p[j].event = l.event /\ p[j].abs > stop})]

Update(p, l, n) ==
    [i \in DOMAIN p |->
        IF i > n THEN p[i] ELSE Row(l.event, Placed(p[i], i, l, Window(p, l, n, i)))]

LayOut(p, l) ==
    LET n == VisibleSize(l, Len(p))
    IN /\ visible' = n
       /\ pool' = IF n = 0 THEN p ELSE Sort(Update(p, l, n))

-----------------------------------------------------------------------------
\* bob_launcher_result_box_initialize_slots
FreshRows(n) == [i \in 1 .. n |-> Row(0, i - 1)]

Init == /\ event = 0
        /\ shown = List(0, 0, 0) /\ sources = List(0, 0, 0)
        /\ later = FALSE
        /\ pool = FreshRows(CHOOSE n \in BoxSizes : TRUE)
        /\ visible = 0

\* A search of the pane the user is in is answered.
NewList ==
    /\ event < MaxEvent
    /\ event' = event + 1
    /\ \E n \in 0 .. MaxSize :
         /\ shown' = List(event', n, IF n = shown.size THEN shown.selected ELSE 0)
         /\ LayOut(pool, shown')
    /\ UNCHANGED <<sources, later>>

\* The user goes to a later pane, whose list is ready at once.
EnterLater ==
    /\ event < MaxEvent /\ ~later /\ shown.size > 0
    /\ later' = TRUE
    /\ sources' = shown
    /\ event' = event + 1
    /\ \E n \in 1 .. MaxSize : shown' = List(event', n, 0)
    /\ LayOut(pool, shown')

\* state_change_category back to the sources: a new search starts, and the old
\* list is laid out until it is answered.
GoBack ==
    /\ later /\ event < MaxEvent
    /\ later' = FALSE
    /\ event' = event + 1
    /\ shown' = sources
    /\ LayOut(pool, sources)
    /\ UNCHANGED sources

Selected(i) == [shown EXCEPT !.selected = i]

\* controller_goto_match, by a key, a page or the wheel
controller_goto_match ==
    /\ \E by \in -Len(pool) .. Len(pool) :
         shown' = Selected(Larger(0, Smaller(by + shown.selected, shown.size - 1)))
    /\ LayOut(pool, shown')
    /\ UNCHANGED <<event, sources, later>>

\* controller_goto_match_abs
GotoAbs(i) == IF shown.size = 0 THEN shown ELSE Selected(i % shown.size)

\* The commands for the first and the last match
FirstOrLast == /\ \E i \in {0, -1} : shown' = GotoAbs(i)
               /\ LayOut(pool, shown')
               /\ UNCHANGED <<event, sources, later>>

\* A click on a row, or the command for its number, before the match is
\* executed; a click leaves the layout as it is.
Take(i) ==
    /\ i <= visible
    /\ shown' = GotoAbs(pool[i].abs)
    /\ \/ LayOut(pool, shown')
       \/ UNCHANGED <<pool, visible>>
    /\ UNCHANGED <<event, sources, later>>

\* on_box_size_change: new rows, laid out at once.
on_box_size_change ==
    /\ \E n \in BoxSizes \ {Len(pool)} : LayOut(FreshRows(n), shown)
    /\ UNCHANGED <<event, shown, sources, later>>

Next == \/ NewList
        \/ EnterLater
        \/ GoBack
        \/ controller_goto_match
        \/ FirstOrLast
        \/ \E i \in DOMAIN pool : Take(i)
        \/ on_box_size_change

Spec == Init /\ [][Next]_vars

-----------------------------------------------------------------------------
\* Once the latest search is answered, the visible rows are a window of its
\* list that holds the selected match, in order and without a gap or a match
\* twice, whatever the rows showed before and however the selection moved; so a
\* row that is clicked, or named by its number, is the match it shows.  (While an
\* older list is shown again, after a return from a later pane, it does not
\* hold: rows left over from the old list and rows placed anew can show one
\* match twice, and the sort puts rows left over from the later pane in front.)
RowsShowTheWindow ==
    shown.event = event =>
      \E start \in 0 .. shown.size - visible :
        /\ \A i \in 1 .. visible : pool[i] = Row(event, start + i - 1)
        /\ visible > 0 => shown.selected \in start .. start + visible - 1
=============================================================================
