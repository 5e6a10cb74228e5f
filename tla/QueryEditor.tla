----------------------------- MODULE QueryEditor -----------------------------
(***************************************************************************)
(* The text a user types: one query and one cursor for each pane           *)
(* (state.c), the characters the cursor moves over (utf8-utils.c), and the *)
(* label that shows query, cursor and the text an input method composes    *)
(* (query-container.c).                                                    *)
(*                                                                         *)
(* A text is a sequence of code points: "a" stands for a letter, "s" for   *)
(* anything that separates words, "m" for a combining mark of two bytes.   *)
(* The cursor counts characters, a letter and its marks being one, while   *)
(* the text is cut at positions in the sequence.  Which panes can be       *)
(* entered depends on the lists of module Panes; here every change of pane *)
(* the commands can ask for is allowed.                                    *)
(***************************************************************************)
EXTENDS Integers, Sequences, SequencesExt, FiniteSets, FiniteSetsExt

CONSTANTS Tails,     \* texts that are typed or pasted
          Composed,  \* texts that are composed
          Typed,     \* bound: the panes in which the user edits
          MaxLen,    \* bound: no text grows longer
          MaxCursor  \* bound: no cursor is moved further by typing

ForReset == -1
ForPlugins == 0
ForSources == 1
ForActions == 2
ForTargets == 3
Pane == ForPlugins .. ForTargets

VARIABLES state_sf, queries, cursor,
          preedit,   \* what the input method composes
          drawn      \* the label as it was last built

vars == <<state_sf, queries, cursor, preedit, drawn>>

Text == Seq({"a", "s", "m"})

TypeOK ==
    /\ state_sf \in Pane
    /\ queries \in [Pane -> Text]
    /\ \A p \in Pane : Len(queries[p]) <= MaxLen
    /\ cursor \in [Pane -> 0 .. MaxCursor]
    /\ preedit \in Composed \cup {<<>>}

query == queries[state_sf]
at == cursor[state_sf]

-----------------------------------------------------------------------------
(* Characters of a text                                                     *)

\* next_grapheme_boundary: a mark belongs to the character before it, but
\* is_combining_mark asks for a byte after the mark, so the last code point of
\* a text always begins a character.
Starts(t) == {i \in DOMAIN t : i = 1 \/ t[i] # "m" \/ i = Len(t)}

utf8_char_count(t) == Cardinality(Starts(t))

\* How many code points the first c characters have.
utf8_char_to_byte_pos(t, c) ==
    IF c >= utf8_char_count(t) THEN Len(t)
    ELSE (CHOOSE i \in Starts(t) : Cardinality({j \in Starts(t) : j < i}) = c) - 1

Inserted(t, pos, tail) == SubSeq(t, 1, pos) \o tail \o SubSeq(t, pos + 1, Len(t))
Cut(t, from, to) == SubSeq(t, 1, from) \o SubSeq(t, to + 1, Len(t))

string_builder_erase_chars(t, c, count) ==
    Cut(t, utf8_char_to_byte_pos(t, c), utf8_char_to_byte_pos(t, c + count))

\* is_word_boundary of the first byte of character c; behind the text it is
\* asked about the NUL that ends it.
IsBoundary(t, c) == c >= utf8_char_count(t) \/ t[utf8_char_to_byte_pos(t, c) + 1] = "s"

\* state_find_next_word
NextWordRight(t, c) ==
    LET n == utf8_char_count(t)
        word == {i \in c .. n - 1 : ~IsBoundary(t, i)}
        begin == IF word = {} THEN n ELSE Min(word)
    IN Min({n} \cup {i \in begin .. n - 1 : IsBoundary(t, i)})

NextWordLeft(t, c) ==
    LET word == {i \in 1 .. c : ~IsBoundary(t, i - 1)}
        end == IF word = {} THEN 0 ELSE Max(word)
    IN Max({0} \cup {i \in 1 .. end - 1 : IsBoundary(t, i - 1)})

-----------------------------------------------------------------------------
(* The label                                                                *)

\* A mutant of the next definition: the cursor is taken for a position.
Render_Chars(pane, t, c, composed) ==
    LET pos == Min({c, Len(t)})
    IN IF t = <<>> /\ composed = <<>>
       THEN [title |-> pane, text |-> <<>>, cursor |-> 0]
       ELSE [title |-> ForReset, text |-> Inserted(t, pos, composed),
             cursor |-> pos + Len(composed)]

\* prepare_render_input: the query with the composed text at the cursor and
\* the cursor behind it, or without any text a title that goes with the pane.
Render(pane, t, c, composed) ==
    LET pos == utf8_char_to_byte_pos(t, c)
    IN IF t = <<>> /\ composed = <<>>
       THEN [title |-> pane, text |-> <<>>, cursor |-> 0]
       ELSE [title |-> ForReset, text |-> Inserted(t, pos, composed),
             cursor |-> pos + Len(composed)]

\* bob_launcher_query_container_adjust_label_for_query, the last call of every
\* handler that changes what the label shows.
adjust_label == drawn' = Render(state_sf', queries'[state_sf'], cursor'[state_sf'], preedit')

-----------------------------------------------------------------------------
Init == /\ state_sf = ForSources
        /\ queries = [p \in Pane |-> <<>>]
        /\ cursor = [p \in Pane |-> 0]
        /\ preedit = <<>>
        /\ drawn = Render(ForSources, <<>>, 0, <<>>)

\* An edit of the current pane; the search it starts is in module Panes.
Edit(t, c) == /\ state_sf \in Typed
              /\ queries' = [queries EXCEPT ![state_sf] = t]
              /\ cursor' = [cursor EXCEPT ![state_sf] = c]
              /\ UNCHANGED <<state_sf, preedit>>
              /\ adjust_label

Clamped(t, c) == IF c < 0 THEN 0 ELSE Min({c, utf8_char_count(t)})

\* state_change_cursor_position and the redrawing of its callers
MoveTo(c) == Clamped(query, c) # at /\ Edit(query, Clamped(query, c))

state_append_query(tail) ==
    LET t == Inserted(query, utf8_char_to_byte_pos(query, at), tail)
        c == at + utf8_char_count(tail)
    IN Len(t) <= MaxLen /\ c <= MaxCursor /\ Edit(t, c)

state_delete_line == query # <<>> /\ Edit(<<>>, 0)

state_delete_char_backward ==
    LET c == Clamped(query, at - 1)
    IN /\ query # <<>> /\ c # at
       /\ Edit(string_builder_erase_chars(query, c, 1), c)

state_delete_char_forward ==
    /\ at # utf8_char_count(query)
    /\ Edit(string_builder_erase_chars(query, at, 1), at)

state_delete_word ==
    LET c == NextWordLeft(query, at)
        t == string_builder_erase_chars(query, c, at - c)
    IN at # 0 /\ c # at /\ Edit(t, Clamped(t, c))

\* state_char_left, state_char_right, state_word_left, state_word_right,
\* state_line_begin and state_line_end
Move == \E c \in {at - 1, at + 1, NextWordLeft(query, at),
                  NextWordRight(query, at), 0, utf8_char_count(query)} : MoveTo(c)

\* bob_launcher_query_container_set_preedit
set_preedit == /\ preedit' \in (Composed \cup {<<>>}) \ {preedit}
               /\ UNCHANGED <<state_sf, queries, cursor>>
               /\ adjust_label

\* A mutant of the next action: the cursor is not placed.
state_change_category_Left(what) ==
    LET pane == IF what = ForReset THEN ForSources ELSE what
    IN /\ what # state_sf
       /\ queries' = [p \in Pane |-> IF p > what THEN <<>> ELSE queries[p]]
       /\ state_sf' = pane
       /\ UNCHANGED <<cursor, preedit>>
       /\ adjust_label

\* The queries of the later panes are cleared, their cursors are not; the
\* cursor of the pane that is entered goes to the end of its text.
state_change_category(what) ==
    LET pane == IF what = ForReset THEN ForSources ELSE what
    IN /\ what # state_sf
       /\ queries' = [p \in Pane |-> IF p > what THEN <<>> ELSE queries[p]]
       /\ state_sf' = pane
       /\ cursor' = [cursor EXCEPT ![pane] = utf8_char_count(queries'[pane])]
       /\ UNCHANGED preedit
       /\ adjust_label

\* The commands for the next and the previous pane, and the command that
\* clears the query or, if there is none, leaves the pane.
ChangePane == \/ state_sf < ForTargets /\ state_change_category(state_sf + 1)
              \/ state_change_category(state_sf - 1)

\* controller_execute of an action that wants a target: state_update_layout
\* enters the pane.
EnterTargets == /\ state_sf \in {ForSources, ForActions}
                /\ state_sf' = ForTargets
                /\ UNCHANGED <<queries, cursor, preedit>>
                /\ adjust_label

\* state_reset, when the window is hidden
state_reset == /\ state_sf' = ForSources
               /\ queries' = [p \in Pane |-> <<>>]
               /\ cursor' = [p \in Pane |-> 0]
               /\ UNCHANGED preedit
               /\ adjust_label

Next == \/ \E tail \in Tails : state_append_query(tail)
        \/ state_delete_line
        \/ state_delete_char_backward
        \/ state_delete_char_forward
        \/ state_delete_word
        \/ Move
        \/ set_preedit
        \/ ChangePane
        \/ EnterTargets
        \/ state_reset

Spec == Init /\ [][Next]_vars

-----------------------------------------------------------------------------
Plain(t) == "m" \notin ToSet(t)

\* Outside the targets pane, whose cursor is not placed when it is entered by
\* executing an action, the cursor is within its text after any path of edits
\* and changes of pane, although cleared panes keep the cursors of the texts
\* they had; texts with combining marks are excepted.
CursorInText == state_sf # ForTargets /\ Plain(query) => at <= utf8_char_count(query)

\* What the user sees is what an edit works on: text that is typed goes where
\* the label shows the cursor, text that was composed ends as the label showed
\* it, and outside the exceptions of CursorInText the cursor is then shown
\* right behind it.
EditsWhereDrawn ==
    [][\A tail \in Tails :
         state_append_query(tail) =>
           /\ preedit = <<>> => query' = Inserted(drawn.text, drawn.cursor, tail)
           /\ preedit = tail => query' = drawn.text
           /\ preedit = <<>> /\ state_sf # ForTargets /\ Plain(query') =>
                drawn'.cursor = drawn.cursor + Len(tail)]_vars

\* "Keyboard shortcuts to delete the character before the cursor." (the key
\* delete-char-backward): with a character before the cursor, it goes.
BackspaceDeletes ==
    [][state_delete_char_backward /\ at > 0 => Len(query') < Len(query)]_vars
=============================================================================
