------------------------------ MODULE FuzzyMatch ------------------------------
(***************************************************************************)
(* How well a needle matches a text (fzy/match.c), and which characters of *)
(* the text are highlighted for it (highlight.c).                          *)
(*                                                                         *)
(* The same table of scores is computed in three ways: row by row in place *)
(* (match_score), row by row in full for the positions (match_positions),  *)
(* and column by column for a caller that scores a sequence of texts and   *)
(* keeps the columns of the prefix a text shares with the one before       *)
(* (haystack_update and match_score_column_major).  The module walks from  *)
(* text to text as such a caller does and compares the three ways with the *)
(* best alignment there is.  Characters stand for the classes the bonus    *)
(* tells apart; positions count from one, 0 stands for the -1 of the code. *)
(***************************************************************************)
EXTENDS Integers, Sequences, SequencesExt, FiniteSets, FiniteSetsExt

CONSTANTS Needles,   \* what the user may have typed
          Texts,     \* bound: the first text of a sequence
          Tails,     \* bound: what may follow the part two texts share
          MaxText    \* bound: length of a text

SCORE_GAP_LEADING == -1
SCORE_GAP_TRAILING == -1
SCORE_GAP_INNER == -2
SCORE_MATCH_CONSECUTIVE == 400
SCORE_MATCH_SLASH == 180
SCORE_MATCH_CAPITAL == 140
SCORE_MAX == 32767
SCORE_BELOW_THRESHOLD == -1024   \* SCORE_MIN is the same number

VARIABLES needle,  \* the needle, empty before prepare_needle
          text,    \* the characters of the haystack
          cols     \* the columns of the cache that are filled for this text

vars == <<needle, text, cols>>

TypeOK ==
    /\ needle \in Needles \cup {<<>>}
    /\ Len(text) <= MaxText /\ Len(cols) <= Len(text)

-----------------------------------------------------------------------------
(* Characters                                                               *)

Upper(c) == IF c = "a" THEN "A" ELSE c
IsUpper(c) == c = "A"
IsLower(c) == c \in {"a", "b", "c", "d", "x"}

\* needle_info holds a character and its upper case: an upper case letter of
\* the needle matches only itself.
Hits(nd, i, c) == c = nd[i] \/ c = Upper(nd[i])

\* COMPUTE_BONUS
Bonus(last, c) == IF last = "/" /\ (IsUpper(c) \/ IsLower(c)) THEN SCORE_MATCH_SLASH
                  ELSE IF IsLower(last) /\ IsUpper(c) THEN SCORE_MATCH_CAPITAL
                  ELSE 0

\* precompute_bonus
bonus(t) == [j \in DOMAIN t |-> Bonus(IF j = 1 THEN "/" ELSE t[j - 1], t[j])]

\* setup_haystack_and_match: the needle's characters occur in their order.
Matches(nd, t) ==
    FoldLeft(LAMBDA i, c : IF i <= Len(nd) /\ Hits(nd, i, c) THEN i + 1 ELSE i,
             1, t) > Len(nd)

-----------------------------------------------------------------------------
(* Row by row                                                               *)

Gap(nd, i) == IF i = Len(nd) THEN SCORE_GAP_TRAILING ELSE SCORE_GAP_INNER

\* match_row: row i overwrites the row before it, from left to right; what the
\* row before it held one place to the left is kept aside.
match_row(nd, t, i, row) ==
    LET round(acc, j) ==
          LET lead == (j - 1) * SCORE_GAP_LEADING + bonus(t)[j]
              next == Max({acc.prevM + bonus(t)[j], acc.prevD + SCORE_MATCH_CONSECUTIVE})
              score == IF ~Hits(nd, i, t[j]) THEN SCORE_BELOW_THRESHOLD
                       ELSE IF i = 1 THEN lead
                       ELSE IF j > 1 THEN next
                       ELSE SCORE_BELOW_THRESHOLD
              best == IF Hits(nd, i, t[j]) THEN Max({score, acc.left + Gap(nd, i)})
                      ELSE acc.left + Gap(nd, i)
          IN [D |-> [acc.D EXCEPT ![j] = score], M |-> [acc.M EXCEPT ![j] = best],
              left |-> best, prevD |-> acc.D[j], prevM |-> acc.M[j]]
        start == [D |-> row.D, M |-> row.M, left |-> SCORE_BELOW_THRESHOLD,
                  prevD |-> 0, prevM |-> 0]
        end == FoldLeft(round, start, [j \in DOMAIN t |-> j])
    IN [D |-> end.D, M |-> end.M]

Blank(t) == [D |-> [j \in DOMAIN t |-> 0], M |-> [j \in DOMAIN t |-> 0]]

\* All rows of the table.
Rows(nd, t) ==
    FoldLeft(LAMBDA rows, i :
               Append(rows, match_row(nd, t, i, IF i = 1 THEN Blank(t) ELSE rows[i - 1])),
             <<>>, [i \in DOMAIN nd |-> i])

match_score(nd, t) ==
    IF t = <<>> \/ nd = <<>> \/ ~Matches(nd, t) THEN SCORE_BELOW_THRESHOLD
    ELSE IF Len(nd) = Len(t) THEN SCORE_MAX
    ELSE Last(Rows(nd, t)[Len(nd)].M)

\* A round of the loop of match_positions for the needle's character i.
place(rows, acc, i) ==
    LET fits == {j \in 1 .. acc.j : /\ rows[i].D[j] # SCORE_BELOW_THRESHOLD
                                    /\ acc.required \/ rows[i].D[j] = rows[i].M[j]}
    IN IF fits = {} THEN [acc EXCEPT !.at[i] = 0, !.j = 0]
       ELSE LET j == Max(fits)
            IN [at |-> [acc.at EXCEPT ![i] = j], j |-> j - 1,
                required |-> /\ i > 1 /\ j > 1
                             /\ rows[i].M[j] = rows[i - 1].D[j - 1] + SCORE_MATCH_CONSECUTIVE]

places(rows, nd, t) ==
    FoldLeft(LAMBDA acc, i : place(rows, acc, i),
             [at |-> [i \in DOMAIN nd |-> 0], j |-> Len(t), required |-> FALSE],
             Reverse([i \in DOMAIN nd |-> i])).at

\* match_positions: from the last character of the needle backwards, the last
\* place in the text where its score ends a best match, or the place before the
\* one just found if that one's score says so.
match_positions(nd, t) ==
    IF Len(nd) > Len(t) THEN [i \in DOMAIN nd |-> 0] ELSE places(Rows(nd, t), nd, t)

\* The places of a list that are met in their order on one walk over the text;
\* one that is never met hides those behind it.
Met(at, t) ==
    FoldLeft(LAMBDA acc, j :
               IF acc.next <= Len(at) /\ at[acc.next] = j
               THEN [next |-> acc.next + 1, lit |-> acc.lit \cup {j}] ELSE acc,
             [next |-> 1, lit |-> {}], [j \in DOMAIN t |-> j]).lit

\* A mutant of the next definition: every position that was found is lit.
Highlighted_Parts(nd, t) == ToSet(match_positions(nd, t)) \ {0}

\* highlight_calculate_positions
Highlighted(nd, t) == Met(match_positions(nd, t), t)

-----------------------------------------------------------------------------
(* Column by column                                                         *)

Cell(d, m) == [D |-> d, M |-> m]

FirstColumn(nd, t) ==
    [i \in DOMAIN nd |->
       IF Hits(nd, i, t[1]) THEN Cell(bonus(t)[1], bonus(t)[1])
       ELSE Cell(SCORE_BELOW_THRESHOLD, SCORE_BELOW_THRESHOLD + Gap(nd, i))]

\* A round of the main loop of match_score_column_major.
NextColumn(nd, t, j, prev) ==
    [i \in DOMAIN nd |->
       LET left == prev[i].M + Gap(nd, i)
           score == IF i = 1 THEN (j - 1) * SCORE_GAP_LEADING + bonus(t)[j]
                    ELSE Max({prev[i - 1].M + bonus(t)[j],
                              prev[i - 1].D + SCORE_MATCH_CONSECUTIVE})
       IN IF Hits(nd, i, t[j]) THEN Cell(score, Max({score, left}))
          ELSE Cell(SCORE_BELOW_THRESHOLD, left)]

\* A mutant of the next definition: the column before the first new one is
\* taken from one place too far left.
Columns_Late(nd, t, kept) ==
    FoldLeft(LAMBDA cs, j : Append(cs, IF j = 1 THEN FirstColumn(nd, t)
                                       ELSE NextColumn(nd, t, j, cs[Max({1, j - 2})])),
             kept, [j \in 1 .. Len(t) - Len(kept) |-> j + Len(kept)])

Columns(nd, t, kept) ==
    FoldLeft(LAMBDA cs, j : Append(cs, IF j = 1 THEN FirstColumn(nd, t)
                                       ELSE NextColumn(nd, t, j, cs[j - 1])),
             kept, [j \in 1 .. Len(t) - Len(kept) |-> j + Len(kept)])

-----------------------------------------------------------------------------
Init == needle = <<>> /\ text = <<>> /\ cols = <<>>

prepare_needle == /\ needle = <<>>
                  /\ needle' \in Needles
                  /\ UNCHANGED <<text, cols>>

\* A mutant of the next action: the columns after the shared part stay.
haystack_update_Stale ==
    /\ needle # <<>>
    /\ \E k \in 0 .. Len(cols) : \E tail \in IF k = 0 THEN Texts ELSE Tails :
         /\ k = 0 => text = <<>>
         /\ k + Len(tail) <= MaxText
         /\ text' = SubSeq(text, 1, k) \o tail
         /\ cols' = IF Len(text') <= Len(needle) THEN cols
                    ELSE Columns(needle, text', SubSeq(cols, 1, k))
    /\ UNCHANGED needle

\* haystack_update and match_score_column_major of a text that shares its first
\* k characters with the one before.  A text that is not longer than the needle
\* is not entered into the columns, and the caller goes on from the columns
\* there are.  (A later text that shares nothing is scored as the first one is.)
haystack_update ==
    /\ needle # <<>>
    /\ \E k \in 0 .. Len(cols) : \E tail \in IF k = 0 THEN Texts ELSE Tails :
         /\ k = 0 => text = <<>>
         /\ k + Len(tail) <= MaxText
         /\ text' = SubSeq(text, 1, k) \o tail
         /\ cols' = IF Len(text') <= Len(needle) THEN SubSeq(cols, 1, k)
                    ELSE Columns(needle, text', SubSeq(cols, 1, k))
    /\ UNCHANGED needle

Next == prepare_needle \/ haystack_update

Spec == Init /\ [][Next]_vars

-----------------------------------------------------------------------------
(* What a score stands for                                                  *)

\* The ways to find the needle in the text.
Alignments(nd, t) ==
    {f \in [DOMAIN nd -> DOMAIN t] :
       /\ \A i \in DOMAIN nd : Hits(nd, i, t[f[i]])
       /\ \A i \in 2 .. Len(nd) : f[i - 1] < f[i]}

\* A character's bonus, or the reward for following the one before it at once,
\* less what the skipped characters cost.
Worth(f, nd, t) ==
    LET step(i) == IF i = 1 THEN (f[1] - 1) * SCORE_GAP_LEADING + bonus(t)[f[1]]
                   ELSE IF f[i] = f[i - 1] + 1 THEN SCORE_MATCH_CONSECUTIVE
                   ELSE (f[i] - f[i - 1] - 1) * SCORE_GAP_INNER + bonus(t)[f[i]]
    IN FoldLeft(LAMBDA s, i : s + step(i), (Len(t) - f[Len(nd)]) * SCORE_GAP_TRAILING,
                [i \in DOMAIN nd |-> i])

Best(nd, t) == Max({Worth(f, nd, t) : f \in Alignments(nd, t)})

InQuestion == needle # <<>> /\ Matches(needle, text) /\ Len(text) > Len(needle)

\* The number that stands for no match takes part in the arithmetic.  It stays
\* below what any alignment is worth while the needle has up to three characters
\* and the text is not much longer than a line.
Short == Len(needle) <= 3 /\ Len(text) <= 100

\* For a short needle and text the score, computed row by row in one pair of
\* arrays that each row overwrites, is what the best alignment is worth; the
\* positions are an alignment, and for up to two characters one that is worth
\* it; and the columns kept from earlier texts lead to the same score, unless
\* the text begins with a character that occurs later in the needle, which the
\* first column counts as if the needle before it had been found.
ScoresAreBest ==
    InQuestion /\ Short =>
      LET best == Best(needle, text)
          at == match_positions(needle, text)
      IN /\ match_score(needle, text) = best
         /\ at \in Alignments(needle, text)
         /\ Len(needle) <= 2 => Worth(at, needle, text) = best
         /\ (\A i \in 2 .. Len(needle) : ~Hits(needle, i, text[1])) =>
              Len(cols) = Len(text) /\ Last(cols)[Len(needle)].M = best

\* What is highlighted in a text, one that need not match the needle included,
\* is one whole occurrence of the needle or nothing, and for a short text that
\* is offered for a short needle it is not nothing.
HighlightsAreWhole ==
    needle # <<>> =>
      LET lit == Highlighted(needle, text)
      IN /\ lit # {} => \E f \in Alignments(needle, text) : lit = {f[i] : i \in DOMAIN f}
         /\ InQuestion /\ Short => lit # {}

\* "D[][] Stores the best score for this position ending with a match.  M[][]
\* Stores the best possible score at this position." (match.c): the score is
\* what the best alignment is worth for a needle of any length.
BestForEveryNeedle == InQuestion => match_score(needle, text) = Best(needle, text)

\* "backtrace to find the positions of optimal matching" (match.c): the positions
\* of a short needle in a short text are worth as much as any.
PositionsAreOptimal ==
    InQuestion /\ Short =>
      Worth(match_positions(needle, text), needle, text) = Best(needle, text)
=============================================================================
