------------------------------ MODULE MCPhantom ------------------------------
(* Needles whose last characters stand together more often in a text than    *)
(* the first one before them.                                                *)
EXTENDS FuzzyMatch

\* A needle of four characters of which a text has only three in order close
\* together, before or after an occurrence of all four.
LongNeedle == {<<"a", "b", "c", "d">>}

Word == <<"b", "c", "d">>
Spread == <<"a", "x", "b", "x", "c", "x", "d">>

ScatteredTexts == {<<"x">> \o Word \o Spread, Spread \o <<"x">> \o Word}
                  \cup {SubSeq(Spread, 1, 4) \o [i \in 1 .. n |-> "x"] \o SubSeq(Spread, 5, 7)
                          : n \in 0 .. 4}

\* A needle of three characters, and every text of five of them.
ShortNeedle == {<<"a", "b", "c">>}

MixedTexts == [1 .. 5 -> {"a", "b", "c"}]

NoTail == {<<>>}
=============================================================================
