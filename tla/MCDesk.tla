------------------------------- MODULE MCDesk -------------------------------
(* The components of module Desk with small values. *)
EXTENDS Desk

CONSTANTS a1, a2, a3, p1, p2, v1, v2, v3

\* The first two applications have one name.
SomeNames == [a \in {a1, a2, a3} |-> IF a = a3 THEN "other" ELSE "shared"]

TwoPlugins == <<p1, p2>>

\* The first plugin may change what it offers, the second does not.
SomeArrays == [p \in {p1, p2} |-> IF p = p1 THEN {<<>>, <<v1>>, <<v2>>, <<v1, v2>>}
                                  ELSE {<<v3>>}]

\* A letter, a separator, a combining mark.
SomeTails == {<<"a">>, <<"s">>, <<"m">>}

SomeComposed == {<<"a">>}

SomeNeedles == {<<"a">>, <<"a", "b">>, <<"a", "a">>, <<"A", "b">>, <<"a", "b", "a">>,
                <<"b", "a", "b">>, <<"a", "b", "A">>}

SomeTexts == [1 .. 4 -> {"a", "A", "b", "/"}]

SomeEnds == {<<>>, <<"a">>, <<"A">>, <<"b">>, <<"/">>}
=============================================================================
