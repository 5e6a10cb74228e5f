------------------------------ MODULE MCPanes ------------------------------
(* The panes with two plugins, one of which refreshes its results. *)
EXTENDS Panes

CONSTANTS files, clock, empty, a

TwoPlugins == <<files, clock>>

SomePlugins == {<<>>, <<clock>>}

\* Nothing, one match, several.
SomeSources == {<<>>, <<"match">>, <<"match", "match">>}

SomeActions == {<<"plain">>, <<"onTarget", "plain">>}
=============================================================================
