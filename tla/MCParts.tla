------------------------------- MODULE MCParts ------------------------------
(***************************************************************************)
(* Instances of Parts for TLC: a board of three things, one of each kind   *)
(* the page lists, of which it listed all.                                 *)
(***************************************************************************)
EXTENDS Parts

BoardThings == {<<"data_doc", 1>>, <<"board", 1>>, <<"query", 1>>}

ListedThings == <<<<"data_doc", 1>>, <<"board", 1>>, <<"query", 1>>>>

=============================================================================
