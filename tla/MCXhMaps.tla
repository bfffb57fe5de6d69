------------------------------- MODULE MCXhMaps -------------------------------
(***************************************************************************)
(* Two files under a hook for both and one for the first, without ignores, *)
(* and with ignores of all symbols, of the second hook and of the first.   *)
(***************************************************************************)
EXTENDS XhMaps

On(paths, symbol) == [paths |-> paths, symbol |-> symbol]

MCPaths == {"p", "q"}

MCSetups ==
    {[hooks |-> <<On({"p", "q"}, "f"), On({"p"}, "g")>>, ignores |-> ignores] :
        ignores \in {<<>>, <<On({"p"}, "g"), On({"q"}, ALL)>>, <<On({"p"}, "f")>>}}
=============================================================================
