------------------------------- MODULE MCMove -------------------------------
(***************************************************************************)
(* Values for model checking Move: a few small file systems.  Paths: the   *)
(* source s with entries a and b, a subdirectory d with an entry c, and    *)
(* outside it a file o and a directory e.                                  *)
(***************************************************************************)
EXTENDS Move

MCPaths == {"s", "a", "b", "d", "c", "o", "e", "n"}
MCInodes == {"i", "j", "k"}
MCSizeOf == [x \in MCInodes |-> CASE x = "i" -> 3 [] x = "j" -> 0 [] x = "k" -> 2]

Parents ==
    [p \in MCPaths |->
        CASE p = "c" -> "d" [] p \in {"a", "b", "d", "n", "s"} -> "s" [] OTHER -> p]

\* A tree {a, b, d/c}; a and c are files, o a file and e a directory outside.
Tree ==
    [inside |-> {"s", "a", "b", "d", "c"}, outside |-> {"o", "e"}, late |-> {},
     kind |-> [p \in MCPaths |-> IF p \in {"s", "d", "e"} THEN "dir" ELSE "file"],
     parent |-> Parents,
     inode |-> [p \in MCPaths |->
        CASE p \in {"a", "n"} -> "i" [] p = "o" -> "k" [] OTHER -> "j"],
     target |-> [p \in MCPaths |-> p]]

Link(l, p, to) == [l EXCEPT !.kind[p] = "link", !.target[p] = to]

MCLayouts ==
    {Tree,
     [Tree EXCEPT !.late = {"n"}],
     [Tree EXCEPT !.inode["b"] = "i"],          \* a and b are one file
     [Tree EXCEPT !.inode["o"] = "i"],          \* a is also a file outside
     Link(Tree, "b", "o"), Link(Tree, "b", "e"),
     Link(Tree, "b", "d"), Link(Tree, "b", "s"), Link(Tree, "b", "n"),
     Link(Tree, "c", "a"), Link(Tree, "c", "n"), Link(Tree, "c", "o"),
     [Tree EXCEPT !.kind["b"] = "special"], [Tree EXCEPT !.kind["c"] = "special"],
     [Link(Tree, "b", "o") EXCEPT !.kind["o"] = "special"],
     [Tree EXCEPT !.inside = {"s"}, !.kind["s"] = "special"],
     [Tree EXCEPT !.inside = {"s"}, !.kind["s"] = "file"],
     Link([Tree EXCEPT !.inside = {"s"}], "s", "o"),
     [Tree EXCEPT !.inside = {}]}
=============================================================================
