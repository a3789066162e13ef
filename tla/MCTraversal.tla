---------------------------- MODULE MCTraversal ----------------------------
(* Small instances of Traversal for TLC: every way to lay out two           *)
(* directories and two files below the root, with a link anywhere to        *)
(* anything.                                                                *)
EXTENDS Traversal, TLC

CONSTANTS top, sub, deep, big, small, away, secret, socket, alias

MCDirs == {top, sub, deep, away}
MCFiles == {big, small, secret}
MCOthers == {socket}
MCOutside == {away, secret}
MCNames == MCDirs \cup MCFiles \cup MCOthers \cup {alias}
MCSize == (big :> 2) @@ (small :> 1) @@ (secret :> 1)

Plain(n) == [name |-> n, to |-> n, link |-> FALSE]
Link(n) == [name |-> alias, to |-> n, link |-> TRUE]

Below == {top, sub, deep}
\* Where the directory `deep` and the two files are; `sub` is in `top`.
Layouts == {p \in [{sub, deep, big, small} -> Below] :
               /\ p[sub] = top /\ p[deep] \in {top, sub}
               /\ p[big] \in {top, deep} /\ p[small] \in {sub, deep}}

\* The tree of a layout with a link in directory d to n.
TreeOf(p, d, n) ==
    [x \in MCDirs |->
        {Plain(y) : y \in {z \in DOMAIN p : p[z] = x}}
            \cup {Plain(y) : y \in {z \in {secret} : x = away}}
            \cup {Plain(y) : y \in {z \in {socket} : x = top}}
            \cup {Link(y) : y \in {z \in {n} : x = d}}]

MCTrees == {TreeOf(p, d, n) : p \in Layouts, d \in Below,
                              n \in MCDirs \cup MCFiles \cup {Nowhere}}
MCRoots == {Plain(top), Link(small), [Plain(top) EXCEPT !.to = Nowhere]}

\* What may be locked away, and what may be ignored.
MCLockedSets == {{}, {deep}}

\* No limit in reach, with and without links and an ignored name.
Wide(follows, names) == [depth |-> 9, files |-> 9, size |-> 9, bytes |-> 9,
                         follow |-> follows, ignored |-> names]
Free == Wide(TRUE, {})
\* And each limit in turn.
MCLimits == {Free, Wide(FALSE, {}), Wide(TRUE, {sub}),
             [Free EXCEPT !.depth = 1], [Free EXCEPT !.files = 1],
             [Free EXCEPT !.size = 1], [Free EXCEPT !.bytes = 2]}
=============================================================================
