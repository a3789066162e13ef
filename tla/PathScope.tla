------------------------------- MODULE PathScope -------------------------------
(***************************************************************************)
(* Which file an agent's tool may open: resolve_read_path of               *)
(* vest-agent/src/fs_scope.rs, and the read that follows it in a step of   *)
(* its own, when the tree may have changed.                                *)
(*                                                                         *)
(* A path is a sequence of names from "/"; a tree gives every path that    *)
(* exists, parents included, its kind: "dir", "file", or a link with the   *)
(* absolute path it leads to.                                              *)
(***************************************************************************)
EXTENDS Integers, Sequences, SequencesExt

CONSTANTS
    PaTrees,     \* file trees
    PaRoots,     \* lists of roots a scope may be made of
    PaNames,     \* what a tool is asked for: [absolute, names]
    SystemLinks, \* links the system follows in one path
    MAX_SYMLINK_ITERATIONS  \* links the code follows to tell a loop

Paths == Seq(STRING)
Kinds == {"dir", "file", "link"}

\* Everything but "/" is in a directory of the tree.
IsTree(tree) ==
    /\ <<>> \in DOMAIN tree /\ tree[<<>>].kind = "dir" /\ DOMAIN tree \subseteq Paths
    /\ \A path \in DOMAIN tree :
          /\ tree[path].kind \in Kinds /\ tree[path].to \in Paths
          /\ path # <<>> => Front(path) \in DOMAIN tree /\ tree[Front(path)].kind = "dir"

ASSUME PathAssumption ==
    /\ PaTrees # {} /\ \A tree \in PaTrees : IsTree(tree)
    /\ \A roots \in PaRoots : roots \in Seq(Paths)
    /\ \A name \in PaNames : name.absolute \in BOOLEAN /\ name.names \in Paths
    /\ SystemLinks \in Nat /\ MAX_SYMLINK_ITERATIONS \in Nat

VARIABLES
    paTree,     \* the tree as it is
    paRoots,    \* the roots of the scope
    paName,     \* what was asked for
    paGot,      \* the path that was resolved, or why not
    paOpened,   \* the file that was opened, if any
    paStage,    \* "idle", "resolved", "refused", "over"
    paChanged   \* whether the tree changed since the scope was made

paVars == <<paTree, paRoots, paName, paGot, paOpened, paStage, paChanged>>

Here(path) == [path |-> path, why |-> "none"]
Not(why) == [path |-> <<>>, why |-> why]
Unnamed == [absolute |-> FALSE, names |-> <<>>]

PaTypeOK ==
    /\ paTree \in PaTrees
    /\ paName \in PaNames \cup {Unnamed}
    /\ paStage \in {"idle", "resolved", "refused", "over"}
    /\ paRoots \in Seq(Paths)
    /\ paGot.why \in {"none", "missing", "EmptyPath", "NoRoots", "OutsideRoot", "SymlinkRejected", "SymlinkLoop"}

-----------------------------------------------------------------------------
(* The system's own resolution of paths *)

\* Where a path cannot just be gone along: nothing is there, a link, or a file on the way.
Stops(tree, path) ==
    {n \in 1..Len(path) :
        LET here == SubSeq(path, 1, n)
        IN  here \in DOMAIN tree => tree[here].kind = "link" \/ (tree[here].kind = "file" /\ n < Len(path))}

\* The first link on the way is replaced by what it leads to.
Follow(tree, path) ==
    LET first == CHOOSE n \in Stops(tree, path) : \A m \in Stops(tree, path) : n <= m
        here == SubSeq(path, 1, first)
    IN  IF Stops(tree, path) # {} /\ here \in DOMAIN tree /\ tree[here].kind = "link"
        THEN tree[here].to \o SubSeq(path, first + 1, Len(path))
        ELSE path

\* realpath: the path without links, or Not("missing").
Times(n) == [i \in 1..n |-> i]
Followed(tree, path) == FoldLeft(LAMBDA p, i : Follow(tree, p), path, Times(SystemLinks))
Arrived(tree, end) ==
    IF Stops(tree, end) = {} THEN Here(end) ELSE Not("missing")
Canonical(tree, path) == Arrived(tree, Followed(tree, path))
There(tree, path) == Canonical(tree, path).why = "none"

\* symlink_metadata: the last name is not followed.
InParent(parent, path) ==
    IF path = <<>> \/ parent.why # "none" THEN path ELSE Append(parent.path, Last(path))
OwnPath(tree, path) == InParent(Canonical(tree, Front(path)), path)
KindAt(tree, path) == IF path \in DOMAIN tree THEN tree[path].kind ELSE "missing"
KindOfPath(tree, path) == KindAt(tree, OwnPath(tree, path))

-----------------------------------------------------------------------------
Within(path, root) == IsPrefix(root, path)
Below(path, root) == SubSeq(path, Len(root) + 1, Len(path))

\* A root that does not exist stays as it was named.
NewScope(tree, roots) ==
    [i \in DOMAIN roots |-> IF There(tree, roots[i]) THEN Canonical(tree, roots[i]).path ELSE roots[i]]

LexicalNormalize(path) ==
    FoldLeft(LAMBDA done, name : CASE name = ".." -> IF done = <<>> THEN <<>> ELSE Front(done)
                                   [] name = "."  -> done
                                   [] OTHER       -> Append(done, name), <<>>, path)

\* detect_symlink_loop: a link that leads to links only, MAX_SYMLINK_ITERATIONS of them.
NextLink(tree, path) == IF KindOfPath(tree, path) = "link" THEN tree[OwnPath(tree, path)].to ELSE path
LinkError(tree, path) ==
    LET end == FoldLeft(LAMBDA p, i : NextLink(tree, p), path, Times(MAX_SYMLINK_ITERATIONS))
    IN  Not(IF KindOfPath(tree, end) = "link" THEN "SymlinkLoop" ELSE "SymlinkRejected")

\* The nearest ancestor, or the path itself, that is there (links not followed).
NearestThere(tree, path) ==
    SubSeq(path, 1, CHOOSE n \in 0..Len(path) :
        /\ KindOfPath(tree, SubSeq(path, 1, n)) # "missing"
        /\ \A m \in (n + 1)..Len(path) : KindOfPath(tree, SubSeq(path, 1, m)) = "missing")

\* The part below the root of a path of which only `suffix` is not there, rebased through
\* the nearest ancestor `probe`; a link there is rebased through its parent and kept.
Rebased(tree, root, probe, suffix) ==
    LET isLink == KindOfPath(tree, probe) = "link"
        base == IF isLink THEN Front(probe) ELSE probe
        kept == IF isLink THEN <<Last(probe)>> ELSE <<>>
        real == Canonical(tree, base).path
        whole == real \o kept \o suffix
    IN  IF \/ isLink /\ (KindOfPath(tree, base) = "link" \/ ~Within(real, root))
           \/ ~Within(whole, root)
        THEN Not("OutsideRoot") ELSE Here(Below(whole, root))

\* The part of a path below the root, rebased if the root is no prefix of it.
RelativeUnderRoot(tree, root, path) ==
    IF Within(path, root) THEN Here(Below(path, root))
    ELSE Rebased(tree, root, NearestThere(tree, path), Below(path, NearestThere(tree, path)))

\* What is there, or will be: the real path of the nearest ancestor and the rest.
Finalise(tree, path) ==
    LET thereLen == CHOOSE n \in 0..Len(path) :
                        /\ There(tree, SubSeq(path, 1, n))
                        /\ \A m \in (n + 1)..Len(path) : ~There(tree, SubSeq(path, 1, m))
    IN  CASE KindOfPath(tree, path) = "link" -> LinkError(tree, path)
          [] KindOfPath(tree, path) \in {"dir", "file"} -> Canonical(tree, path)
          [] OTHER -> Here(Canonical(tree, SubSeq(path, 1, thereLen)).path
                           \o SubSeq(path, thereLen + 1, Len(path)))

\* Seeded bug: links on the way are not looked for.
LinkBelow_None(tree, root, rel) == {}

\* The links met on the way down from the root.
LinkBelow(tree, root, rel) ==
    {n \in 1..Len(rel) : KindOfPath(tree, root \o SubSeq(rel, 1, n)) = "link"}

\* A path below the root: the first link on the way refuses it, and it must not end outside.
Admitted(tree, root, rel) ==
    LET links == LinkBelow(tree, root, rel)
        final == Finalise(tree, root \o rel)
    IN  CASE links # {} ->
                 LinkError(tree, root \o SubSeq(rel, 1, CHOOSE n \in links : \A m \in links : n <= m))
          [] links = {} /\ final.why = "none" /\ ~Within(final.path, root) -> Not("OutsideRoot")
          [] OTHER -> final

ResolveUnderRoot(tree, root, path) ==
    LET rel == RelativeUnderRoot(tree, root, path)
    IN  IF rel.why # "none" THEN rel ELSE Admitted(tree, root, rel.path)

\* What is named, from the first root if the name is relative.
Lexical(roots, name) == LexicalNormalize(IF name.absolute THEN name.names ELSE roots[1] \o name.names)

\* The first answer that names a path, else what the last one said.
FirstOf(answers) ==
    LET having == {i \in DOMAIN answers : answers[i].why = "none"}
    IN  IF having = {} THEN Last(answers) ELSE answers[CHOOSE i \in having : \A j \in having : i <= j]

\* The first root that has it.
ResolveReadPath(tree, roots, name) ==
    CASE name = Unnamed -> Not("EmptyPath")
      [] name # Unnamed /\ roots = <<>> -> Not("NoRoots")
      [] OTHER -> FirstOf([i \in DOMAIN roots |-> ResolveUnderRoot(tree, roots[i], Lexical(roots, name))])

-----------------------------------------------------------------------------
PaInit ==
    /\ paTree = CHOOSE tree \in PaTrees : TRUE
    /\ paRoots = <<>> /\ paName = Unnamed /\ paGot = Not("NoRoots")
    /\ paOpened = Not("missing") /\ paStage = "idle" /\ paChanged = FALSE

\* A scope is made, and one name resolved (resolve_tool_path).
PaResolve(tree, roots, name) ==
    /\ paStage = "idle"
    /\ paTree' = tree /\ paName' = name
    /\ paRoots' = NewScope(tree, roots)
    /\ \E scope \in {NewScope(tree, roots)} : paGot' = ResolveReadPath(tree, scope, name)
    /\ paStage' = IF paGot'.why = "none" THEN "resolved" ELSE "refused"
    /\ UNCHANGED <<paOpened, paChanged>>

\* read_file_capped: opened by the path that was resolved, links followed.
PaRead ==
    /\ paStage = "resolved"
    /\ paOpened' = Canonical(paTree, paGot.path)
    /\ paStage' = "over"
    /\ UNCHANGED <<paTree, paRoots, paName, paGot, paChanged>>

\* Somebody else changes the tree before the file is opened.
TreeChanges(tree) ==
    /\ paStage = "resolved" /\ tree # paTree
    /\ paTree' = tree /\ paChanged' = TRUE
    /\ UNCHANGED <<paRoots, paName, paGot, paOpened, paStage>>

PaNext ==
    \/ \E tree \in PaTrees, roots \in PaRoots, name \in PaNames \cup {Unnamed} : PaResolve(tree, roots, name)
    \/ PaRead
    \/ \E tree \in PaTrees : TreeChanges(tree)
PaSpec == PaInit /\ [][PaNext]_paVars

-----------------------------------------------------------------------------
\* What is opened lies under a root and is the very path that was resolved, and a
\* name below a root is not led elsewhere, not even to another place under that root
\* (another root may hold what it leads to, and lets it in): whatever "..", links,
\* aliases of the root or missing directories the name goes through.  A tree that
\* changes in between is not vouched for.
ReadStaysInside ==
    paStage = "over" /\ ~paChanged /\ paOpened.why = "none" =>
        /\ \E i \in DOMAIN paRoots : Within(paOpened.path, paRoots[i])
        /\ paOpened = paGot
        /\ \A i \in DOMAIN paRoots : Within(Lexical(paRoots, paName), paRoots[i]) =>
               \/ paOpened.path = Lexical(paRoots, paName)
               \/ \E j \in DOMAIN paRoots \ {i} : Within(paOpened.path, paRoots[j])
=============================================================================
