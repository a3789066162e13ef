------------------------------ MODULE Traversal ------------------------------
(***************************************************************************)
(* collect_files_bounded: the bounded walk of a directory tree that the    *)
(* file scanner, the browser scanner and the agent's file_scan tool share. *)
(*                                                                         *)
(* A node is what a canonical path names: a directory, a regular file, or  *)
(* something else (a socket).  A directory lists entries; the path of an   *)
(* entry resolves to a node, through a symbolic link or not.  The walk is  *)
(* one thread; an action is one turn of one of its two loops.  The entries *)
(* of a directory are taken in the order of their names, and the model in  *)
(* any order: a name can be anything.  The tree does not change meanwhile. *)
(***************************************************************************)
EXTENDS Integers, Sequences

CONSTANTS
    Dirs, Files, Others,    \* the nodes
    Outside,        \* the nodes that are not below the canonical root
    Nowhere,        \* what a dangling link resolves to
    Names,          \* names of entries
    Size,           \* Size[f]: the length of file f
    Trees,          \* the file systems: what each directory lists
    LockedSets,     \* the sets of directories that cannot be read
    Roots,          \* the paths a walk may start from, as entries
    LimitSets       \* the limits a walk may be given

Nodes == Dirs \cup Files \cup Others
Entries == [name : Names, to : Nodes \cup {Nowhere}, link : BOOLEAN]
\* FileTraversalLimits; `ignored` are the names ignore_globs matches.
Limits == [depth : Nat, files : Nat, size : Nat, bytes : Nat,
           follow : BOOLEAN, ignored : SUBSET Names]

ASSUME NodesAssumption ==
    /\ Dirs \cap Files = {} /\ Dirs \cap Others = {} /\ Files \cap Others = {}
    /\ Nowhere \notin Nodes
    /\ Outside \subseteq Nodes
ASSUME SizeAssumption == Size \in [Files -> Nat]
ASSUME TreesAssumption ==
    /\ Trees \subseteq [Dirs -> SUBSET Entries]
    /\ LockedSets \subseteq SUBSET Dirs
ASSUME RootsAssumption ==
    /\ Roots \subseteq Entries
    /\ \A r \in Roots : r.to \in (Dirs \cup Files \cup {Nowhere}) \ Outside
ASSUME LimitsAssumption == LimitSets \subseteq Limits

VARIABLES
    tree,       \* the file system
    locked,     \* the directories read_dir fails on
    root,       \* where the walk starts
    limits,     \* FileTraversalLimits
    pc,         \* where the walk is
    stack,      \* directories to read, each with its depth
    here,       \* the directory being read, and its entries not yet seen
    visited,    \* the nodes seen
    files,      \* the files collected
    skipped,    \* what was skipped, and why
    cut,        \* truncation_reason, or "none"
    total       \* total_bytes

vars == <<tree, locked, root, limits, pc, stack, here, visited, files,
          skipped, cut, total>>
given == <<tree, locked, root, limits>>

-----------------------------------------------------------------------------

Idle == [dir |-> Nowhere, depth |-> 0, left |-> {}]

\* Seeded bug: nothing checks that the path stays below the root.
Refusal_Escapes(e, seen) ==
    IF e.name \in limits.ignored THEN "Ignored"
    ELSE IF e.link /\ ~limits.follow THEN "Symlink"
    ELSE IF e.to = Nowhere THEN "Unreadable"
    ELSE IF e.to \in seen THEN "SymlinkLoop"
    ELSE "none"

\* Why an entry is refused before anything is known of its size; the order
\* of the checks decides which reason is recorded.
Refusal(e, seen) ==
    IF e.name \in limits.ignored THEN "Ignored"
    ELSE IF e.link /\ ~limits.follow THEN "Symlink"
    ELSE IF e.to = Nowhere THEN "Unreadable"
    ELSE IF e.to \in Outside THEN "OutsideRoot"
    ELSE IF e.to \in seen THEN "SymlinkLoop"
    ELSE "none"

Skip(what, reason) == skipped' = skipped \cup {<<what, reason>>}

Init ==
    /\ tree \in Trees
    /\ locked \in LockedSets
    /\ root \in Roots
    /\ limits \in LimitSets
    /\ pc = "open"
    /\ stack = <<>>
    /\ here = Idle
    /\ visited = {}
    /\ files = <<>>
    /\ skipped = {}
    /\ cut = "none"
    /\ total = 0

-----------------------------------------------------------------------------
(* Files, a root or an entry alike *)

\* A file over the size limit is skipped; one that would exceed the total
\* ends the walk.
TakeFile(f) ==
    \/ /\ Size[f] > limits.size
       /\ Skip(f, "TooLarge")
       /\ UNCHANGED <<files, total, cut>>
    \/ /\ Size[f] <= limits.size
       /\ total + Size[f] > limits.bytes
       /\ cut' = "MaxTotalBytes"
       /\ Skip(f, "TooLarge")
       /\ UNCHANGED <<files, total>>
    \/ /\ Size[f] <= limits.size
       /\ total + Size[f] <= limits.bytes
       /\ files' = Append(files, f)
       /\ total' = total + Size[f]
       /\ UNCHANGED <<skipped, cut>>

-----------------------------------------------------------------------------
(* The root *)

\* A root that does not exist is not even recorded as skipped.
RefuseRoot ==
    /\ pc = "open"
    /\ Refusal(root, {}) # "none"
    /\ IF root.to = Nowhere THEN UNCHANGED skipped
                            ELSE Skip(root, Refusal(root, {}))
    /\ pc' = "done"
    /\ UNCHANGED <<given, stack, here, visited, files, cut, total>>

\* max_files is not looked at for a single file.
OpenFile ==
    /\ pc = "open"
    /\ Refusal(root, {}) = "none"
    /\ root.to \in Files
    /\ TakeFile(root.to)
    /\ visited' = {root.to}
    /\ pc' = "done"
    /\ UNCHANGED <<given, stack, here>>

OpenDir ==
    /\ pc = "open"
    /\ Refusal(root, {}) = "none"
    /\ root.to \in Dirs
    /\ stack' = <<[dir |-> root.to, depth |-> 0]>>
    /\ visited' = {root.to}
    /\ pc' = "walk"
    /\ UNCHANGED <<given, here, files, skipped, cut, total>>

-----------------------------------------------------------------------------
(* The outer loop: the directory that was pushed last is read first *)

Top == stack[Len(stack)]
Popped == SubSeq(stack, 1, Len(stack) - 1)

\* A directory too deep ends the walk, not only its own branch.
TooDeep ==
    /\ pc = "walk" /\ stack # <<>> /\ cut = "none"
    /\ Top.depth > limits.depth
    /\ cut' = "MaxDepth"
    /\ Skip(Top.dir, "DepthExceeded")
    /\ stack' = Popped
    /\ UNCHANGED <<given, pc, here, visited, files, total>>

\* Seeded bug: a directory that cannot be read is tried again.
CannotRead_Retries ==
    /\ pc = "walk" /\ stack # <<>> /\ cut = "none"
    /\ Top.depth <= limits.depth
    /\ Top.dir \in locked
    /\ Skip(Top.dir, "Unreadable")
    /\ UNCHANGED <<given, pc, stack, here, visited, files, cut, total>>

CannotRead ==
    /\ pc = "walk" /\ stack # <<>> /\ cut = "none"
    /\ Top.depth <= limits.depth
    /\ Top.dir \in locked
    /\ Skip(Top.dir, "Unreadable")
    /\ stack' = Popped
    /\ UNCHANGED <<given, pc, here, visited, files, cut, total>>

ReadDir ==
    /\ pc = "walk" /\ stack # <<>> /\ cut = "none"
    /\ Top.depth <= limits.depth
    /\ Top.dir \notin locked
    /\ here' = [dir |-> Top.dir, depth |-> Top.depth, left |-> tree[Top.dir]]
    /\ stack' = Popped
    /\ pc' = "list"
    /\ UNCHANGED <<given, visited, files, skipped, cut, total>>

EndWalk ==
    /\ pc = "walk"
    /\ stack = <<>> \/ cut # "none"
    /\ pc' = "done"
    /\ UNCHANGED <<given, stack, here, visited, files, skipped, cut, total>>

-----------------------------------------------------------------------------
(* The inner loop: one entry after the other, until a limit is hit *)

Turn(e) ==
    /\ pc = "list" /\ cut = "none"
    /\ e \in here.left
    /\ here' = [here EXCEPT !.left = @ \ {e}]

Refuse(e) ==
    /\ Turn(e)
    /\ Refusal(e, visited) # "none"
    /\ Skip(e, Refusal(e, visited))
    /\ UNCHANGED <<given, pc, stack, visited, files, cut, total>>

\* Seeded bug: whatever is not a file is taken for a directory.
PushDir_NotFile(e) ==
    /\ Turn(e)
    /\ Refusal(e, visited) = "none"
    /\ e.to \notin Files
    /\ visited' = visited \cup {e.to}
    /\ stack' = Append(stack, [dir |-> e.to, depth |-> here.depth + 1])
    /\ UNCHANGED <<given, pc, files, skipped, cut, total>>

PushDir(e) ==
    /\ Turn(e)
    /\ Refusal(e, visited) = "none"
    /\ e.to \in Dirs
    /\ visited' = visited \cup {e.to}
    /\ stack' = Append(stack, [dir |-> e.to, depth |-> here.depth + 1])
    /\ UNCHANGED <<given, pc, files, skipped, cut, total>>

PassOver(e) ==
    /\ Turn(e)
    /\ Refusal(e, visited) = "none"
    /\ e.to \in Others
    /\ visited' = visited \cup {e.to}
    /\ UNCHANGED <<given, pc, stack, files, skipped, cut, total>>

\* Seeded bugs: one file too many; the walk goes on after the last file.
SeeFile_OffByOne(e) ==
    /\ Turn(e)
    /\ Refusal(e, visited) = "none"
    /\ e.to \in Files
    /\ visited' = visited \cup {e.to}
    /\ \/ /\ Len(files) > limits.files
          /\ cut' = "MaxFiles"
          /\ UNCHANGED <<files, skipped, total>>
       \/ /\ Len(files) <= limits.files
          /\ TakeFile(e.to)
    /\ UNCHANGED <<given, pc, stack>>
SeeFile_Silent(e) ==
    /\ Turn(e)
    /\ Refusal(e, visited) = "none"
    /\ e.to \in Files
    /\ visited' = visited \cup {e.to}
    /\ \/ /\ Len(files) >= limits.files
          /\ UNCHANGED <<cut, files, skipped, total>>
       \/ /\ Len(files) < limits.files
          /\ TakeFile(e.to)
    /\ UNCHANGED <<given, pc, stack>>

\* The first file over the number ends the walk and is not recorded.
SeeFile(e) ==
    /\ Turn(e)
    /\ Refusal(e, visited) = "none"
    /\ e.to \in Files
    /\ visited' = visited \cup {e.to}
    /\ \/ /\ Len(files) >= limits.files
          /\ cut' = "MaxFiles"
          /\ UNCHANGED <<files, skipped, total>>
       \/ /\ Len(files) < limits.files
          /\ TakeFile(e.to)
    /\ UNCHANGED <<given, pc, stack>>

EndList ==
    /\ pc = "list"
    /\ here.left = {} \/ cut # "none"
    /\ here' = Idle
    /\ pc' = "walk"
    /\ UNCHANGED <<given, stack, visited, files, skipped, cut, total>>

-----------------------------------------------------------------------------

Next ==
    \/ RefuseRoot \/ OpenFile \/ OpenDir
    \/ TooDeep \/ CannotRead \/ ReadDir \/ EndWalk
    \/ \E e \in here.left : Refuse(e) \/ PushDir(e) \/ PassOver(e) \/ SeeFile(e)
    \/ EndList

\* The walk is a loop of its thread.
Spec == Init /\ [][Next]_vars /\ WF_vars(Next)

-----------------------------------------------------------------------------
(* Properties *)

Cuts == {"none", "MaxDepth", "MaxFiles", "MaxTotalBytes"}

\* Every variable holds a value of its kind.
TypeOK ==
    /\ tree \in [Dirs -> SUBSET Entries] /\ locked \subseteq Dirs
    /\ root \in Roots /\ limits \in Limits
    /\ pc \in {"open", "walk", "list", "done"}
    /\ stack \in Seq([dir : Dirs, depth : Nat])
    /\ here \in [dir : Dirs \cup {Nowhere}, depth : Nat, left : SUBSET Entries]
    /\ pc = "list" => here.dir \in Dirs
    /\ visited \subseteq Nodes
    /\ files \in Seq(Files)
    /\ cut \in Cuts
    /\ total \in Nat

\* An entry the walk is meant to go through: not ignored, a link only when
\* links are followed, and resolving to something below the root.
Follows(e) ==
    /\ e.name \notin limits.ignored
    /\ e.link => limits.follow
    /\ e.to \in Nodes \ Outside

\* A set of nodes with the root and everything that is listed in it.
IsClosed(S) ==
    /\ root.to \in S
    /\ \A d \in (S \cap Dirs) \ locked : \A e \in tree[d] :
           Follows(e) => e.to \in S

\* What there is to walk, limits aside: the smallest closed set.
Reachable ==
    {n \in Nodes \ Outside :
        Follows(root) /\ \A S \in SUBSET (Nodes \ Outside) : IsClosed(S) => n \in S}

\* The budgets hold at every moment (lines 23-26 of files.rs): no file over
\* the size limit, not more files and bytes than allowed.
WithinBudgets ==
    /\ \A i \in DOMAIN files : Size[files[i]] <= limits.size
    /\ total <= limits.bytes
    /\ root.to \in Dirs => Len(files) <= limits.files

\* However links loop and lead out, a file is collected once and only if it
\* is below the root and reached through entries that are to be followed.
CollectedOnce ==
    /\ LET reachable == Reachable
       IN  \A i \in DOMAIN files : files[i] \in reachable
    /\ \A i, j \in DOMAIN files : files[i] = files[j] => i = j

\* A walk that does not say it was truncated has collected every reachable
\* file that is not too large: nothing is left out in silence.
CompleteUnlessTruncated ==
    pc = "done" /\ cut = "none" =>
        \A f \in Reachable \cap Files :
            Size[f] <= limits.size => \E i \in DOMAIN files : files[i] = f

\* The walk ends, links or no links.
WalkEnds == <>(pc = "done")
=============================================================================
