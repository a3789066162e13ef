-------------------------- MODULE TraversalProofs --------------------------
(***************************************************************************)
(* Theorems about Traversal, for every file system, root and limits.       *)
(***************************************************************************)
EXTENDS Traversal, SequenceTheorems, TLAPS

\* What the stack holds, and what is being read.
Frame == [dir : Dirs, depth : Nat]
Inside == Nodes \ Outside

-----------------------------------------------------------------------------
(* Lemmas about the helpers *)

\* Taking the top off a stack leaves the rest of it.
LEMMA PoppedRest ==
    ASSUME NEW S, NEW s \in Seq(S), s # <<>>
    PROVE  /\ Len(s) \in Nat /\ Len(s) >= 1
           /\ s[Len(s)] \in S
           /\ SubSeq(s, 1, Len(s) - 1) \in Seq(S)
           /\ Len(SubSeq(s, 1, Len(s) - 1)) = Len(s) - 1
           /\ \A i \in 1..(Len(s) - 1) : SubSeq(s, 1, Len(s) - 1)[i] = s[i]
  <1>1. Len(s) \in Nat /\ Len(s) >= 1
    BY EmptySeq, LenProperties
  <1>2. \A i \in 1..(Len(s) - 1) : s[i] \in S
    BY <1>1, ElementOfSeq
  <1> DEFINE n == Len(s) - 1
  <1>3. n \in Nat /\ 1 \in Int
    BY <1>1
  <1>4. /\ SubSeq(s, 1, n) \in Seq(S)
        /\ Len(SubSeq(s, 1, n)) = (IF 1 <= n THEN n - 1 + 1 ELSE 0)
        /\ \A i \in 1..(n - 1 + 1) : SubSeq(s, 1, n)[i] = s[1 + i - 1]
    BY <1>2, <1>3, SubSeqProperties
  <1>5. s[Len(s)] \in S
    BY <1>1, ElementOfSeq
  <1> HIDE DEF n
  <1>6. n - 1 + 1 = n /\ \A i \in 1..n : 1 + i - 1 = i
    BY <1>3
  <1>7. Len(SubSeq(s, 1, n)) = n /\ \A i \in 1..n : SubSeq(s, 1, n)[i] = s[i]
    BY <1>3, <1>4, <1>6
  <1> QED  BY <1>1, <1>4, <1>5, <1>7 DEF n

\* An entry is let through exactly when it is to be followed and leads to
\* something not seen yet.
LEMMA RefusalMeaning ==
    ASSUME NEW e \in Entries, NEW seen
    PROVE  Refusal(e, seen) = "none" <=> Follows(e) /\ e.to \notin seen
  BY NodesAssumption DEF Refusal, Follows, Entries

\* The assumption on the roots, for one of them.
LEMMA RootKind ==
    ASSUME NEW r \in Roots
    PROVE  r \in Entries /\ (r.to \in Dirs \/ r.to \in Files \/ r.to = Nowhere)
  BY RootsAssumption

\* The limits of a walk are numbers.
LEMMA LimitsKind ==
    ASSUME limits \in Limits
    PROVE  /\ limits.depth \in Nat /\ limits.files \in Nat
           /\ limits.size \in Nat /\ limits.bytes \in Nat
  BY DEF Limits

-----------------------------------------------------------------------------
(* Types *)

\* Taking a file keeps the types.
LEMMA TakeFileType ==
    ASSUME NEW f \in Files, files \in Seq(Files), cut \in Cuts, total \in Nat,
           TakeFile(f)
    PROVE  files' \in Seq(Files) /\ cut' \in Cuts /\ total' \in Nat
  <1>1. Size[f] \in Nat
    BY SizeAssumption
  <1>2. Append(files, f) \in Seq(Files)
    BY AppendProperties
  <1>3. total + Size[f] \in Nat
    BY <1>1
  <1>4. \/ UNCHANGED <<files, total, cut>>
        \/ cut' = "MaxTotalBytes" /\ UNCHANGED <<files, total>>
        \/ files' = Append(files, f) /\ total' = total + Size[f] /\ UNCHANGED cut
    BY DEF TakeFile
  <1> QED  BY <1>2, <1>3, <1>4 DEF Cuts

\* A directory that is pushed keeps the type of the stack.
LEMMA PushType ==
    ASSUME stack \in Seq(Frame), NEW d \in Dirs, NEW n \in Nat
    PROVE  Append(stack, [dir |-> d, depth |-> n]) \in Seq(Frame)
  BY AppendProperties DEF Frame

LEMMA TypeInit == Init => TypeOK
  <1> SUFFICES ASSUME Init PROVE TypeOK
    OBVIOUS
  <1>1. tree \in [Dirs -> SUBSET Entries] /\ locked \subseteq Dirs /\ limits \in Limits
    BY TreesAssumption, LimitsAssumption DEF Init
  <1>2. here \in [dir : Dirs \cup {Nowhere}, depth : Nat, left : SUBSET Entries]
    BY DEF Init, Idle
  <1> QED  BY <1>1, <1>2 DEF Init, TypeOK, Cuts

\* A turn of the inner loop keeps the type of what it works on.
LEMMA TurnType ==
    ASSUME TypeOK, NEW e, Turn(e)
    PROVE  /\ e \in Entries
           /\ here' \in [dir : Dirs \cup {Nowhere}, depth : Nat, left : SUBSET Entries]
           /\ here'.dir = here.dir /\ here.dir \in Dirs /\ here.depth \in Nat
           /\ here'.left = here.left \ {e} /\ e \in here.left
  BY DEF TypeOK, Turn

LEMMA TypeStep == TypeOK /\ [Next]_vars => TypeOK'
  <1> SUFFICES ASSUME TypeOK, [Next]_vars PROVE TypeOK'
    OBVIOUS
  <1>0. /\ tree \in [Dirs -> SUBSET Entries] /\ locked \subseteq Dirs
        /\ root \in Roots /\ limits \in Limits
        /\ stack \in Seq(Frame) /\ visited \subseteq Nodes
        /\ files \in Seq(Files) /\ cut \in Cuts /\ total \in Nat
    BY DEF TypeOK, Frame
  <1>1. CASE RefuseRoot
    BY <1>1 DEF TypeOK, RefuseRoot, given
  <1>2. CASE OpenFile
    <2>1. files' \in Seq(Files) /\ cut' \in Cuts /\ total' \in Nat
      BY <1>0, <1>2, TakeFileType DEF OpenFile
    <2> QED  BY <1>2, <2>1 DEF TypeOK, OpenFile, given, Nodes
  <1>3. CASE OpenDir
    <2>1. <<[dir |-> root.to, depth |-> 0]>> \in Seq(Frame)
      BY <1>3 DEF OpenDir, Frame
    <2> QED  BY <1>3, <2>1 DEF TypeOK, OpenDir, given, Nodes, Frame
  <1>4. CASE TooDeep
    <2>1. stack' \in Seq(Frame)
      BY <1>0, <1>4, PoppedRest DEF TooDeep, Popped
    <2> QED  BY <1>4, <2>1 DEF TypeOK, TooDeep, given, Frame, Cuts
  <1>5. CASE CannotRead
    <2>1. stack' \in Seq(Frame)
      BY <1>0, <1>5, PoppedRest DEF CannotRead, Popped
    <2> QED  BY <1>5, <2>1 DEF TypeOK, CannotRead, given, Frame
  <1>6. CASE ReadDir
    <2>1. stack' \in Seq(Frame) /\ Top \in Frame
      BY <1>0, <1>6, PoppedRest DEF ReadDir, Popped, Top
    <2>2. Top.dir \in Dirs /\ Top.depth \in Nat
      BY <2>1 DEF Frame
    <2>3. tree[Top.dir] \in SUBSET Entries
      BY <1>0, <2>2
    <2>4. /\ here' \in [dir : Dirs \cup {Nowhere}, depth : Nat, left : SUBSET Entries]
          /\ here'.dir \in Dirs
      BY <1>6, <2>2, <2>3 DEF ReadDir
    <2> QED  BY <1>6, <2>1, <2>4 DEF TypeOK, ReadDir, given, Frame
  <1>7. CASE EndWalk
    BY <1>7 DEF TypeOK, EndWalk, given
  <1>8. ASSUME NEW e \in here.left,
               Refuse(e) \/ PushDir(e) \/ PassOver(e) \/ SeeFile(e)
        PROVE  TypeOK'
    <2>0. Turn(e)
      BY <1>8 DEF Refuse, PushDir, PassOver, SeeFile
    <2>1. /\ e \in Entries
          /\ here' \in [dir : Dirs \cup {Nowhere}, depth : Nat, left : SUBSET Entries]
          /\ here'.dir = here.dir /\ here.dir \in Dirs /\ here.depth \in Nat
      BY <2>0, TurnType
    <2>2. CASE Refuse(e)
      BY <2>1, <2>2 DEF TypeOK, Refuse, given
    <2>3. CASE PushDir(e)
      <3>1. stack' \in Seq(Frame)
        BY <1>0, <2>1, <2>3, PushType DEF PushDir
      <3> QED  BY <2>1, <2>3, <3>1 DEF TypeOK, PushDir, given, Nodes, Frame
    <2>4. CASE PassOver(e)
      BY <2>1, <2>4 DEF TypeOK, PassOver, given, Nodes
    <2>5. CASE SeeFile(e)
      <3>1. files' \in Seq(Files) /\ cut' \in Cuts /\ total' \in Nat
        BY <1>0, <2>5, TakeFileType DEF SeeFile, Cuts
      <3> QED  BY <2>1, <2>5, <3>1 DEF TypeOK, SeeFile, given, Nodes
    <2> QED  BY <1>8, <2>2, <2>3, <2>4, <2>5
  <1>9. CASE EndList
    BY <1>9 DEF TypeOK, EndList, given, Idle
  <1>10. CASE UNCHANGED vars
    BY <1>10 DEF TypeOK, vars
  <1> QED  BY <1>1, <1>2, <1>3, <1>4, <1>5, <1>6, <1>7, <1>8, <1>9, <1>10 DEF Next

\* Every variable of a walk keeps its type.
THEOREM TypeCorrect == Spec => []TypeOK
  BY TypeInit, TypeStep, PTL DEF Spec

-----------------------------------------------------------------------------
(* Budgets *)

\* What taking a file does, case by case.
LEMMA TakeFileCases ==
    ASSUME NEW f \in Files, files \in Seq(Files), TakeFile(f), limits \in Limits,
           total \in Nat
    PROVE  \/ /\ Size[f] > limits.size
              /\ files' = files /\ total' = total /\ cut' = cut
           \/ /\ cut' = "MaxTotalBytes" /\ files' = files /\ total' = total
           \/ /\ Size[f] <= limits.size
              /\ total + Size[f] <= limits.bytes
              /\ files' = Append(files, f)
              /\ total' = total + Size[f] /\ cut' = cut
              /\ Len(files') = Len(files) + 1
              /\ files'[Len(files) + 1] = f
              /\ \A i \in 1..Len(files) : files'[i] = files[i]
  <1>1. /\ Len(Append(files, f)) = Len(files) + 1
        /\ Append(files, f)[Len(files) + 1] = f
        /\ \A i \in 1..Len(files) : Append(files, f)[i] = files[i]
    BY AppendProperties
  <1>2. CASE Size[f] > limits.size /\ UNCHANGED <<files, total, cut>>
    BY <1>2
  <1>3. CASE cut' = "MaxTotalBytes" /\ UNCHANGED <<files, total>>
    BY <1>3
  <1>4. CASE /\ Size[f] <= limits.size /\ total + Size[f] <= limits.bytes
             /\ files' = Append(files, f) /\ total' = total + Size[f]
             /\ UNCHANGED cut
    BY <1>1, <1>4
  <1> QED  BY <1>2, <1>3, <1>4 DEF TakeFile

\* A budget is respected in every position of the list.
Small(seq) == \A i \in 1..Len(seq) : Size[seq[i]] <= limits.size

Budgets ==
    /\ Small(files)
    /\ total <= limits.bytes
    /\ root.to \in Dirs => Len(files) <= limits.files
    /\ pc = "open" => files = <<>>

LEMMA SmallTaken ==
    ASSUME NEW f \in Files, files \in Seq(Files), files' \in Seq(Files),
           limits' = limits, Small(files),
           Size[f] <= limits.size, Len(files') = Len(files) + 1,
           files'[Len(files) + 1] = f,
           \A i \in 1..Len(files) : files'[i] = files[i]
    PROVE  Small(files)'
  <1>1. Len(files) \in Nat
    BY LenProperties
  <1>2. \A i \in 1..(Len(files) + 1) : Size[files'[i]] <= limits.size
    BY <1>1 DEF Small
  <1> QED  BY <1>2 DEF Small

LEMMA BudgetsTaken ==
    ASSUME TypeOK, TypeOK', Budgets, NEW f \in Files, TakeFile(f), UNCHANGED given,
           root.to \in Dirs => Len(files) < limits.files
    PROVE  /\ Small(files)' /\ (total <= limits.bytes)'
           /\ (root.to \in Dirs => Len(files) <= limits.files)'
  <1>0. /\ files \in Seq(Files) /\ files' \in Seq(Files) /\ limits \in Limits
        /\ total \in Nat /\ limits' = limits /\ root' = root
        /\ Len(files) \in Nat
    BY LenProperties DEF TypeOK, given
  <1>1. limits.files \in Nat /\ limits.bytes \in Nat
    BY <1>0, LimitsKind
  <1>2. CASE files' = files /\ total' = total
    BY <1>0, <1>2 DEF Budgets, Small
  <1>3. CASE /\ Size[f] <= limits.size
             /\ total + Size[f] <= limits.bytes
             /\ files' = Append(files, f) /\ total' = total + Size[f]
             /\ Len(files') = Len(files) + 1
             /\ files'[Len(files) + 1] = f
             /\ \A i \in 1..Len(files) : files'[i] = files[i]
    <2>1. Small(files)'
      BY <1>0, <1>3, SmallTaken DEF Budgets
    <2> QED  BY <1>0, <1>1, <1>3, <2>1
  <1> QED  BY <1>0, <1>2, <1>3, TakeFileCases

LEMMA BudgetsInit == Init => Budgets
  <1> SUFFICES ASSUME Init PROVE Budgets
    OBVIOUS
  <1>1. limits.files \in Nat /\ limits.bytes \in Nat
    BY LimitsKind, LimitsAssumption DEF Init
  <1> QED  BY <1>1 DEF Init, Budgets, Small

\* Only a walk of a directory gets to the loops.
Walking == pc \in {"walk", "list"} => root.to \in Dirs

LEMMA WalkingStep == Walking /\ [Next]_vars => Walking'
  BY DEF Walking, Next, vars, given, RefuseRoot, OpenFile, OpenDir, TooDeep,
         CannotRead, ReadDir, EndWalk, Refuse, PushDir, PassOver, SeeFile, Turn,
         EndList

LEMMA BudgetsStep ==
    TypeOK /\ TypeOK' /\ Walking /\ Budgets /\ [Next]_vars => Budgets'
  <1> SUFFICES ASSUME TypeOK, TypeOK', Walking, Budgets, [Next]_vars
               PROVE  Budgets'
    OBVIOUS
  <1>1. CASE RefuseRoot
    BY <1>1 DEF Budgets, Small, RefuseRoot, given
  <1>2. CASE OpenFile
    <2>1. root.to \in Files /\ root.to \notin Dirs
      BY <1>2, NodesAssumption DEF OpenFile
    <2>2. TakeFile(root.to) /\ UNCHANGED given
      BY <1>2 DEF OpenFile
    <2>3. Small(files)' /\ (total <= limits.bytes)'
          /\ (root.to \in Dirs => Len(files) <= limits.files)'
      BY <2>1, <2>2, BudgetsTaken
    <2> QED  BY <1>2, <2>3 DEF Budgets, OpenFile
  <1>3. CASE OpenDir
    BY <1>3 DEF Budgets, Small, OpenDir, given
  <1>4. CASE TooDeep
    BY <1>4 DEF Budgets, Small, TooDeep, given
  <1>5. CASE CannotRead
    BY <1>5 DEF Budgets, Small, CannotRead, given
  <1>6. CASE ReadDir
    BY <1>6 DEF Budgets, Small, ReadDir, given, Walking
  <1>7. CASE EndWalk
    BY <1>7 DEF Budgets, Small, EndWalk, given
  <1>8. ASSUME NEW e \in here.left, Refuse(e) \/ PushDir(e) \/ PassOver(e)
        PROVE  Budgets'
    BY <1>8 DEF Budgets, Small, Refuse, PushDir, PassOver, given
  <1>9. ASSUME NEW e \in here.left, SeeFile(e)
        PROVE  Budgets'
    <2>1. pc = "list" /\ pc' = "list" /\ root' = root /\ UNCHANGED given
      BY <1>9 DEF SeeFile, Turn, given
    <2>2. CASE Len(files) >= limits.files /\ UNCHANGED <<files, total>>
      BY <2>1, <2>2 DEF Budgets, Small, given
    <2>3. CASE Len(files) < limits.files /\ TakeFile(e.to)
      <3>1. e.to \in Files
        BY <1>9 DEF SeeFile
      <3>2. Small(files)' /\ (total <= limits.bytes)'
            /\ (root.to \in Dirs => Len(files) <= limits.files)'
        BY <2>1, <2>3, <3>1, BudgetsTaken
      <3> QED  BY <2>1, <3>2 DEF Budgets
    <2> QED  BY <1>9, <2>2, <2>3 DEF SeeFile
  <1>10. CASE EndList
    BY <1>10 DEF Budgets, Small, EndList, given
  <1>11. CASE UNCHANGED vars
    BY <1>11 DEF Budgets, Small, vars
  <1> QED
    BY <1>1, <1>2, <1>3, <1>4, <1>5, <1>6, <1>7, <1>8, <1>9, <1>10, <1>11 DEF Next

LEMMA BudgetsHold == TypeOK /\ Budgets => WithinBudgets
  <1> SUFFICES ASSUME TypeOK, Budgets PROVE WithinBudgets
    OBVIOUS
  <1>1. DOMAIN files = 1..Len(files)
    BY LenProperties DEF TypeOK
  <1> QED  BY <1>1 DEF Budgets, Small, WithinBudgets

\* No walk exceeds its limits: files, size of a file, bytes in total.
THEOREM BudgetsKept == Spec => []WithinBudgets
  <1>1. Init => Walking
    BY DEF Init, Walking
  <1> QED
    BY <1>1, TypeInit, TypeStep, WalkingStep, BudgetsInit, BudgetsStep, BudgetsHold,
       PTL DEF Spec

-----------------------------------------------------------------------------
(* Collected once, and only what is reachable *)

\* Every closed set holds what was seen: what was seen is reachable.
Needed ==
    /\ visited \subseteq Inside
    /\ visited # {} => Follows(root)
    /\ \A S \in SUBSET Inside : IsClosed(S) => visited \subseteq S

\* What is read, what is to be read and what is collected was seen.
Seen ==
    /\ pc = "open" => visited = {}
    /\ pc = "list" =>
           /\ here.dir \in visited \ locked
           /\ here.left \subseteq tree[here.dir]
    /\ \A i \in 1..Len(stack) : stack[i].dir \in visited

\* The files collected are nodes seen, each in one place.
Once ==
    /\ pc = "open" => files = <<>>
    /\ \A i \in 1..Len(files) : files[i] \in visited
    /\ \A i, j \in 1..Len(files) : files[i] = files[j] => i = j

\* Taking off the top of the stack, and pushing, keep what was seen.
LEMMA PoppedSeen ==
    ASSUME TypeOK, Seen, stack # <<>>, stack' = Popped, visited' = visited
    PROVE  /\ (\A i \in 1..Len(stack) : stack[i].dir \in visited)'
           /\ Top.dir \in visited
           /\ \A i \in 1..Len(stack') : i \in 1..Len(stack) /\ stack'[i] = stack[i]
           /\ \A i \in 1..Len(stack) : i = Len(stack) \/ i \in 1..Len(stack')
  <1>1. /\ Len(stack) \in Nat /\ Len(stack) >= 1
        /\ Len(stack') = Len(stack) - 1
        /\ \A i \in 1..(Len(stack) - 1) : stack'[i] = stack[i]
    BY PoppedRest DEF TypeOK, Popped
  <1> QED  BY <1>1 DEF Seen, Top

LEMMA PushedSeen ==
    ASSUME TypeOK, NEW d \in Dirs, NEW n \in Nat,
           stack' = Append(stack, [dir |-> d, depth |-> n])
    PROVE  /\ Len(stack) \in Nat /\ Len(stack') = Len(stack) + 1
           /\ stack'[Len(stack) + 1].dir = d
           /\ \A i \in 1..Len(stack) : stack'[i] = stack[i]
  <1>1. stack \in Seq(Frame) /\ [dir |-> d, depth |-> n] \in Frame
    BY DEF TypeOK, Frame
  <1>2. /\ Len(stack') = Len(stack) + 1
        /\ stack'[Len(stack) + 1] = [dir |-> d, depth |-> n]
        /\ \A i \in 1..Len(stack) : stack'[i] = stack[i]
    BY <1>1, AppendProperties
  <1> QED  BY <1>1, <1>2, LenProperties

LEMMA SeenInit == Init => Seen
  BY DEF Init, Seen

LEMMA SeenStep == TypeOK /\ Seen /\ [Next]_vars => Seen'
  <1> SUFFICES ASSUME TypeOK, Seen, [Next]_vars PROVE Seen'
    OBVIOUS
  <1>1. CASE RefuseRoot
    BY <1>1 DEF Seen, RefuseRoot, given
  <1>2. CASE OpenFile
    BY <1>2 DEF Seen, OpenFile, given
  <1>3. CASE OpenDir
    BY <1>3 DEF Seen, OpenDir, given
  <1>4. CASE TooDeep
    <2>1. (\A i \in 1..Len(stack) : stack[i].dir \in visited)'
      BY <1>4, PoppedSeen DEF TooDeep
    <2> QED  BY <1>4, <2>1 DEF Seen, TooDeep, given
  <1>5. CASE CannotRead
    <2>1. (\A i \in 1..Len(stack) : stack[i].dir \in visited)'
      BY <1>5, PoppedSeen DEF CannotRead
    <2> QED  BY <1>5, <2>1 DEF Seen, CannotRead, given
  <1>6. CASE ReadDir
    <2>1. (\A i \in 1..Len(stack) : stack[i].dir \in visited)' /\ Top.dir \in visited
      BY <1>6, PoppedSeen DEF ReadDir
    <2>2. here'.dir = Top.dir /\ here'.left = tree[Top.dir]
      BY <1>6 DEF ReadDir
    <2> QED  BY <1>6, <2>1, <2>2 DEF Seen, ReadDir, given
  <1>7. CASE EndWalk
    BY <1>7 DEF Seen, EndWalk, given
  <1>8. ASSUME NEW e \in here.left,
               Refuse(e) \/ PushDir(e) \/ PassOver(e) \/ SeeFile(e)
        PROVE  Seen'
    <2>0. Turn(e)
      BY <1>8 DEF Refuse, PushDir, PassOver, SeeFile
    <2>1. /\ here'.dir = here.dir /\ here.depth \in Nat
          /\ here'.left = here.left \ {e}
      BY <2>0, TurnType
    <2>2. visited \subseteq visited' /\ UNCHANGED given /\ pc = "list" /\ pc' = "list"
      BY <1>8 DEF Refuse, PushDir, PassOver, SeeFile, Turn
    <2>3. CASE UNCHANGED stack
      BY <2>1, <2>2, <2>3 DEF Seen, given
    <2>4. CASE PushDir(e)
      <3>1. /\ Len(stack) \in Nat /\ Len(stack') = Len(stack) + 1
            /\ stack'[Len(stack) + 1].dir = e.to
            /\ \A i \in 1..Len(stack) : stack'[i] = stack[i]
        BY <2>1, <2>4, PushedSeen DEF PushDir
      <3>2. e.to \in visited'
        BY <2>4 DEF PushDir
      <3> QED  BY <2>1, <2>2, <3>1, <3>2 DEF Seen, given
    <2> QED  BY <1>8, <2>3, <2>4 DEF Refuse, PassOver, SeeFile
  <1>9. CASE EndList
    BY <1>9 DEF Seen, EndList, given
  <1>10. CASE UNCHANGED vars
    BY <1>10 DEF Seen, vars
  <1> QED  BY <1>1, <1>2, <1>3, <1>4, <1>5, <1>6, <1>7, <1>8, <1>9, <1>10 DEF Next

LEMMA NeededInit == Init => Needed
  BY DEF Init, Needed

\* What a walk is about does not change, so neither does what is closed.
LEMMA GivenStays ==
    ASSUME UNCHANGED given
    PROVE  /\ \A e : Follows(e)' <=> Follows(e)
           /\ \A S : IsClosed(S)' <=> IsClosed(S)
  BY DEF given, Follows, IsClosed

\* An entry of the directory being read that is followed is in every closed
\* set.
LEMMA EntryNeeded ==
    ASSUME TypeOK, Seen, Needed, NEW e, Turn(e), Follows(e)
    PROVE  /\ e.to \in Inside
           /\ \A S \in SUBSET Inside : IsClosed(S) => e.to \in S
           /\ Follows(root)
  <1>1. here.dir \in visited \ locked /\ e \in tree[here.dir] /\ here.dir \in Dirs
    BY DEF Turn, Seen, TypeOK
  <1>2. ASSUME NEW S \in SUBSET Inside, IsClosed(S) PROVE e.to \in S
    BY <1>1, <1>2 DEF Needed, IsClosed
  <1> QED  BY <1>1, <1>2 DEF Needed, Follows, Inside

LEMMA NeededStep == TypeOK /\ Seen /\ Needed /\ [Next]_vars => Needed'
  <1> SUFFICES ASSUME TypeOK, Seen, Needed, [Next]_vars PROVE Needed'
    OBVIOUS
  <1>1. CASE UNCHANGED <<given, visited>>
    <2>1. Follows(root)' <=> Follows(root)
      BY <1>1 DEF given, Follows
    <2>2. \A S : IsClosed(S)' <=> IsClosed(S)
      BY <1>1, GivenStays
    <2> QED  BY <1>1, <2>1, <2>2 DEF Needed
  <1>2. ASSUME UNCHANGED given, root.to \in visited', visited' = {root.to},
               Refusal(root, {}) = "none"
        PROVE  Needed'
    <2>1. Follows(root) /\ root.to \in Inside
      BY <1>2, RefusalMeaning, RootKind DEF TypeOK, Follows, Inside
    <2>2. \A S : IsClosed(S) => root.to \in S
      BY DEF IsClosed
    <2>3. Follows(root)'
      BY <1>2, <2>1 DEF given, Follows
    <2> QED  BY <1>2, <2>1, <2>2, <2>3, GivenStays DEF Needed
  <1>3. ASSUME NEW e \in here.left, Turn(e), Refusal(e, visited) = "none",
               UNCHANGED given, visited' = visited \cup {e.to}
        PROVE  Needed'
    <2>1. Follows(e)
      BY <1>3, RefusalMeaning, TurnType
    <2>2. /\ e.to \in Inside
          /\ \A S \in SUBSET Inside : IsClosed(S) => e.to \in S
          /\ Follows(root)
      BY <1>3, <2>1, EntryNeeded
    <2>3. Follows(root)'
      BY <1>3, <2>2 DEF given, Follows
    <2> QED  BY <1>3, <2>2, <2>3, GivenStays DEF Needed
  <1>4. CASE RefuseRoot \/ TooDeep \/ CannotRead \/ ReadDir \/ EndWalk \/ EndList
    BY <1>1, <1>4 DEF RefuseRoot, TooDeep, CannotRead, ReadDir, EndWalk, EndList
  <1>5. CASE OpenFile \/ OpenDir
    BY <1>2, <1>5 DEF OpenFile, OpenDir
  <1>6. ASSUME NEW e \in here.left,
               Refuse(e) \/ PushDir(e) \/ PassOver(e) \/ SeeFile(e)
        PROVE  Needed'
    BY <1>1, <1>3, <1>6 DEF Refuse, PushDir, PassOver, SeeFile
  <1>7. CASE UNCHANGED vars
    BY <1>1, <1>7 DEF vars, given
  <1> QED  BY <1>4, <1>5, <1>6, <1>7 DEF Next

LEMMA OnceInit == Init => Once
  BY DEF Init, Once

\* A file that was not seen before is collected for the first time.
LEMMA OnceTaken ==
    ASSUME TypeOK, Once, NEW f \in Files, TakeFile(f), f \notin visited,
           visited' = visited \cup {f}, pc' # "open"
    PROVE  Once'
  <1>0. /\ files \in Seq(Files) /\ limits \in Limits /\ total \in Nat
        /\ Len(files) \in Nat
    BY LenProperties DEF TypeOK
  <1>1. CASE files' = files
    BY <1>1 DEF Once
  <1>2. CASE /\ Len(files') = Len(files) + 1
             /\ files'[Len(files) + 1] = f
             /\ \A i \in 1..Len(files) : files'[i] = files[i]
    <2>1. \A i \in 1..Len(files) : files'[i] # f
      BY <1>2 DEF Once
    <2>2. \A i \in 1..Len(files') : i = Len(files) + 1 \/ i \in 1..Len(files)
      BY <1>0, <1>2
    <2> QED  BY <1>0, <1>2, <2>1, <2>2 DEF Once
  <1> QED  BY <1>0, <1>1, <1>2, TakeFileCases

LEMMA OnceStep == TypeOK /\ Seen /\ Once /\ [Next]_vars => Once'
  <1> SUFFICES ASSUME TypeOK, Seen, Once, [Next]_vars PROVE Once'
    OBVIOUS
  <1>1. ASSUME UNCHANGED files, visited \subseteq visited', pc' # "open" \/ pc' = pc
        PROVE  Once'
    BY <1>1 DEF Once
  <1>2. CASE RefuseRoot \/ TooDeep \/ CannotRead \/ ReadDir \/ EndWalk \/ EndList
    BY <1>1, <1>2 DEF RefuseRoot, TooDeep, CannotRead, ReadDir, EndWalk, EndList
  <1>3. CASE OpenDir
    BY <1>3 DEF OpenDir, Once
  <1>4. CASE OpenFile
    BY <1>4, OnceTaken DEF OpenFile, Seen
  <1>5. ASSUME NEW e \in here.left, Refuse(e) \/ PushDir(e) \/ PassOver(e)
        PROVE  Once'
    BY <1>1, <1>5 DEF Refuse, PushDir, PassOver
  <1>6. ASSUME NEW e \in here.left, SeeFile(e)
        PROVE  Once'
    <2>1. /\ Refusal(e, visited) = "none" /\ Turn(e) /\ e.to \in Files
          /\ visited' = visited \cup {e.to} /\ pc' = pc /\ pc = "list"
      BY <1>6 DEF SeeFile, Turn
    <2>2. e.to \notin visited
      BY <2>1, RefusalMeaning, TurnType
    <2>3. CASE UNCHANGED files
      BY <1>1, <2>1, <2>3
    <2>4. CASE TakeFile(e.to)
      BY <2>1, <2>2, <2>4, OnceTaken
    <2> QED  BY <1>6, <2>3, <2>4 DEF SeeFile
  <1>7. CASE UNCHANGED vars
    BY <1>1, <1>7 DEF vars
  <1> QED  BY <1>2, <1>3, <1>4, <1>5, <1>6, <1>7 DEF Next

LEMMA OnceHolds == TypeOK /\ Needed /\ Once => CollectedOnce
  <1> SUFFICES ASSUME TypeOK, Needed, Once PROVE CollectedOnce
    OBVIOUS
  <1>1. DOMAIN files = 1..Len(files)
    BY LenProperties DEF TypeOK
  <1>2. visited \subseteq Reachable
    BY DEF Needed, Reachable, Inside
  <1> QED  BY <1>1, <1>2 DEF Once, CollectedOnce

\* Whatever links there are, a file is collected once, and only when it is
\* below the root and reached through entries that are to be followed.
THEOREM OnceEach == Spec => []CollectedOnce
  BY TypeInit, TypeStep, SeenInit, SeenStep, NeededInit, NeededStep, OnceInit,
     OnceStep, OnceHolds, PTL DEF Spec

-----------------------------------------------------------------------------
(* Nothing left out in silence *)

\* Everything a directory lists that is to be followed was seen.
Settled(d) == \A e \in tree[d] : Follows(e) => e.to \in visited

\* As long as no limit is hit: a directory that is neither waiting nor being
\* read is settled; of the one being read, what was looked at is; and the
\* files seen are collected unless they are too large.
Explored ==
    pc # "open" /\ cut = "none" =>
        /\ Follows(root) => root.to \in visited
        /\ \A d \in (visited \cap Dirs) \ locked :
               \/ \E i \in 1..Len(stack) : stack[i].dir = d
               \/ pc = "list" /\ here.dir = d
               \/ Settled(d)
        /\ pc = "list" =>
               \A e \in tree[here.dir] \ here.left : Follows(e) => e.to \in visited
        /\ \A f \in visited \cap Files :
               Size[f] <= limits.size => \E i \in 1..Len(files) : files[i] = f
        /\ pc = "done" => stack = <<>>

\* Before the walk nothing is seen, waiting or cut.
Fresh ==
    pc = "open" => visited = {} /\ stack = <<>> /\ cut = "none"

LEMMA FreshInit == Init => Fresh
  BY DEF Init, Fresh

LEMMA FreshStep == Fresh /\ [Next]_vars => Fresh'
  BY DEF Fresh, Next, vars, RefuseRoot, OpenFile, OpenDir, TooDeep, CannotRead,
         ReadDir, EndWalk, Refuse, PushDir, PassOver, SeeFile, Turn, EndList

LEMMA ExploredInit == Init => Explored
  BY DEF Init, Explored

\* A file that is taken without a limit being hit is collected or too large.
LEMMA TakenOrLarge ==
    ASSUME TypeOK, NEW f \in Files, TakeFile(f), cut' = "none", UNCHANGED given
    PROVE  /\ Size[f] <= limits.size => \E i \in 1..Len(files') : files'[i] = f
           /\ \A g : (\E i \in 1..Len(files) : files[i] = g)
                         => \E i \in 1..Len(files') : files'[i] = g
  <1>0. /\ files \in Seq(Files) /\ limits \in Limits /\ total \in Nat
        /\ Len(files) \in Nat /\ Size[f] \in Nat /\ limits.size \in Nat
    BY LenProperties, LimitsKind, SizeAssumption DEF TypeOK
  <1>1. CASE Size[f] > limits.size /\ files' = files
    BY <1>0, <1>1
  <1>2. CASE /\ Len(files') = Len(files) + 1
             /\ files'[Len(files) + 1] = f
             /\ \A i \in 1..Len(files) : files'[i] = files[i]
    <2>1. /\ Len(files) + 1 \in 1..Len(files')
          /\ \A i \in 1..Len(files) : i \in 1..Len(files')
      BY <1>0, <1>2
    <2> QED  BY <1>2, <2>1
  <1> QED  BY <1>0, <1>1, <1>2, TakeFileCases

\* What is settled stays settled.
LEMMA SettledStays ==
    ASSUME UNCHANGED given, visited \subseteq visited'
    PROVE  \A d : Settled(d) => Settled(d)'
  BY DEF Settled, given, Follows

LEMMA ExploredStep ==
    TypeOK /\ Seen /\ Fresh /\ Explored /\ [Next]_vars => Explored'
  <1> SUFFICES ASSUME TypeOK, Seen, Fresh, Explored, [Next]_vars,
                      pc' # "open", cut' = "none"
               PROVE  Explored'
    BY DEF Explored
  <1>1. CASE RefuseRoot
    <2>1. ~Follows(root)
      BY <1>1, RefusalMeaning, RootKind DEF RefuseRoot, TypeOK
    <2>2. ~Follows(root)'
      BY <1>1, <2>1 DEF RefuseRoot, given, Follows
    <2> QED  BY <1>1, <2>2 DEF RefuseRoot, Fresh, Explored
  <1>2. CASE OpenFile
    <2>1. Size[root.to] <= limits.size => \E i \in 1..Len(files') : files'[i] = root.to
      BY <1>2, TakenOrLarge DEF OpenFile
    <2> QED  BY <1>2, <2>1, NodesAssumption DEF OpenFile, Fresh, Explored, given
  <1>3. CASE OpenDir
    <2>1. /\ Len(stack') = 1 /\ stack'[1].dir = root.to
          /\ visited' = {root.to} /\ root.to \in Dirs /\ pc' = "walk"
          /\ UNCHANGED given
      BY <1>3 DEF OpenDir
    <2>2. \E i \in 1..Len(stack') : stack'[i].dir = root.to
      BY <2>1
    <2> QED  BY <2>1, <2>2, NodesAssumption DEF Explored, given
  <1>4. CASE TooDeep
    BY <1>4 DEF TooDeep
  <1>5. CASE CannotRead
    <2>1. /\ \A i \in 1..Len(stack') : i \in 1..Len(stack) /\ stack'[i] = stack[i]
          /\ \A i \in 1..Len(stack) : i = Len(stack) \/ i \in 1..Len(stack')
      BY <1>5, PoppedSeen DEF CannotRead
    <2>2. /\ stack[Len(stack)].dir \in locked /\ pc = "walk" /\ pc' = "walk"
          /\ UNCHANGED <<given, visited, files, cut>>
      BY <1>5 DEF CannotRead, Top
    <2>3. \A d \in (visited' \cap Dirs) \ locked' :
              (\E i \in 1..Len(stack') : stack'[i].dir = d) \/ Settled(d)'
      BY <2>1, <2>2, SettledStays DEF Explored, given
    <2>4. (Follows(root) => root.to \in visited)'
      BY <2>2 DEF Explored, given, Follows
    <2> QED  BY <2>2, <2>3, <2>4 DEF Explored, given
  <1>6. CASE ReadDir
    <2>1. /\ \A i \in 1..Len(stack') : i \in 1..Len(stack) /\ stack'[i] = stack[i]
          /\ \A i \in 1..Len(stack) : i = Len(stack) \/ i \in 1..Len(stack')
      BY <1>6, PoppedSeen DEF ReadDir
    <2>2. /\ here'.dir = stack[Len(stack)].dir /\ here'.left = tree[here'.dir]
          /\ pc = "walk" /\ pc' = "list"
          /\ UNCHANGED <<given, visited, files, cut>>
      BY <1>6 DEF ReadDir, Top
    <2>3. \A d \in (visited' \cap Dirs) \ locked' :
              \/ \E i \in 1..Len(stack') : stack'[i].dir = d
              \/ here'.dir = d
              \/ Settled(d)'
      BY <2>1, <2>2, SettledStays DEF Explored, given
    <2>4. (Follows(root) => root.to \in visited)'
      BY <2>2 DEF Explored, given, Follows
    <2> QED  BY <2>2, <2>3, <2>4 DEF Explored, given
  <1>7. CASE EndWalk
    <2>1. /\ pc = "walk" /\ pc' = "done" /\ stack = <<>>
          /\ UNCHANGED <<given, stack, here, visited, files, cut>>
      BY <1>7 DEF EndWalk
    <2>2. \A d \in (visited' \cap Dirs) \ locked' :
              (\E i \in 1..Len(stack') : stack'[i].dir = d) \/ Settled(d)'
      BY <2>1, SettledStays DEF Explored, given
    <2>3. (Follows(root) => root.to \in visited)'
      BY <2>1 DEF Explored, given, Follows
    <2> QED  BY <2>1, <2>2, <2>3 DEF Explored, given
  <1>8. ASSUME NEW e \in here.left, Turn(e), UNCHANGED <<given, pc>>,
               visited \subseteq visited', visited' \subseteq visited \cup {e.to},
               Follows(e) => e.to \in visited',
               \A d : (\E i \in 1..Len(stack) : stack[i].dir = d)
                          => \E i \in 1..Len(stack') : stack'[i].dir = d,
               e.to \in Dirs /\ e.to \notin visited /\ e.to \in visited'
                   => \E i \in 1..Len(stack') : stack'[i].dir = e.to,
               \A f : (\E i \in 1..Len(files) : files[i] = f)
                          => \E i \in 1..Len(files') : files'[i] = f,
               e.to \in Files /\ e.to \notin visited /\ e.to \in visited'
                   /\ Size[e.to] <= limits.size
                   => \E i \in 1..Len(files') : files'[i] = e.to
        PROVE  Explored'
    <2>1. /\ here'.dir = here.dir /\ here'.left = here.left \ {e}
          /\ pc = "list" /\ pc' = "list" /\ cut = "none"
      BY <1>8, TurnType DEF Turn
    <2>2. \A d \in (visited' \cap Dirs) \ locked' :
              \/ \E i \in 1..Len(stack') : stack'[i].dir = d
              \/ here'.dir = d
              \/ Settled(d)'
      BY <1>8, <2>1, SettledStays DEF Explored, given
    <2>3. \A x : Follows(x)' <=> Follows(x)
      BY <1>8, GivenStays
    <2>4. (Follows(root) => root.to \in visited)'
      BY <1>8, <2>1 DEF Explored, given, Follows
    <2>5. \A x \in tree'[here'.dir] \ here'.left : Follows(x) => x.to \in visited'
      BY <1>8, <2>1 DEF Explored, given
    <2>6. \A f \in visited' \cap Files :
              Size[f] <= limits'.size => \E i \in 1..Len(files') : files'[i] = f
      BY <1>8, <2>1 DEF Explored, given
    <2> QED  BY <2>1, <2>2, <2>3, <2>4, <2>5, <2>6 DEF Explored
  <1>9. ASSUME NEW e \in here.left,
               Refuse(e) \/ PushDir(e) \/ PassOver(e) \/ SeeFile(e)
        PROVE  Explored'
    <2>0. Turn(e) /\ UNCHANGED <<given, pc>>
      BY <1>9 DEF Refuse, PushDir, PassOver, SeeFile
    <2>1. e \in Entries
      BY <2>0, TurnType
    <2>2. CASE Refuse(e)
      <3>1. Follows(e) => e.to \in visited
        BY <2>1, <2>2, RefusalMeaning DEF Refuse
      <3> QED  BY <1>8, <1>9, <2>0, <2>2, <3>1 DEF Refuse
    <2>3. CASE PushDir(e)
      <3>1. /\ visited' = visited \cup {e.to} /\ UNCHANGED files /\ e.to \in Dirs
            /\ stack' = Append(stack, [dir |-> e.to, depth |-> here.depth + 1])
            /\ here.depth + 1 \in Nat
        BY <2>0, <2>3, TurnType DEF PushDir
      <3>2. /\ Len(stack) \in Nat /\ Len(stack') = Len(stack) + 1
            /\ stack'[Len(stack) + 1].dir = e.to
            /\ \A i \in 1..Len(stack) : stack'[i] = stack[i]
        BY <3>1, PushedSeen
      <3>3. /\ Len(stack) + 1 \in 1..Len(stack')
            /\ \A i \in 1..Len(stack) : i \in 1..Len(stack')
        BY <3>2
      <3>4. /\ \E i \in 1..Len(stack') : stack'[i].dir = e.to
            /\ \A d : (\E i \in 1..Len(stack) : stack[i].dir = d)
                          => \E i \in 1..Len(stack') : stack'[i].dir = d
        BY <3>2, <3>3
      <3>5. e.to \notin Files
        BY <3>1, NodesAssumption
      <3> QED  BY <1>8, <1>9, <2>0, <3>1, <3>4, <3>5
    <2>4. CASE PassOver(e)
      <3>1. e.to \notin Files /\ e.to \notin Dirs
        BY <2>4, NodesAssumption DEF PassOver
      <3> QED  BY <1>8, <1>9, <2>0, <2>4, <3>1 DEF PassOver
    <2>5. CASE SeeFile(e)
      <3>1. /\ TakeFile(e.to) /\ e.to \in Files /\ UNCHANGED stack
            /\ visited' = visited \cup {e.to}
        BY <2>5 DEF SeeFile
      <3>2. e.to \notin Dirs
        BY <3>1, NodesAssumption
      <3>3. /\ Size[e.to] <= limits.size => \E i \in 1..Len(files') : files'[i] = e.to
            /\ \A f : (\E i \in 1..Len(files) : files[i] = f)
                          => \E i \in 1..Len(files') : files'[i] = f
        BY <2>0, <3>1, TakenOrLarge
      <3> QED  BY <1>8, <1>9, <2>0, <3>1, <3>2, <3>3
    <2> QED  BY <1>9, <2>2, <2>3, <2>4, <2>5
  <1>10. CASE EndList
    <2>1. /\ pc = "list" /\ pc' = "walk" /\ here.left = {}
          /\ UNCHANGED <<given, stack, visited, files, cut>>
      BY <1>10 DEF EndList
    <2>2. Settled(here.dir)
      BY <2>1 DEF Explored, Settled
    <2>3. \A d \in (visited' \cap Dirs) \ locked' :
              (\E i \in 1..Len(stack') : stack'[i].dir = d) \/ Settled(d)'
      BY <2>1, <2>2, SettledStays DEF Explored, given
    <2>4. (Follows(root) => root.to \in visited)'
      BY <2>1 DEF Explored, given, Follows
    <2> QED  BY <2>1, <2>3, <2>4 DEF Explored, given
  <1>11. CASE UNCHANGED vars
    BY <1>11 DEF vars, Explored, Settled, Follows
  <1> QED
    BY <1>1, <1>2, <1>3, <1>4, <1>5, <1>6, <1>7, <1>9, <1>10, <1>11 DEF Next

LEMMA ExploredHolds ==
    TypeOK /\ Needed /\ Explored => CompleteUnlessTruncated
  <1> SUFFICES ASSUME TypeOK, Needed, Explored, pc = "done", cut = "none",
                      NEW f \in Reachable \cap Files, Size[f] <= limits.size
               PROVE  \E i \in DOMAIN files : files[i] = f
    BY DEF CompleteUnlessTruncated
  <1>1. Follows(root) /\ root.to \in visited
    BY DEF Reachable, Explored
  <1>2. stack = <<>> /\ 1..Len(stack) = {}
    BY DEF Explored
  <1>3. \A d \in (visited \cap Dirs) \ locked : Settled(d)
    BY <1>2 DEF Explored
  <1>4. IsClosed(visited)
    BY <1>1, <1>3 DEF IsClosed, Settled
  <1>5. f \in visited
    BY <1>4 DEF Reachable, Needed, Inside
  <1>6. DOMAIN files = 1..Len(files)
    BY LenProperties DEF TypeOK
  <1> QED  BY <1>5, <1>6 DEF Explored

\* A walk that is not truncated collected every reachable file of a size
\* within the limit.
THEOREM Complete == Spec => []CompleteUnlessTruncated
  BY TypeInit, TypeStep, SeenInit, SeenStep, NeededInit, NeededStep, FreshInit,
     FreshStep, ExploredInit, ExploredStep, ExploredHolds, PTL DEF Spec
=============================================================================
