------------------------- MODULE SecureDeleteProofs -------------------------
(***************************************************************************)
(* Proofs about SecureDelete: what a deletion removes, overwrites and      *)
(* leaves, for every tree, every number of passes and every late arrival.  *)
(***************************************************************************)
EXTENDS SecureDelete, TLAPS

Ours == tree.inside \cup arrived
Overwriting == pc \in {"truncate", "overwrite", "unlink"}

\* Whatever is visited or overwritten is of the tree; what is overwritten is,
\* at the end of its links, a file.
Scope ==
    /\ todo \subseteq Ours
    /\ Overwriting => secure /\ cur \in Ours /\ tree.kind[Resolve(cur)] = "file"
    /\ pc = "walk" => secure
    /\ pc \in {"walk", "remove all"} => tree.kind[Root] = "dir"
    /\ Overwriting /\ cur # Root => tree.kind[Root] = "dir"
    /\ pc = "unlink" => Victim \in done

\* A deletion that has not begun has changed nothing, one that has a result is
\* over.
Phases ==
    /\ pc = "start" =>
         present = tree.inside \cup tree.outside /\ arrived = {} /\ cur = Root
    /\ outcome # "none" => pc = "end"

\* What is left of the tree hangs together.
Attached ==
    /\ present \subseteq tree.outside \cup Ours
    /\ \A p \in present \cap Ours : p = Root \/ tree.parent[p] \in present

\* What the walk has passed and left behind is a special file or a link, and no
\* link to a file outside.
LeftBehind(p) ==
    tree.kind[p] \in {"link", "special"} /\ ~LeadsTo(p, "file", tree.outside)
Passed(p) ==
    p \in todo \/ LeftBehind(p) \/ (Overwriting /\ p = cur)
Walked ==
    /\ tree.kind[Root] = "dir" /\ (pc = "walk" \/ Overwriting) =>
         \A p \in (tree.inside \cap present) \ {Root} : Passed(p)
    /\ pc = "remove all" /\ secure =>
         \A p \in (tree.inside \cap present) \ {Root} : LeftBehind(p)

\* An entry that is in the way in every order is still there, and the walk has
\* not come to the place where it fails for it.
Stop(p) == IF tree.parent[p] = Root THEN p ELSE tree.parent[p]
StillThere(p) == p \in present /\ Stop(p) \in todo /\ (Overwriting => p # cur)
Stuck ==
    secure /\ arrived = {} =>
        /\ pc = "walk" \/ Overwriting =>
             \A p \in tree.inside : MustStop(p) => StillThere(p)
        /\ pc = "remove all" \/ outcome = "ok" =>
             \A p \in tree.inside : ~MustStop(p)

IInv ==
    /\ TypeOK /\ Scope /\ Phases /\ Attached /\ Walked /\ Stuck
    /\ RemovedIsWiped /\ OkMeansGone /\ OutsideKept /\ FailsForAReason

Assumptions == LayoutAssumption /\ SizeAssumption

-----------------------------------------------------------------------------
(***************************************************************************)
(* The shape of a layout.                                                  *)
(***************************************************************************)
LEMMA Shape ==
    ASSUME Assumptions, tree \in Layouts
    PROVE  /\ tree.inside \subseteq Paths
           /\ tree.outside \subseteq Paths
           /\ tree.late \subseteq Paths
           /\ \A p \in Paths : tree.kind[p] \in {"file", "dir", "link", "special"}
           /\ \A p \in Paths : tree.target[p] \in Paths
           /\ \A p \in Paths : tree.inode[p] \in Inodes
           /\ Root \in Paths
    BY DEF Assumptions, LayoutAssumption, SizeAssumption, LayoutSpace

LEMMA Apart ==
    ASSUME Assumptions, tree \in Layouts
    PROVE  /\ tree.inside \cap tree.outside = {}
           /\ tree.late \cap (tree.inside \cup tree.outside) = {}
           /\ \A p \in tree.late : tree.kind[p] = "file"
           /\ Root \notin tree.outside
           /\ Root \in tree.inside \/ tree.inside = {}
           /\ tree.kind[Root] = "link" => tree.kind[tree.target[Root]] \in {"file", "special"}
           /\ tree.kind[Root] = "link" => tree.target[Root] \in tree.outside
    BY DEF Assumptions, LayoutAssumption

LEMMA Parents ==
    ASSUME Assumptions, tree \in Layouts
    PROVE  /\ \A p \in (tree.inside \cup tree.late) \ {Root} :
                tree.parent[p] \in tree.inside /\ tree.kind[tree.parent[p]] = "dir"
           /\ \A p \in tree.outside : tree.parent[p] \notin tree.inside
    BY DEF Assumptions, LayoutAssumption, TreeShaped

\* A part of the tree that is not empty hangs on something outside that part.
LEMMA Hangs ==
    ASSUME Assumptions, tree \in Layouts,
           NEW S \in SUBSET ((tree.inside \cup tree.late) \ {Root}), S # {}
    PROVE  \E p \in S : tree.parent[p] \notin S
    BY DEF Assumptions, LayoutAssumption, TreeShaped

\* A root that is no directory is all there is.
LEMMA LoneRoot ==
    ASSUME Assumptions, tree \in Layouts, tree.kind[Root] # "dir"
    PROVE  tree.inside \cup tree.late \subseteq {Root}
<1> DEFINE S == (tree.inside \cup tree.late) \ {Root}
<1>1. SUFFICES ASSUME S # {} PROVE FALSE
    OBVIOUS
<1>2. PICK p \in S : tree.parent[p] \notin S
    BY <1>1, Hangs
<1>3. tree.parent[p] \in tree.inside /\ tree.kind[tree.parent[p]] = "dir"
    BY Parents
<1> QED
    BY <1>2, <1>3

LEMMA Resolving ==
    ASSUME Assumptions, tree \in Layouts, NEW p \in Paths
    PROVE  /\ Resolve(p) \in Paths
           /\ tree.inode[Resolve(p)] \in Inodes
           /\ tree.kind[p] # "link" => Resolve(p) = p
           /\ tree.kind[p] = "link" => Resolve(p) = tree.target[p]
    BY Shape DEF Resolve

-----------------------------------------------------------------------------
(***************************************************************************)
(* Types.                                                                  *)
(***************************************************************************)
LEMMA InitType == Assumptions /\ Init => TypeOK
<1> SUFFICES ASSUME Assumptions, Init PROVE TypeOK
    OBVIOUS
<1>1. tree \in Layouts
    BY DEF Init
<1>2. present \subseteq Paths /\ cur \in Paths
    BY <1>1, Shape DEF Init
<1>3. pass \in 0 .. (Passes - 1)
    BY DEF Init, Assumptions, SizeAssumption
<1> QED
    BY <1>1, <1>2, <1>3 DEF Init, TypeOK

LEMMA NextType == Assumptions /\ TypeOK /\ [Next]_vars => TypeOK'
<1> SUFFICES ASSUME Assumptions, TypeOK, [Next]_vars PROVE TypeOK'
    OBVIOUS
<1> USE DEF TypeOK, Return, Goto
<1>0. tree \in Layouts
    OBVIOUS
<1>a. Victim \in Inodes /\ SizeOf[Victim] \in Nat /\ ChunkSize \in Nat
    BY <1>0, Resolving DEF Victim, Assumptions, SizeAssumption
<1>1. CASE DeletePath
    BY <1>0, <1>1, Shape DEF DeletePath, WalkEntries
<1>2. ASSUME NEW p \in todo, Visit(p) PROVE TypeOK'
    BY <1>2 DEF Visit
<1>3. CASE EndWalk
    BY <1>3 DEF EndWalk, RemoveAllAfterWalk, disk, cursor
<1>4. CASE BeginPass
    BY <1>4, <1>a DEF BeginPass
<1>5. CASE WriteChunk
  <2>1. written' \in Nat
      BY <1>5, <1>a DEF WriteChunk, ToWrite
  <2> QED
      BY <1>5, <2>1 DEF WriteChunk, disk
<1>6. CASE EndPass
  <2>1. pass' \in 0 .. (Passes - 1)
      BY <1>6 DEF EndPass, Assumptions, SizeAssumption
  <2>2. done' \subseteq Inodes
      BY <1>6, <1>a DEF EndPass
  <2>3. pc' \in {"truncate", "unlink"} /\ outcome' = outcome
      BY <1>6 DEF EndPass
  <2> QED
      BY <1>6, <2>1, <2>2, <2>3 DEF EndPass
<1>7. CASE RemoveFile
    BY <1>7 DEF RemoveFile, cursor
<1>8. ASSUME NEW p \in present, RemoveEntry(p) PROVE TypeOK'
    BY <1>8 DEF RemoveEntry, cursor
<1>9. CASE Interrupt
    BY <1>9 DEF Interrupt, disk, cursor
<1>10. ASSUME NEW p \in tree.late, Arrive(p) PROVE TypeOK'
    BY <1>10, <1>0, Shape DEF Arrive
<1>11. CASE UNCHANGED vars
    BY <1>11 DEF vars, disk, cursor
<1> QED
    BY <1>1, <1>2, <1>3, <1>4, <1>5, <1>6, <1>7, <1>8, <1>9, <1>10, <1>11 DEF Next, Step
-----------------------------------------------------------------------------
(***************************************************************************)
(* The inductive invariant.                                                *)
(***************************************************************************)

\* The walk stays in the tree.
LEMMA ScopeKept == Assumptions /\ IInv /\ [Next]_vars => Scope'
<1> SUFFICES ASSUME Assumptions, IInv, [Next]_vars PROVE Scope'
    OBVIOUS
<1> USE DEF Scope, Ours, Overwriting, Return, Goto
<1>a. tree \in Layouts /\ todo \subseteq Paths /\ present \subseteq Paths /\ cur \in Paths
    BY DEF IInv, TypeOK
<1>b. Scope /\ Phases /\ Attached
    BY DEF IInv
<1>c. UNCHANGED <<tree, cur>> =>
        /\ tree'.kind[Resolve(cur)'] = tree.kind[Resolve(cur)]
        /\ Victim' = Victim
    BY DEF Resolve, Victim
<1>1. CASE DeletePath
  <2>1. todo' \subseteq Ours' /\ pc' \in {"truncate", "end", "walk", "remove all"}
      BY <1>1, <1>b DEF DeletePath, WalkEntries
  <2>2. CASE pc' = "truncate"
    <3>1. IsFile(Root) /\ secure /\ cur = Root /\ UNCHANGED <<tree, cur, secure, arrived>>
        BY <1>1, <2>2, <1>b DEF DeletePath, Phases
    <3>2. tree.kind[Resolve(cur)] = "file" /\ Root \in tree.inside
        BY <3>1, <1>a, <1>b, <1>1, Apart DEF DeletePath, IsFile, Reached, Phases
    <3> QED
        BY <2>1, <2>2, <3>1, <3>2, <1>c
  <2>3. CASE pc' \in {"walk", "remove all"}
    <3>1. IsDir(Root) /\ (pc' = "walk" => secure) /\ UNCHANGED <<tree, secure>>
        BY <1>1, <2>3 DEF DeletePath
    <3>2. tree.kind[Root] = "dir"
        BY <3>1, <1>a, Apart, Shape, Resolving DEF IsDir
    <3> QED
        BY <2>1, <2>3, <3>1, <3>2
  <2> QED
      BY <2>1, <2>2, <2>3
<1>2. ASSUME NEW p \in todo, Visit(p) PROVE Scope'
  <2>1. todo' \subseteq Ours' /\ UNCHANGED <<tree, secure, done, arrived>> /\ pc = "walk"
      BY <1>2, <1>b DEF Visit
  <2>2. CASE pc' = "truncate"
    <3>1. cur' = p /\ tree.kind[Resolve(p)] = "file" /\ p \in Ours
        BY <1>2, <2>2, <1>b DEF Visit, IsFile
    <3>2. Resolve(cur)' = Resolve(p)
        BY <2>1, <3>1 DEF Resolve
    <3> QED
        BY <1>b, <2>1, <2>2, <3>1, <3>2
  <2>3. CASE pc' \in {"walk", "end"}
      BY <1>b, <2>1, <2>3
  <2> QED
      BY <1>2, <2>2, <2>3 DEF Visit
<1>3. CASE EndWalk
    BY <1>3, <1>a, <1>b, <1>c DEF EndWalk, RemoveAllAfterWalk, disk, cursor
<1>4. CASE BeginPass
    BY <1>4, <1>a, <1>b, <1>c DEF BeginPass
<1>5. CASE WriteChunk
    BY <1>5, <1>a, <1>b, <1>c DEF WriteChunk, disk
<1>6. CASE EndPass
    BY <1>6, <1>a, <1>b, <1>c DEF EndPass
<1>7. CASE RemoveFile
    BY <1>7, <1>a, <1>b, <1>c DEF RemoveFile, Unlinked, cursor
<1>8. ASSUME NEW p \in present, RemoveEntry(p) PROVE Scope'
    BY <1>8, <1>a, <1>b, <1>c DEF RemoveEntry, cursor
<1>9. CASE Interrupt
    BY <1>9, <1>a, <1>b, <1>c DEF Interrupt, disk, cursor
<1>10. ASSUME NEW p \in tree.late, Arrive(p) PROVE Scope'
    BY <1>10, <1>a, <1>b, <1>c DEF Arrive
<1>11. CASE UNCHANGED vars
    BY <1>11, <1>a, <1>b, <1>c DEF vars, disk, cursor
<1> QED
    BY <1>1, <1>2, <1>3, <1>4, <1>5, <1>6, <1>7, <1>8, <1>9, <1>10, <1>11 DEF Next, Step

\* The beginning and the end of a deletion.
LEMMA PhasesKept == Assumptions /\ IInv /\ [Next]_vars => Phases'
<1> SUFFICES ASSUME Assumptions, IInv, [Next]_vars PROVE Phases'
    OBVIOUS
<1> USE DEF Phases, Return, Goto
<1>b. Phases
    BY DEF IInv
<1>1. CASE DeletePath
    BY <1>1, <1>b DEF DeletePath, WalkEntries
<1>2. ASSUME NEW p \in todo, Visit(p) PROVE Phases'
    BY <1>2, <1>b DEF Visit
<1>3. CASE EndWalk
    BY <1>3, <1>b DEF EndWalk, RemoveAllAfterWalk, disk, cursor
<1>4. CASE BeginPass
    BY <1>4, <1>b DEF BeginPass
<1>5. CASE WriteChunk
    BY <1>5, <1>b DEF WriteChunk, disk
<1>6. CASE EndPass
    BY <1>6, <1>b DEF EndPass
<1>7. CASE RemoveFile
    BY <1>7, <1>b DEF RemoveFile, Unlinked, cursor
<1>8. ASSUME NEW p \in present, RemoveEntry(p) PROVE Phases'
    BY <1>8, <1>b DEF RemoveEntry, cursor
<1>9. CASE Interrupt
    BY <1>9, <1>b DEF Interrupt, disk, cursor
<1>10. ASSUME NEW p \in tree.late, Arrive(p) PROVE Phases'
    BY <1>10, <1>b DEF Arrive
<1>11. CASE UNCHANGED vars
    BY <1>11, <1>b DEF vars, disk, cursor
<1> QED
    BY <1>1, <1>2, <1>3, <1>4, <1>5, <1>6, <1>7, <1>8, <1>9, <1>10, <1>11 DEF Next, Step

\* What loses its name has nothing below it.
LEMMA AttachedKept == Assumptions /\ IInv /\ [Next]_vars => Attached'
<1> SUFFICES ASSUME Assumptions, IInv, [Next]_vars PROVE Attached'
    OBVIOUS
<1> USE DEF Attached, Ours, Return, Goto
<1>a. tree \in Layouts /\ todo \subseteq Paths /\ present \subseteq Paths /\ cur \in Paths
    BY DEF IInv, TypeOK
<1>b. Scope /\ Phases /\ Attached
    BY DEF IInv
<1>c. tree.inside \cup tree.late \subseteq Paths /\ arrived \subseteq tree.late
    BY <1>a, Shape DEF IInv, TypeOK
<1>1. CASE DeletePath
  <2>1. UNCHANGED <<tree, arrived>> /\ present' \in {present, present \ {Root}}
      BY <1>1 DEF DeletePath
  <2>2. CASE present' = present
      BY <1>b, <2>1, <2>2
  <2>3. CASE present' = present \ {Root} /\ present' # present
    <3>1. IsFile(Root) /\ present = tree.inside \cup tree.outside /\ arrived = {}
        BY <1>1, <2>3, <1>b DEF DeletePath, Phases
    <3>2. tree.kind[Root] # "dir"
        BY <3>1, <1>a, Shape, Resolving DEF IsFile
    <3>3. tree.inside \subseteq {Root}
        BY <3>2, <1>a, LoneRoot
    <3> QED
        BY <1>b, <2>1, <2>3, <3>1, <3>3
  <2> QED
      BY <2>1, <2>2, <2>3
<1>2. ASSUME NEW p \in todo, Visit(p) PROVE Attached'
  <2>1. UNCHANGED <<tree, arrived>>
      BY <1>2 DEF Visit
  <2>2. CASE present' = present
      BY <1>b, <2>1, <2>2
  <2>3. CASE present' = present \ {p} /\ Children(p) = {}
      BY <1>b, <2>1, <2>3 DEF Children
  <2> QED
      BY <1>2, <2>2, <2>3 DEF Visit, Removable
<1>3. CASE EndWalk
    BY <1>3, <1>b DEF EndWalk, RemoveAllAfterWalk, disk, cursor
<1>4. CASE BeginPass
    BY <1>4, <1>b DEF BeginPass
<1>5. CASE WriteChunk
    BY <1>5, <1>b DEF WriteChunk, disk
<1>6. CASE EndPass
    BY <1>6, <1>b DEF EndPass
<1>7. CASE RemoveFile
  <2>1. UNCHANGED <<tree, arrived>> /\ present' = present \ {cur}
      BY <1>7 DEF RemoveFile, Unlinked
  <2>2. tree.kind[cur] # "dir"
      BY <1>7, <1>a, <1>b, Resolving DEF RemoveFile, Scope, Overwriting
  <2>3. \A q \in present \cap Ours : q = Root \/ tree.parent[q] # cur
      BY <1>a, <1>c, <2>2, Parents
  <2> QED
      BY <1>b, <2>1, <2>3
<1>8. ASSUME NEW p \in present, RemoveEntry(p) PROVE Attached'
  <2>1. UNCHANGED <<tree, arrived>> /\ present' = present \ {p} /\ Children(p) = {}
      BY <1>8 DEF RemoveEntry
  <2> QED
      BY <1>b, <2>1 DEF Children
<1>9. CASE Interrupt
    BY <1>9, <1>b DEF Interrupt, disk, cursor
<1>10. ASSUME NEW p \in tree.late, Arrive(p) PROVE Attached'
  <2>1. /\ UNCHANGED tree
        /\ present' = present \cup {p} /\ arrived' = arrived \cup {p}
        /\ tree.parent[p] \in present /\ p \notin arrived
        /\ p \in tree.late
      BY <1>10 DEF Arrive
  <2>2. \A q \in present : q \in Ours' => q \in Ours
      BY <1>a, <1>b, <2>1, Apart
  <2> QED
      BY <1>b, <2>1, <2>2
<1>11. CASE UNCHANGED vars
    BY <1>11, <1>b DEF vars, disk, cursor
<1> QED
    BY <1>1, <1>2, <1>3, <1>4, <1>5, <1>6, <1>7, <1>8, <1>9, <1>10, <1>11 DEF Next, Step

\* The walk leaves nothing behind but links and special files, and what it has
\* not come to.
LEMMA WalkedKept == Assumptions /\ IInv /\ [Next]_vars => Walked'
<1> SUFFICES ASSUME Assumptions, IInv, [Next]_vars PROVE Walked'
    OBVIOUS
<1> USE DEF Walked, Passed, Overwriting, Return, Goto
<1>a. tree \in Layouts /\ todo \subseteq Paths /\ present \subseteq Paths /\ cur \in Paths
    BY DEF IInv, TypeOK
<1>b. Scope /\ Phases /\ Attached
    BY DEF IInv
<1>c. tree.inside \cup tree.late \subseteq Paths /\ arrived \subseteq tree.late
    BY <1>a, Shape DEF IInv, TypeOK
<1>w. Walked
    BY DEF IInv
<1>k. tree.outside \subseteq present
    BY DEF IInv, OutsideKept
<1>l. UNCHANGED tree => \A p : LeftBehind(p)' = LeftBehind(p)
    BY DEF LeftBehind, LeadsTo
<1>1. CASE DeletePath
  <2>1. UNCHANGED <<tree, secure>>
      BY <1>1 DEF DeletePath
  <2>2. CASE pc' = "walk"
      BY <1>1, <1>l, <2>1, <2>2 DEF DeletePath, WalkEntries
  <2>3. CASE pc' = "truncate"
    <3>1. tree.kind[Root] # "dir"
        BY <1>1, <2>3, <1>a, Shape, Resolving DEF DeletePath, IsFile
    <3> QED
        BY <2>1, <2>3, <3>1
  <2>4. CASE pc' = "remove all"
    <3>1. ~secure
        BY <1>1, <2>4 DEF DeletePath
    <3> QED
        BY <2>1, <2>4, <3>1
  <2>5. CASE pc' = "end"
      BY <2>5
  <2> QED
      BY <1>1, <2>2, <2>3, <2>4, <2>5 DEF DeletePath
<1>2. ASSUME NEW p \in todo, Visit(p) PROVE Walked'
  <2>1. /\ UNCHANGED <<tree, secure, arrived>> /\ todo' = todo \ {p}
        /\ pc = "walk" /\ tree.kind[Root] = "dir" /\ p \in Paths
      BY <1>2, <1>a, <1>b DEF Visit, Scope
  <2>2. \A q \in (tree.inside \cap present) \ {Root} : q \in todo \/ LeftBehind(q)
      BY <1>w, <1>l, <2>1
  <2>3. CASE IsFile(p)
    <3>1. cur' = p /\ pc' = "truncate" /\ present' = present
        BY <1>2, <2>3, Resolving, <1>a, <2>1 DEF Visit, IsFile, IsDir, Reached
    <3> QED
        BY <1>l, <2>1, <2>2, <3>1
  <2>4. CASE IsDir(p) /\ p # Root /\ Removable(p)
    <3>1. present' = present \ {p} /\ pc' = "walk"
        BY <1>2, <2>4, <1>a, <2>1 DEF Visit, IsFile, IsDir
    <3> QED
        BY <1>l, <2>1, <2>2, <3>1
  <2>5. CASE pc' = "end"
      BY <2>5
  <2>6. CASE ~IsFile(p) /\ (IsDir(p) => p = Root)
    <3>1. present' = present /\ pc' = "walk"
        BY <1>2, <2>6 DEF Visit
    <3>2. p \in present /\ p # Root /\ p \in tree.inside => LeftBehind(p)
      <4>1. SUFFICES ASSUME p \in present, p # Root PROVE LeftBehind(p)
          OBVIOUS
      <4>2. tree.kind[p] \notin {"file", "dir"}
          BY <2>6, <2>1, <1>a, <4>1, Resolving DEF IsFile, IsDir, Reached
      <4>3. tree.kind[p] \in {"link", "special"}
          BY <4>2, <2>1, <1>a, Shape
      <4>4. ~LeadsTo(p, "file", tree.outside)
          BY <2>6, <2>1, <1>a, <4>1, <1>k, Resolving
          DEF IsFile, Reached, LeadsTo
      <4> QED
          BY <4>3, <4>4 DEF LeftBehind
    <3> QED
        BY <1>l, <2>1, <2>2, <3>1, <3>2
  <2> QED
      BY <1>2, <2>3, <2>4, <2>5, <2>6 DEF Visit
<1>3. CASE EndWalk
  <2>1. /\ UNCHANGED <<tree, secure, present, todo, cur>>
        /\ pc = "walk" /\ todo = {} /\ pc' = "remove all"
      BY <1>3 DEF EndWalk, RemoveAllAfterWalk, disk, cursor
  <2> QED
      BY <1>w, <1>l, <1>b, <2>1 DEF Scope
<1>4. CASE BeginPass
    BY <1>4, <1>a, <1>b, <1>w, <1>l DEF BeginPass
<1>5. CASE WriteChunk
    BY <1>5, <1>a, <1>b, <1>w, <1>l DEF WriteChunk, disk
<1>6. CASE EndPass
    BY <1>6, <1>a, <1>b, <1>w, <1>l DEF EndPass
<1>7. CASE RemoveFile
    BY <1>7, <1>a, <1>b, <1>w, <1>l DEF RemoveFile, Unlinked, cursor
<1>8. ASSUME NEW p \in present, RemoveEntry(p) PROVE Walked'
  <2>1. UNCHANGED <<tree, secure>> /\ present' = present \ {p}
      BY <1>8 DEF RemoveEntry
  <2>2. pc = "remove all" /\ pc' \in {"remove all", "end"}
      BY <1>8 DEF RemoveEntry
  <2> QED
      BY <1>w, <1>l, <2>1, <2>2
<1>9. CASE Interrupt
    BY <1>9, <1>a, <1>b, <1>w, <1>l DEF Interrupt, disk, cursor
<1>10. ASSUME NEW p \in tree.late, Arrive(p) PROVE Walked'
  <2>1. /\ UNCHANGED <<tree, secure, pc, cur>> /\ todo \subseteq todo'
        /\ present' = present \cup {p} /\ p \notin tree.inside
        /\ pc # "remove all"
      BY <1>10, <1>a, Apart DEF Arrive
  <2> QED
      BY <1>w, <1>l, <2>1
<1>11. CASE UNCHANGED vars
    BY <1>11, <1>a, <1>b, <1>w, <1>l DEF vars, disk, cursor
<1> QED
    BY <1>1, <1>2, <1>3, <1>4, <1>5, <1>6, <1>7, <1>8, <1>9, <1>10, <1>11 DEF Next, Step

\* A file loses its name after its last overwrite, or was never there.
LEMMA WipedKept == Assumptions /\ IInv /\ [Next]_vars => RemovedIsWiped'
<1> SUFFICES ASSUME Assumptions, IInv, [Next]_vars PROVE RemovedIsWiped'
    OBVIOUS
<1> USE DEF RemovedIsWiped, Return, Goto
<1>a. tree \in Layouts /\ todo \subseteq Paths /\ present \subseteq Paths /\ cur \in Paths
    BY DEF IInv, TypeOK
<1>b. Scope /\ Phases /\ Attached
    BY DEF IInv
<1>c. tree.inside \cup tree.late \subseteq Paths /\ arrived \subseteq tree.late
    BY <1>a, Shape DEF IInv, TypeOK
<1>w. Walked
    BY DEF IInv
<1>r. RemovedIsWiped
    BY DEF IInv
<1>1. CASE DeletePath
  <2>1. UNCHANGED <<tree, secure, done>>
      BY <1>1 DEF DeletePath
  <2>2. secure => present' = present
      BY <1>1 DEF DeletePath
  <2> QED
      BY <1>r, <2>1, <2>2
<1>2. ASSUME NEW p \in todo, Visit(p) PROVE RemovedIsWiped'
  <2>1. UNCHANGED <<tree, secure, done>>
      BY <1>2 DEF Visit
  <2>2. present' = present \/ (present' = present \ {p} /\ tree.kind[p] = "dir")
      BY <1>2 DEF Visit, Removable
  <2> QED
      BY <1>r, <2>1, <2>2
<1>3. CASE EndWalk
    BY <1>3, <1>a, <1>b, <1>w, <1>r DEF EndWalk, RemoveAllAfterWalk, disk, cursor
<1>4. CASE BeginPass
    BY <1>4, <1>a, <1>b, <1>w, <1>r DEF BeginPass
<1>5. CASE WriteChunk
    BY <1>5, <1>a, <1>b, <1>w, <1>r DEF WriteChunk, disk
<1>6. CASE EndPass
  <2>1. UNCHANGED <<tree, secure, present>> /\ done \subseteq done'
      BY <1>6 DEF EndPass
  <2> QED
      BY <1>r, <2>1
<1>7. CASE RemoveFile
  <2>1. UNCHANGED <<tree, secure, done>> /\ present' = present \ {cur}
      BY <1>7 DEF RemoveFile, Unlinked
  <2>2. tree.kind[cur] = "file" => tree.inode[cur] \in done
      BY <1>7, <1>a, <1>b, Resolving DEF RemoveFile, Scope, Victim
  <2> QED
      BY <1>r, <2>1, <2>2
<1>8. ASSUME NEW p \in present, RemoveEntry(p) PROVE RemovedIsWiped'
  <2>1. UNCHANGED <<tree, secure, done>> /\ present' = present \ {p} /\ pc = "remove all"
      BY <1>8 DEF RemoveEntry
  <2>2. tree.kind[Root] = "dir"
      BY <1>b, <2>1 DEF Scope
  <2>3. secure /\ p \in tree.inside => tree.kind[p] # "file"
      BY <1>w, <1>8, <2>1, <2>2 DEF Walked, LeftBehind
  <2> QED
      BY <1>r, <2>1, <2>3
<1>9. CASE Interrupt
    BY <1>9, <1>a, <1>b, <1>w, <1>r DEF Interrupt, disk, cursor
<1>10. ASSUME NEW p \in tree.late, Arrive(p) PROVE RemovedIsWiped'
  <2>1. UNCHANGED <<tree, secure, done>> /\ present \subseteq present'
      BY <1>10 DEF Arrive
  <2> QED
      BY <1>r, <2>1
<1>11. CASE UNCHANGED vars
    BY <1>11, <1>a, <1>b, <1>w, <1>r DEF vars, disk, cursor
<1> QED
    BY <1>1, <1>2, <1>3, <1>4, <1>5, <1>6, <1>7, <1>8, <1>9, <1>10, <1>11 DEF Next, Step

\* Success comes with the removal of Root, the last path of the tree.
LEMMA GoneKept == Assumptions /\ IInv /\ [Next]_vars => OkMeansGone'
<1> SUFFICES ASSUME Assumptions, IInv, [Next]_vars PROVE OkMeansGone'
    OBVIOUS
<1> USE DEF OkMeansGone, Return, Goto
<1>a. tree \in Layouts /\ todo \subseteq Paths /\ present \subseteq Paths /\ cur \in Paths
    BY DEF IInv, TypeOK
<1>b. Scope /\ Phases /\ Attached
    BY DEF IInv
<1>c. tree.inside \cup tree.late \subseteq Paths /\ arrived \subseteq tree.late
    BY <1>a, Shape DEF IInv, TypeOK
<1>g. OkMeansGone
    BY DEF IInv
<1>d. tree.kind[Root] # "dir" => (tree.inside \cup tree.late) \subseteq {Root}
    BY <1>a, LoneRoot
<1>e. outcome = "ok" => pc = "end"
    BY <1>b DEF Phases
<1>1. CASE DeletePath
  <2>1. UNCHANGED <<tree, arrived>> /\ arrived = {}
        /\ present = tree.inside \cup tree.outside
      BY <1>1, <1>b DEF DeletePath, Phases
  <2>2. CASE IsFile(Root) /\ ~secure
    <3>1. tree.kind[Root] # "dir"
        BY <2>2, <1>a, Shape, Resolving DEF IsFile
    <3>2. present' = present \ {Root}
        BY <1>1, <2>2, <1>a, Shape, Resolving DEF DeletePath, IsFile, IsDir, Reached
    <3> QED
        BY <1>d, <2>1, <3>1, <3>2
  <2>3. CASE ~IsFile(Root) /\ ~IsDir(Root)
    <3>1. Resolve(Root) \in {Root} \cup tree.outside
      <4>1. Assumptions /\ tree \in Layouts
          BY <1>a
      <4>2. tree.kind[Root] = "link" => tree.target[Root] \in tree.outside
          BY <4>1, Apart
      <4> QED
          BY <4>2 DEF Resolve
    <3>2. SUFFICES ASSUME tree.kind[Resolve(Root)] # "special"
                   PROVE  tree.inside = {} /\ present' = present
      <4>1. Resolve(Root)' = Resolve(Root)
          BY <2>1 DEF Resolve
      <4> QED
          BY <2>1, <4>1
    <3>3. tree.kind[Resolve(Root)] \in {"file", "dir"}
        BY <1>a, <3>2, Shape, Apart, Resolving
    <3>4. Root \notin tree.inside
        BY <2>1, <2>3, <3>1, <3>3 DEF Reached, IsFile, IsDir
    <3> QED
        BY <1>1, <2>3, <3>4, <1>a, Apart DEF DeletePath
  <2>4. CASE outcome' = outcome
      BY <1>1, <2>4, <1>e DEF DeletePath
  <2> QED
      BY <1>1, <2>2, <2>3, <2>4 DEF DeletePath
<1>2. ASSUME NEW p \in todo, Visit(p) PROVE OkMeansGone'
  <2>1. outcome' # "ok"
      BY <1>2, <1>e DEF Visit
  <2> QED
      BY <2>1
<1>3. CASE EndWalk
    BY <1>3, <1>e DEF EndWalk, RemoveAllAfterWalk, disk
<1>4. CASE BeginPass
    BY <1>4, <1>e DEF BeginPass
<1>5. CASE WriteChunk
    BY <1>5, <1>e DEF WriteChunk
<1>6. CASE EndPass
  <2>1. outcome' # "ok"
      BY <1>6, <1>e DEF EndPass
  <2> QED
      BY <2>1
<1>7. CASE RemoveFile
  <2>1. UNCHANGED <<tree, arrived>> /\ present' = present \ {cur} /\ pc = "unlink"
      BY <1>7 DEF RemoveFile, Unlinked
  <2>2. CASE cur = Root
    <3>1. tree.kind[Root] # "dir"
        BY <1>a, <1>b, <2>1, <2>2, Shape, Resolving DEF Scope, Overwriting
    <3> QED
        BY <1>c, <1>d, <2>1, <2>2, <3>1 DEF IInv, TypeOK
  <2>3. CASE cur # Root
      BY <1>7, <1>e, <2>3 DEF RemoveFile
  <2> QED
      BY <2>2, <2>3
<1>8. ASSUME NEW p \in present, RemoveEntry(p) PROVE OkMeansGone'
  <2>1. UNCHANGED <<tree, arrived>> /\ present' = present \ {p} /\ Children(p) = {}
        /\ pc = "remove all"
      BY <1>8 DEF RemoveEntry
  <2>2. CASE p = Root
    <3> DEFINE S == (present \cap Ours) \ {Root}
    <3>1. S \in SUBSET ((tree.inside \cup tree.late) \ {Root})
        BY <1>c DEF Ours
    <3>2. \A q \in S : tree.parent[q] \in S
      <4>1. \A q \in S : tree.parent[q] \in present /\ tree.parent[q] \in tree.inside
          BY <1>a, <1>b, <3>1, Parents DEF Attached
      <4>2. \A q \in S : tree.parent[q] # Root
          BY <2>1, <2>2 DEF Children
      <4> QED
          BY <4>1, <4>2 DEF Ours
    <3>3. S = {}
        BY <1>a, <3>1, <3>2, Hangs
    <3> QED
        BY <2>1, <2>2, <3>3 DEF Ours
  <2>3. CASE p # Root
      BY <1>8, <1>e, <2>1, <2>3 DEF RemoveEntry
  <2> QED
      BY <2>2, <2>3
<1>9. CASE Interrupt
    BY <1>9, <1>b, <1>g DEF Interrupt, disk, cursor
<1>10. ASSUME NEW p \in tree.late, Arrive(p) PROVE OkMeansGone'
  <2>1. outcome' # "ok"
      BY <1>10, <1>e DEF Arrive
  <2> QED
      BY <2>1
<1>11. CASE UNCHANGED vars
  <2>1. UNCHANGED <<tree, present, arrived, outcome>>
      BY <1>11 DEF vars, disk
  <2>2. Resolve(Root)' = Resolve(Root)
      BY <2>1 DEF Resolve
  <2> QED
      BY <1>g, <2>1, <2>2
<1> QED
    BY <1>1, <1>2, <1>3, <1>4, <1>5, <1>6, <1>7, <1>8, <1>9, <1>10, <1>11 DEF Next, Step

\* What the walk reaches is of the tree, or a link of the tree leads to it.
LEMMA OutsideStays == Assumptions /\ IInv /\ [Next]_vars => OutsideKept'
<1> SUFFICES ASSUME Assumptions, IInv, [Next]_vars PROVE OutsideKept'
    OBVIOUS
<1> USE DEF OutsideKept, LinkedInto, Return, Goto
<1>a. tree \in Layouts /\ todo \subseteq Paths /\ present \subseteq Paths /\ cur \in Paths
    BY DEF IInv, TypeOK
<1>b. Scope /\ Phases /\ Attached
    BY DEF IInv
<1>c. tree.inside \cup tree.late \subseteq Paths /\ arrived \subseteq tree.late
    BY <1>a, Shape DEF IInv, TypeOK
<1>k. OutsideKept
    BY DEF IInv
<1>l. UNCHANGED tree => \A i : LinkedInto(i)' = LinkedInto(i)
    BY DEF LinkedInto, Resolve
<1>d. tree.outside \cap Ours = {} /\ Root \notin tree.outside
    BY <1>a, <1>c, Apart DEF Ours
<1> HIDE DEF LinkedInto
<1>1. CASE DeletePath
  <2>1. UNCHANGED <<tree, spoiled>> /\ present' \in {present, present \ {Root}}
      BY <1>1 DEF DeletePath
  <2> QED
      BY <1>k, <1>l, <1>d, <2>1
<1>2. ASSUME NEW p \in todo, Visit(p) PROVE OutsideKept'
  <2>1. UNCHANGED <<tree, spoiled>> /\ present' \in {present, present \ {p}}
      BY <1>2 DEF Visit
  <2>2. p \in Ours
      BY <1>b DEF Scope
  <2> QED
      BY <1>k, <1>l, <1>d, <2>1, <2>2
<1>3. CASE EndWalk
    BY <1>3, <1>k, <1>l DEF EndWalk, disk, cursor
<1>4. CASE BeginPass
  <2>1. UNCHANGED <<tree, present>> /\ spoiled' \subseteq spoiled \cup {Victim}
      BY <1>4 DEF BeginPass
  <2>2. cur \in tree.inside \cup tree.late
      BY <1>4, <1>b, <1>c DEF BeginPass, Scope, Overwriting, Ours
  <2>3. LinkedInto(Victim)
      BY <2>2 DEF LinkedInto, Victim
  <2> QED
      BY <1>k, <1>l, <2>1, <2>3
<1>5. CASE WriteChunk
    BY <1>5, <1>k, <1>l DEF WriteChunk, disk
<1>6. CASE EndPass
    BY <1>6, <1>k, <1>l DEF EndPass
<1>7. CASE RemoveFile
  <2>1. UNCHANGED <<tree, spoiled>> /\ present' = present \ {cur}
      BY <1>7 DEF RemoveFile, Unlinked
  <2>2. cur \in Ours
      BY <1>7, <1>b DEF RemoveFile, Scope, Overwriting
  <2> QED
      BY <1>k, <1>l, <1>d, <2>1, <2>2
<1>8. ASSUME NEW p \in present, RemoveEntry(p) PROVE OutsideKept'
  <2>1. UNCHANGED <<tree, spoiled>> /\ present' = present \ {p} /\ p \in Ours
      BY <1>8 DEF RemoveEntry, InTree, Ours
  <2> QED
      BY <1>k, <1>l, <1>d, <2>1
<1>9. CASE Interrupt
    BY <1>9, <1>k, <1>l DEF Interrupt, disk, cursor
<1>10. ASSUME NEW p \in tree.late, Arrive(p) PROVE OutsideKept'
    BY <1>10, <1>k, <1>l DEF Arrive
<1>11. CASE UNCHANGED vars
    BY <1>11, <1>k, <1>l DEF vars, disk, cursor
<1> QED
    BY <1>1, <1>2, <1>3, <1>4, <1>5, <1>6, <1>7, <1>8, <1>9, <1>10, <1>11 DEF Next, Step

\* An entry that is in the way in every order holds the walk up.
LEMMA StuckKept == Assumptions /\ IInv /\ [Next]_vars => Stuck'
<1> SUFFICES ASSUME Assumptions, IInv, [Next]_vars, secure', arrived' = {} PROVE Stuck'
    BY DEF Stuck
<1> USE DEF Overwriting, Return, Goto
<1>a. tree \in Layouts /\ todo \subseteq Paths /\ present \subseteq Paths /\ cur \in Paths
    BY DEF IInv, TypeOK
<1>b. Scope /\ Phases /\ Attached
    BY DEF IInv
<1>k. tree.outside \subseteq present
    BY DEF IInv, OutsideKept
<1>u. UNCHANGED tree /\ secure
  <2>1. UNCHANGED <<tree, secure>>
      BY DEF Next, Step, DeletePath, Visit, EndWalk, BeginPass, WriteChunk, EndPass,
         RemoveFile, RemoveEntry, Interrupt, Arrive, vars
  <2> QED
      BY <2>1
<1>v. arrived = {}
  <2>1. arrived \subseteq arrived'
      BY DEF Next, Step, DeletePath, Visit, EndWalk, BeginPass, WriteChunk, EndPass,
         RemoveFile, RemoveEntry, Interrupt, Arrive, vars, disk
  <2> QED
      BY <2>1
<1>s. /\ pc = "walk" \/ Overwriting =>
           \A p \in tree.inside : MustStop(p) => StillThere(p)
      /\ pc = "remove all" \/ outcome = "ok" =>
           \A p \in tree.inside : ~MustStop(p)
    BY <1>u, <1>v DEF IInv, Stuck
<1>l. \A p : MustStop(p)' = MustStop(p) /\ Stop(p)' = Stop(p)
    BY <1>u DEF MustStop, InTheWay, LeadsTo, Stop
<1>m. \A p : MustStop(p) => p # Root /\ tree.kind[p] \in {"link", "special"}
    BY DEF MustStop, InTheWay, LeadsTo
<1>e. outcome # "none" => pc = "end"
    BY <1>b DEF Phases
<1>d. tree.kind[Root] # "dir" => \A p \in tree.inside : ~MustStop(p)
    BY <1>a, <1>m, LoneRoot
<1> HIDE DEF MustStop, Stop
<1>q. ASSUME UNCHANGED <<present, todo, cur>>, Overwriting \/ ~Overwriting',
             (pc = "walk" \/ Overwriting) \/ ~(pc' = "walk" \/ Overwriting'),
             pc' # "remove all", outcome' = "ok" => outcome = "ok"
      PROVE  Stuck'
    BY <1>q, <1>s, <1>l, <1>u DEF Stuck, StillThere
<1>1. CASE DeletePath
  <2>1. present = tree.inside \cup tree.outside /\ cur = Root /\ UNCHANGED cur
      BY <1>1, <1>b DEF DeletePath, Phases
  <2>2. CASE pc' = "walk"
    <3>1. todo' = tree.inside /\ present' = present /\ outcome' # "ok"
        BY <1>1, <1>e, <2>2 DEF DeletePath, WalkEntries
    <3>2. \A p \in tree.inside : MustStop(p) => Stop(p) \in tree.inside
        BY <1>a, <1>m, Parents DEF Stop
    <3> QED
        BY <1>l, <1>u, <2>1, <2>2, <3>1, <3>2 DEF Stuck, StillThere
  <2>3. CASE pc' # "walk"
    <3>1. ~IsDir(Root)
        BY <1>1, <1>u, <2>3 DEF DeletePath, IsFile, IsDir
    <3>2. tree.kind[Root] = "dir" => tree.inside = {}
        BY <1>a, <2>1, <3>1, Apart, Resolving DEF IsDir, Reached
    <3>3. \A p \in tree.inside : ~MustStop(p)
        BY <1>d, <3>2
    <3> QED
        BY <1>l, <1>u, <3>3 DEF Stuck
  <2> QED
      BY <2>2, <2>3
<1>2. ASSUME NEW p \in todo, Visit(p) PROVE Stuck'
  <2>1. /\ pc = "walk" /\ ContentsFirst(p) /\ todo' = todo \ {p} /\ p \in tree.inside
        /\ p \in Paths /\ tree.kind[Root] = "dir" /\ outcome' # "ok" /\ pc' # "remove all"
      BY <1>2, <1>a, <1>b, <1>e, <1>v DEF Visit, Scope, Ours
  <2>2. CASE pc' = "end"
      BY <2>1, <2>2 DEF Stuck
  <2>3. CASE pc' # "end"
    <3>1. SUFFICES ASSUME NEW q \in tree.inside, MustStop(q) PROVE StillThere(q)'
        BY <1>l, <1>u, <2>1 DEF Stuck
    <3>2. q \in present /\ Stop(q) \in todo /\ q # Root /\ q \in Paths
          /\ tree.kind[q] \in {"link", "special"}
        BY <1>a, <1>m, <1>s, <2>1, <3>1, Shape DEF StillThere
    <3>3. present' = present \/ (present' = present \ {p} /\ tree.kind[p] = "dir")
        BY <1>2 DEF Visit, Removable
    <3>4. Stop(q) # p
      <4>1. SUFFICES ASSUME Stop(q) = p PROVE IsDir(p) /\ p # Root /\ ~Removable(p)
          BY <1>2, <2>3 DEF Visit, IsFile, IsDir
      <4>2. CASE tree.parent[q] = Root
        <5>1. p = q /\ LeadsTo(q, "dir", tree.outside \cup {Root})
            BY <3>1, <4>1, <4>2 DEF Stop, MustStop, InTheWay
        <5>2. Root \in present
            BY <1>b, <2>1, <3>2, <4>2 DEF Attached, Ours
        <5>3. IsDir(p)
            BY <1>a, <1>k, <3>2, <5>1, <5>2, Resolving DEF LeadsTo, IsDir, Reached
        <5> QED
            BY <3>2, <5>1, <5>3 DEF Removable
      <4>3. CASE tree.parent[q] # Root
        <5>1. p = tree.parent[q] /\ tree.kind[p] = "dir" /\ p # Root
            BY <1>a, <3>2, <4>1, <4>3, Parents DEF Stop
        <5>2. p \in present
            BY <1>b, <3>2, <5>1 DEF Attached, Ours
        <5>3. IsDir(p)
            BY <1>a, <2>1, <5>1, <5>2, Resolving DEF IsDir, Reached
        <5> QED
            BY <3>2, <5>1, <5>3 DEF Removable, Children
      <4> QED
          BY <4>2, <4>3
    <3>5. pc' \in {"truncate", "overwrite", "unlink"} => q # cur'
      <4>1. SUFFICES ASSUME q = cur', pc' = "truncate" PROVE FALSE
          BY <1>2, <2>1 DEF Visit
      <4>2. q = p /\ IsFile(p)
          BY <1>2, <2>1, <4>1 DEF Visit
      <4>3. tree.kind[q] = "link" /\ tree.kind[tree.target[q]] = "file"
          BY <1>a, <3>2, <4>2, Resolving DEF IsFile
      <4>4. tree.target[q] \in tree.inside \cup tree.outside
          BY <1>a, <1>b, <1>v, <3>2, <4>2, <4>3, Resolving DEF IsFile, Reached, Attached, Ours
      <4> QED
          BY <3>1, <4>3, <4>4 DEF MustStop, InTheWay, LeadsTo
    <3> QED
        BY <1>l, <2>1, <3>2, <3>3, <3>4, <3>5 DEF StillThere
  <2> QED
      BY <2>2, <2>3
<1>3. CASE EndWalk
  <2>1. pc = "walk" /\ todo = {} /\ pc' = "remove all" /\ outcome' = outcome
      BY <1>3 DEF EndWalk, RemoveAllAfterWalk
  <2>2. \A p \in tree.inside : ~MustStop(p)
      BY <1>s, <2>1 DEF StillThere
  <2> QED
      BY <1>l, <1>u, <2>1, <2>2 DEF Stuck
<1>4. CASE BeginPass
    BY <1>4, <1>q DEF BeginPass
<1>5. CASE WriteChunk
    BY <1>5, <1>q DEF WriteChunk, disk
<1>6. CASE EndPass
    BY <1>6, <1>q DEF EndPass
<1>7. CASE RemoveFile
  <2>1. /\ pc = "unlink" /\ present' = present \ {cur} /\ UNCHANGED <<todo, cur>>
        /\ tree.kind[Resolve(cur)] = "file"
      BY <1>7, <1>b DEF RemoveFile, Unlinked, cursor, Scope
  <2>2. CASE cur = Root
    <3>1. tree.kind[Root] # "dir"
        BY <1>a, <2>1, <2>2, Shape, Resolving
    <3> QED
        BY <1>d, <1>l, <1>u, <3>1 DEF Stuck
  <2>3. CASE cur # Root
    <3>1. pc' = "walk" /\ outcome' = outcome /\ outcome # "ok"
        BY <1>7, <1>e, <2>1, <2>3 DEF RemoveFile
    <3> QED
        BY <1>l, <1>s, <1>u, <2>1, <3>1 DEF Stuck, StillThere
  <2> QED
      BY <2>2, <2>3
<1>8. ASSUME NEW p \in present, RemoveEntry(p) PROVE Stuck'
  <2>1. pc = "remove all" /\ pc' \in {"remove all", "end"}
      BY <1>8 DEF RemoveEntry
  <2> QED
      BY <1>l, <1>s, <1>u, <2>1 DEF Stuck
<1>9. CASE Interrupt
    BY <1>9, <1>q DEF Interrupt, disk, cursor
<1>10. ASSUME NEW p \in tree.late, Arrive(p) PROVE Stuck'
    BY <1>10 DEF Arrive
<1>11. CASE UNCHANGED vars
  <2>1. UNCHANGED <<present, todo, cur, pc, outcome>>
      BY <1>11 DEF vars, disk, cursor
  <2> QED
      BY <1>s, <1>l, <1>u, <2>1 DEF Stuck, StillThere
<1> QED
    BY <1>1, <1>2, <1>3, <1>4, <1>5, <1>6, <1>7, <1>8, <1>9, <1>10, <1>11 DEF Next, Step

\* remove_dir fails on a link to a directory, or on a directory that keeps a link
\* or a special file.
FailureHasCause ==
    ~faulty /\ arrived = {} /\ outcome = "failed" =>
        secure /\ \E p \in tree.inside : MayStop(p)

LEMMA CauseKept == Assumptions /\ IInv /\ [Next]_vars => FailureHasCause'
<1> SUFFICES ASSUME Assumptions, IInv, [Next]_vars PROVE FailureHasCause'
    OBVIOUS
<1> USE DEF FailureHasCause, Return, Goto
<1>a. tree \in Layouts /\ todo \subseteq Paths /\ present \subseteq Paths /\ cur \in Paths
    BY DEF IInv, TypeOK
<1>b. Scope /\ Phases /\ Attached
    BY DEF IInv
<1>c. tree.inside \cup tree.late \subseteq Paths /\ arrived \subseteq tree.late
    BY <1>a, Shape DEF IInv, TypeOK
<1>f. FailureHasCause
    BY DEF IInv, FailsForAReason
<1>w. Walked
    BY DEF IInv
<1>l. UNCHANGED tree => \A p : MayStop(p)' = MayStop(p)
    BY DEF MayStop, InTheWay, LeadsTo
<1>e. outcome # "none" => pc = "end"
    BY <1>b DEF Phases
<1>1. CASE DeletePath
  <2>1. outcome' # "failed"
      BY <1>1, <1>e DEF DeletePath
  <2> QED
      BY <2>1
<1>2. ASSUME NEW p \in todo, Visit(p) PROVE FailureHasCause'
  <2>1. UNCHANGED <<tree, secure, arrived, faulty>> /\ pc = "walk" /\ ContentsFirst(p)
      BY <1>2 DEF Visit
  <2>2. CASE IsDir(p) /\ p # Root /\ ~Removable(p) /\ arrived = {}
    <3>1. secure /\ tree.kind[Root] = "dir" /\ p \in tree.inside
        BY <1>b, <2>1, <2>2 DEF Scope, Ours
    <3>2. CASE tree.kind[p] # "dir"
      <4>1. tree.kind[p] = "link" /\ tree.kind[tree.target[p]] = "dir"
          BY <1>a, <2>2, <3>2, Resolving DEF IsDir
      <4>2. MayStop(p)
        <5>1. tree.target[p] \in tree.inside \cup tree.outside
            BY <1>a, <1>b, <2>2, <4>1, Resolving DEF IsDir, Reached, Attached, Ours
        <5> QED
            BY <2>2, <4>1, <5>1 DEF MayStop, InTheWay, LeadsTo
      <4> QED
          BY <1>l, <2>1, <3>1, <4>2
    <3>3. CASE tree.kind[p] = "dir"
      <4>1. PICK q \in present \ {Root} : tree.parent[q] = p
          BY <2>2, <3>3 DEF Removable, Children
      <4>2. q \in tree.inside
          BY <1>a, <1>b, <2>2, <3>1, <4>1, Parents DEF Attached, Ours
      <4>3. q \notin todo
          BY <2>1, <4>1 DEF ContentsFirst
      <4>4. LeftBehind(q)
          BY <1>w, <2>1, <3>1, <4>1, <4>2, <4>3 DEF Walked, Passed, Overwriting
      <4>5. MayStop(q)
          BY <2>2, <4>1, <4>4 DEF MayStop, InTheWay, LeftBehind
      <4> QED
          BY <1>l, <2>1, <3>1, <4>2, <4>5
    <3> QED
        BY <3>2, <3>3
  <2>3. CASE arrived # {}
      BY <2>1, <2>3
  <2>4. CASE outcome' = outcome
      BY <1>e, <2>1, <2>4
  <2> QED
      BY <1>2, <2>2, <2>3, <2>4 DEF Visit
<1>3. CASE EndWalk
    BY <1>3, <1>e DEF EndWalk, RemoveAllAfterWalk, disk
<1>4. CASE BeginPass
    BY <1>4, <1>e DEF BeginPass
<1>5. CASE WriteChunk
    BY <1>5, <1>e DEF WriteChunk
<1>6. CASE EndPass
  <2>1. outcome' # "failed"
      BY <1>6, <1>e DEF EndPass
  <2> QED
      BY <2>1
<1>7. CASE RemoveFile
  <2>1. outcome' # "failed"
      BY <1>7, <1>e DEF RemoveFile
  <2> QED
      BY <2>1
<1>8. ASSUME NEW p \in present, RemoveEntry(p) PROVE FailureHasCause'
  <2>1. outcome' # "failed"
      BY <1>8, <1>e DEF RemoveEntry
  <2> QED
      BY <2>1
<1>9. CASE Interrupt
    BY <1>9, <1>b, <1>f DEF Interrupt, disk, cursor
<1>10. ASSUME NEW p \in tree.late, Arrive(p) PROVE FailureHasCause'
  <2>1. outcome' # "failed"
      BY <1>10, <1>e DEF Arrive
  <2> QED
      BY <2>1
<1>11. CASE UNCHANGED vars
    BY <1>11, <1>f, <1>l DEF vars, disk, cursor
<1> QED
    BY <1>1, <1>2, <1>3, <1>4, <1>5, <1>6, <1>7, <1>8, <1>9, <1>10, <1>11 DEF Next, Step

LEMMA FailureKept == Assumptions /\ IInv /\ [Next]_vars => FailsForAReason'
    BY CauseKept, StuckKept DEF FailureHasCause, Stuck, FailsForAReason

LEMMA InitInv == Assumptions /\ Init => IInv
<1> SUFFICES ASSUME Assumptions, Init PROVE IInv
    OBVIOUS
<1> USE DEF Init, Ours, Overwriting
<1>1. TypeOK
    BY InitType
<1>2. tree \in Layouts
    OBVIOUS
<1>3. Attached
    BY <1>2, Parents DEF Attached
<1>4. RemovedIsWiped /\ OkMeansGone /\ OutsideKept /\ FailsForAReason
    BY DEF RemovedIsWiped, OkMeansGone, OutsideKept, FailsForAReason
<1>5. Scope /\ Phases /\ Walked /\ Stuck
    BY DEF Scope, Phases, Walked, Stuck
<1> QED
    BY <1>1, <1>3, <1>4, <1>5 DEF IInv

LEMMA StepKeeps == Assumptions /\ IInv /\ [Next]_vars => IInv'
<1>1. IInv => TypeOK
    BY DEF IInv
<1> QED
    BY <1>1, NextType, ScopeKept, PhasesKept, AttachedKept, WalkedKept, StuckKept,
       WipedKept, GoneKept, OutsideStays, FailureKept DEF IInv

\* The inductive invariant of a deletion.
THEOREM DeletionInductive ==
    ASSUME Assumptions
    PROVE  Spec => []IInv
    BY InitInv, StepKeeps, PTL DEF Spec

\* Every variable of a deletion has its type; the last pass is never exceeded.
THEOREM DeletionTyped ==
    ASSUME Assumptions
    PROVE  Spec => []TypeOK
<1>1. IInv => TypeOK
    BY DEF IInv
<1> QED
    BY <1>1, DeletionInductive, PTL

\* secure_delete_dir removes no file of the tree that it has not overwritten to
\* the last pass.
THEOREM WipedBeforeRemoved ==
    ASSUME Assumptions
    PROVE  Spec => []RemovedIsWiped
<1>1. IInv => RemovedIsWiped
    BY DEF IInv
<1> QED
    BY <1>1, DeletionInductive, PTL

\* delete_path returns Ok only when nothing of the tree is left, nor of what was
\* put into it meanwhile, unless the path given leads to a special file.
THEOREM OkIsGone ==
    ASSUME Assumptions
    PROVE  Spec => []OkMeansGone
<1>1. IInv => OkMeansGone
    BY DEF IInv
<1> QED
    BY <1>1, DeletionInductive, PTL

\* delete_path takes no name outside the tree and overwrites no file but those
\* the tree holds or links to.
THEOREM OutsideSafe ==
    ASSUME Assumptions
    PROVE  Spec => []OutsideKept
<1>1. IInv => OutsideKept
    BY DEF IInv
<1> QED
    BY <1>1, DeletionInductive, PTL

\* Left alone, delete_path fails only for what may be in its way, and does not
\* succeed with an entry that is in its way in every order of the walk.
THEOREM FailureHasReason ==
    ASSUME Assumptions
    PROVE  Spec => []FailsForAReason
<1>1. IInv => FailsForAReason
    BY DEF IInv
<1> QED
    BY <1>1, DeletionInductive, PTL
=============================================================================
