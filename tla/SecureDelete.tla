---------------------------- MODULE SecureDelete ----------------------------
(***************************************************************************)
(* delete_path (core/src/secure_delete.rs): removal of a file or a tree,   *)
(* plain or with every file overwritten first, on a file system with hard  *)
(* links, symbolic links and special files (FIFOs, sockets, devices),      *)
(* interrupted anywhere, while somebody else may still add files to the    *)
(* tree.                                                                   *)
(*                                                                         *)
(* The walk yields each entry after what is below it; siblings come in any *)
(* order, also interleaved, which is more than WalkDir does.  The source   *)
(* path itself is not a link to a directory.                               *)
(***************************************************************************)
EXTENDS Naturals

CONSTANTS
    Paths, Inodes,
    Root,      \* the path given to delete_path
    Layouts,   \* the file systems considered
    SizeOf,    \* inode -> length
    ChunkSize, \* CHUNK_SIZE
    Passes     \* overwrites of a file: 3 patterns, 3 times

\* inside: Root and what is below it; late: files somebody may still put there;
\* parent: the directory of a path; inode: of a file; target: where a link ends.
LayoutSpace ==
    [inside : SUBSET Paths, outside : SUBSET Paths, late : SUBSET Paths,
     kind : [Paths -> {"file", "dir", "link", "special"}],
     parent : [Paths -> Paths], inode : [Paths -> Inodes], target : [Paths -> Paths]]

\* The paths that are or will be in the tree hang together below Root.
TreeShaped(l) ==
    LET below == (l.inside \cup l.late) \ {Root}
    IN  /\ \A p \in below : l.parent[p] \in l.inside /\ l.kind[l.parent[p]] = "dir"
        /\ \A S \in SUBSET below : S # {} => \E p \in S : l.parent[p] \notin S
        /\ \A p \in l.outside : l.parent[p] \notin l.inside

LayoutAssumption ==
    /\ Layouts \subseteq LayoutSpace
    /\ \A l \in Layouts :
         /\ TreeShaped(l)
         /\ l.inside \cap l.outside = {}
         /\ l.late \cap (l.inside \cup l.outside) = {}
         /\ \A p \in l.late : l.kind[p] = "file"
         /\ Root \notin l.outside
         /\ Root \in l.inside \/ l.inside = {}
         /\ l.kind[Root] = "link" => l.kind[l.target[Root]] \in {"file", "special"}
         /\ l.kind[Root] = "link" => l.target[Root] \in l.outside
SizeAssumption ==
    /\ Root \in Paths
    /\ SizeOf \in [Inodes -> Nat]
    /\ ChunkSize \in Nat \ {0}
    /\ Passes \in Nat \ {0}

VARIABLES
    tree,     \* the layout; it does not change
    secure,
    present,  \* the paths that exist
    pc,
    todo,     \* entries the walk has not yielded
    cur,      \* the path being overwritten
    pass, written,  \* position in the overwrite of cur
    outcome,
    \* history
    spoiled,  \* inodes that lost content to an overwrite
    done,     \* inodes overwritten to the last pass
    arrived,  \* late files that somebody put into the tree
    faulty    \* an I/O error or a kill ended the deletion

disk == <<present, spoiled, done, arrived>>
cursor == <<todo, cur, pass, written>>
vars == <<tree, secure, disk, pc, cursor, outcome, faulty>>

\* metadata() follows links; the type the walk knows does not.
Resolve(p) == IF tree.kind[p] = "link" THEN tree.target[p] ELSE p
Reached(p) == p \in present /\ Resolve(p) \in present
IsFile(p) == Reached(p) /\ tree.kind[Resolve(p)] = "file"
IsDir(p) == Reached(p) /\ tree.kind[Resolve(p)] = "dir"
Children(d) == {p \in present \ {Root} : tree.parent[p] = d}

\* The file that an overwrite of cur writes to.
Victim == tree.inode[Resolve(cur)]

InTree(p) == p \in tree.inside \cup arrived

Init ==
    /\ tree \in Layouts
    /\ secure \in BOOLEAN
    /\ present = tree.inside \cup tree.outside
    /\ pc = "start"
    /\ todo = {}
    /\ cur = Root
    /\ pass = 0
    /\ written = 0
    /\ outcome = "none"
    /\ spoiled = {}
    /\ done = {}
    /\ arrived = {}
    /\ faulty = FALSE

Return(r) == pc' = "end" /\ outcome' = r
Goto(l) == pc' = l /\ UNCHANGED outcome

\* Mutant: the walk does not descend.
OnlyRoot == {Root}

WalkEntries == tree.inside

DeletePath ==
    /\ pc = "start"
    /\ UNCHANGED <<tree, secure, spoiled, done, arrived, cur, pass, written, faulty>>
    /\ \/ /\ IsFile(Root) /\ secure
          /\ Goto("truncate")
          /\ UNCHANGED <<present, todo>>
       \/ /\ IsFile(Root) /\ ~secure
          /\ present' = present \ {Root}
          /\ Return("ok")
          /\ UNCHANGED todo
       \/ /\ IsDir(Root)
          /\ todo' = IF secure THEN WalkEntries ELSE {}
          /\ Goto(IF secure THEN "walk" ELSE "remove all")
          /\ UNCHANGED present
       \/ /\ ~IsFile(Root) /\ ~IsDir(Root)
          /\ Return("ok")
          /\ UNCHANGED <<present, todo>>

(***************************************************************************)
(* secure_delete_dir                                                       *)
(***************************************************************************)
\* Mutant: directories come before their entries.
AnyOrder(p) == p \in todo

ContentsFirst(p) == p \in todo /\ \A q \in todo \ {Root} : tree.parent[q] # p

\* remove_dir takes neither a link nor a directory with entries.
Removable(p) == tree.kind[p] = "dir" /\ Children(p) = {}

Visit(p) ==
    /\ pc = "walk" /\ ContentsFirst(p)
    /\ todo' = todo \ {p}
    /\ UNCHANGED <<tree, secure, spoiled, done, arrived, pass, written, faulty>>
    /\ \/ /\ IsFile(p)
          /\ cur' = p
          /\ Goto("truncate")
          /\ UNCHANGED present
       \/ /\ IsDir(p) /\ p # Root /\ Removable(p)
          /\ present' = present \ {p}
          /\ Goto("walk")
          /\ UNCHANGED cur
       \/ /\ IsDir(p) /\ p # Root /\ ~Removable(p)
          /\ Return("failed")
          /\ UNCHANGED <<present, cur>>
       \/ /\ ~IsFile(p) /\ (IsDir(p) => p = Root)
          /\ Goto("walk")
          /\ UNCHANGED <<present, cur>>

\* Mutant: the walk is taken to have removed everything.
SuccessAfterWalk == Return("ok")

RemoveAllAfterWalk == Goto("remove all")

EndWalk ==
    /\ pc = "walk" /\ todo = {}
    /\ RemoveAllAfterWalk
    /\ UNCHANGED <<tree, secure, disk, cursor, faulty>>

(***************************************************************************)
(* secure_delete_file: each pass cuts the file to nothing, stretches it to *)
(* its size and writes it chunk by chunk.                                  *)
(***************************************************************************)
BeginPass ==
    /\ pc = "truncate"
    /\ spoiled' = IF SizeOf[Victim] > 0 THEN spoiled \cup {Victim} ELSE spoiled
    /\ written' = 0
    /\ Goto("overwrite")
    /\ UNCHANGED <<tree, secure, present, done, arrived, todo, cur, pass, faulty>>

ToWrite ==
    IF SizeOf[Victim] - written < ChunkSize THEN SizeOf[Victim] - written ELSE ChunkSize

WriteChunk ==
    /\ pc = "overwrite" /\ written < SizeOf[Victim]
    /\ written' = written + ToWrite
    /\ UNCHANGED <<tree, secure, disk, pc, todo, cur, pass, outcome, faulty>>

EndPass ==
    /\ pc = "overwrite" /\ written >= SizeOf[Victim]
    /\ \/ /\ pass + 1 < Passes
          /\ pass' = pass + 1
          /\ Goto("truncate")
          /\ UNCHANGED done
       \/ /\ pass + 1 >= Passes
          /\ pass' = 0
          /\ done' = done \cup {Victim}
          /\ Goto("unlink")
    /\ UNCHANGED <<tree, secure, present, spoiled, arrived, todo, cur, written, faulty>>

\* Mutant: the file goes that the link leads to.
TargetOf(p) == Resolve(p)

\* What remove_file takes away: the name, not what it leads to.
Unlinked(p) == p

RemoveFile ==
    /\ pc = "unlink"
    /\ present' = present \ {Unlinked(cur)}
    /\ IF cur = Root THEN Return("ok") ELSE Goto("walk")
    /\ UNCHANGED <<tree, secure, spoiled, done, arrived, cursor, faulty>>

(***************************************************************************)
(* remove_dir_all, from the leaves up; it follows no link.                 *)
(***************************************************************************)
RemoveEntry(p) ==
    /\ pc = "remove all"
    /\ p \in present /\ InTree(p) /\ Children(p) = {}
    /\ present' = present \ {p}
    /\ IF p = Root THEN Return("ok") ELSE Goto("remove all")
    /\ UNCHANGED <<tree, secure, spoiled, done, arrived, cursor, faulty>>

(***************************************************************************)
(* What the program does not choose.                                       *)
(***************************************************************************)
\* An I/O error, a file that may not be written, a kill.
Interrupt ==
    /\ pc \notin {"start", "end"}
    /\ faulty' = TRUE
    /\ Return("failed")
    /\ UNCHANGED <<tree, secure, disk, cursor>>

\* A file appears in the tree; the walk may still come across it.
Arrive(p) ==
    /\ pc \in {"walk", "truncate", "overwrite", "unlink"}
    /\ p \in tree.late \ arrived
    /\ tree.parent[p] \in present
    /\ present' = present \cup {p}
    /\ arrived' = arrived \cup {p}
    /\ \/ UNCHANGED todo
       \/ tree.parent[p] \in todo /\ todo' = todo \cup {p}
    /\ UNCHANGED <<tree, secure, spoiled, done, pc, cur, pass, written, outcome, faulty>>

Step ==
    \/ DeletePath
    \/ \E p \in todo : Visit(p)
    \/ EndWalk
    \/ BeginPass \/ WriteChunk \/ EndPass \/ RemoveFile
    \/ \E p \in present : RemoveEntry(p)

Next == Step \/ Interrupt \/ \E p \in tree.late : Arrive(p)

Spec == Init /\ [][Next]_vars

-----------------------------------------------------------------------------

TypeOK ==
    /\ tree \in Layouts
    /\ secure \in BOOLEAN
    /\ present \subseteq Paths
    /\ pc \in {"start", "walk", "truncate", "overwrite", "unlink", "remove all", "end"}
    /\ todo \subseteq Paths
    /\ cur \in Paths
    /\ pass \in 0 .. (Passes - 1)
    /\ written \in Nat
    /\ outcome \in {"none", "ok", "failed"}
    /\ spoiled \subseteq Inodes
    /\ done \subseteq Inodes
    /\ arrived \subseteq tree.late
    /\ faulty \in BOOLEAN

\* "overwrites every file inside it (including subdirectories) before final
\* removal" (the comment on secure_delete_dir): no file of the tree is removed
\* that was not overwritten to the last pass, but for files put into it after
\* the walk began.
RemovedIsWiped ==
    secure =>
        \A p \in tree.inside :
            tree.kind[p] = "file" /\ p \notin present => tree.inode[p] \in done

\* Success means that nothing of the tree is left, unless the path given leads to
\* a special file, which delete_path passes over.
OkMeansGone ==
    outcome = "ok" /\ tree.kind[Resolve(Root)] # "special" =>
        present \cap (tree.inside \cup arrived) = {}

\* Outside the tree no name goes, and no content but that of a file which a
\* link of the tree leads to or a file of the tree shares.
LinkedInto(i) ==
    \E p \in tree.inside \cup tree.late : tree.inode[Resolve(p)] = i
OutsideKept ==
    /\ tree.outside \subseteq present
    /\ \A i \in spoiled : LinkedInto(i)

\* An entry is in the way of the walk when it stays behind in a subdirectory,
\* being neither a file nor a link to one of the files given, or when it is a link
\* to one of the directories given: remove_dir fails on its parent or on itself.
LeadsTo(p, k, some) ==
    tree.kind[p] = "link" /\ tree.kind[tree.target[p]] = k /\ tree.target[p] \in some
InTheWay(p, files, dirs) ==
    /\ p # Root
    /\ \/ /\ tree.parent[p] # Root
          /\ tree.kind[p] \in {"link", "special"} /\ ~LeadsTo(p, "file", files)
       \/ LeadsTo(p, "dir", dirs)
MayStop(p) == InTheWay(p, tree.outside, tree.inside \cup tree.outside)
MustStop(p) == InTheWay(p, tree.inside \cup tree.outside, tree.outside \cup {Root})

\* Without a fault or an arrival, only an overwriting deletion fails, and only for
\* what is in its way.  It cannot succeed when an entry is in its way in every
\* order of the walk; an order matters to a link in a subdirectory that leads to
\* a file of the tree, and to one at the top that leads to a directory of it.
FailsForAReason ==
    ~faulty /\ arrived = {} =>
        /\ outcome = "failed" => secure /\ \E p \in tree.inside : MayStop(p)
        /\ outcome = "ok" /\ secure => \A p \in tree.inside : ~MustStop(p)
=============================================================================
