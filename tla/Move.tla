-------------------------------- MODULE Move --------------------------------
(***************************************************************************)
(* `ramz pack --7z -d`: the last part of the Pack arm of run(), which hands *)
(* the source from the child of SevenZPipe to the deletion of SecureDelete *)
(* - pack, save the completed state, verify, delete.                       *)
(***************************************************************************)
EXTENDS Naturals, Sequences

CONSTANTS
    OutCap, ErrCap, MaxOut, MaxErr,
    Paths, Inodes, Root, Layouts, SizeOf, ChunkSize, Passes

VARIABLES
    phase,  \* the call that run() is in
    sound,  \* what the child writes can be read back
    outPipe, errPipe, child, outs, said, archived, parent, kept, garbled, result,
    tree, secure, present, pc, todo, cur, pass, written, outcome,
    spoiled, done, arrived, faulty

Pipe == INSTANCE SevenZPipe
Deletion == INSTANCE SecureDelete

ASSUME MoveAssumption ==
    Pipe!PipeAssumption /\ Deletion!LayoutAssumption /\ Deletion!SizeAssumption

pipeVars ==
    <<outPipe, errPipe, child, outs, said, archived, parent, kept, garbled, result>>
treeVars ==
    <<tree, secure, present, pc, todo, cur, pass, written, outcome, spoiled, done,
      arrived, faulty>>
vars == <<phase, sound, pipeVars, treeVars>>

Init ==
    /\ phase = "pack"
    /\ sound \in BOOLEAN
    /\ Pipe!Init
    /\ Deletion!Init

\* backend.pack(...)?
Pack ==
    /\ phase = "pack"
    /\ UNCHANGED <<sound, treeVars>>
    /\ \/ Pipe!Next /\ UNCHANGED phase
       \/ /\ parent = "returned"
          /\ phase' = IF result = "ok" THEN "verify" ELSE "end"
          /\ UNCHANGED pipeVars

\* Mutant: the archive is not looked at.
AnythingVerifies == TRUE

\* `7z t`: its two pipes are read together, so it always ends.
Verifies == archived /\ sound

Verify ==
    /\ phase = "verify"
    /\ phase' = IF Verifies THEN "delete" ELSE "end"
    /\ UNCHANGED <<sound, pipeVars, treeVars>>

Delete ==
    /\ phase = "delete"
    /\ UNCHANGED <<sound, pipeVars>>
    /\ \/ Deletion!Next /\ UNCHANGED phase
       \/ /\ pc = "end"
          /\ phase' = "end"
          /\ UNCHANGED treeVars

\* A failed save_resume_state, a verify that cannot run, a kill.
Interrupt ==
    /\ phase \in {"pack", "verify"}
    /\ phase' = "end"
    /\ UNCHANGED <<sound, pipeVars, treeVars>>

Next == Pack \/ Verify \/ Delete \/ Interrupt

\* The child and the command run on until they have to wait.
Work ==
    \/ Verify
    \/ phase = "pack" /\ Pack
    \/ phase = "delete" /\ Deletion!Step /\ UNCHANGED <<phase, sound, pipeVars>>
    \/ phase = "delete" /\ pc = "end" /\ Delete

Spec == Init /\ [][Next]_vars
FairSpec == Spec /\ WF_vars(Work)

-----------------------------------------------------------------------------

TypeOK ==
    /\ phase \in {"pack", "verify", "delete", "end"}
    /\ sound \in BOOLEAN
    /\ Pipe!TypeOK
    /\ Deletion!TypeOK

\* Parent and child of SevenZBackend::pack block each other only at the first
\* message that finds no room in the stderr pipe.
BlocksAtOverflow == Pipe!BlocksAtOverflow

\* SevenZBackend::pack reports success only of an archive that is made.
OkMeansArchived == Pipe!OkMeansArchived

\* The child dies of a closed pipe only after a line that is not UTF-8.
ChildOutlivesPipes == Pipe!ChildOutlivesPipes

\* A failure of the child is reported with all its messages.
FailureIsExplained == Pipe!FailureIsExplained

\* secure_delete_dir removes no file it has not overwritten.
RemovedIsWiped == Deletion!RemovedIsWiped

\* delete_path returns Ok only when nothing of the tree is left, or when the
\* source leads to a special file.
OkMeansGone == Deletion!OkMeansGone

\* delete_path takes no name outside the tree, and spoils only what is linked.
OutsideKept == Deletion!OutsideKept

\* delete_path fails by itself only for entries that are in its way, and cannot
\* succeed with one that is in its way in every order.
FailsForAReason == Deletion!FailsForAReason

\* Nothing of the source has gone or been overwritten.
SourceIntact ==
    /\ tree.inside \subseteq present
    /\ \A p \in tree.inside : tree.kind[p] = "file" => tree.inode[p] \notin spoiled

\* The chain from the child's exit status over verify to the single overwrites
\* and unlinks keeps custody: the source gives nothing up before an archive
\* exists that can be read back (the order of pack, verify and delete_path in
\* run()).
Promise ==
    INSTANCE Custody WITH
        Docs <- {Root},
        want <- Root,
        inSource <- SourceIntact,
        inArchive <- archived /\ sound
KeepsPromise == Promise!Spec

\* The command comes to an end, or parent and child have blocked each other.
EndsUnlessJammed == <>(phase = "end" \/ Pipe!Jammed)
=============================================================================
