----------------------------- MODULE MoveProofs -----------------------------
(***************************************************************************)
(* Proofs about Move: the move of a source into a 7z archive implements    *)
(* custody, and its two components keep their properties in it.            *)
(***************************************************************************)
EXTENDS Move, TLAPS

PipeFacts == INSTANCE SevenZPipeProofs
DeletionFacts == INSTANCE SecureDeleteProofs

-----------------------------------------------------------------------------
(***************************************************************************)
(* Custody.                                                                *)
(***************************************************************************)
\* The source is intact until the deletion begins, and it begins with an archive
\* that can be read back.
Guarded ==
    /\ phase \in {"pack", "verify", "delete", "end"}
    /\ archived \in BOOLEAN /\ sound \in BOOLEAN
    /\ tree \in Layouts
    /\ phase \in {"pack", "verify"} => SourceIntact
    /\ phase = "delete" => archived /\ sound
    /\ SourceIntact \/ (archived /\ sound)

LEMMA InitGuarded == MoveAssumption /\ Init => Guarded
    BY DEF Init, Guarded, SourceIntact, Pipe!Init, Deletion!Init

\* No call takes an archive back that the child has made.
LEMMA PipeKeepsArchive == Guarded /\ Pipe!Next => archived' \in BOOLEAN /\ (archived => archived')
    BY DEF Guarded, Pipe!Next, Pipe!Child, Pipe!Parent, Pipe!MakeArchive, Pipe!BeginWrite,
           Pipe!WriteOut, Pipe!WriteErr, Pipe!BrokenPipe, Pipe!Exit, Pipe!ReadOut,
           Pipe!EndOfOut, Pipe!ReadErr, Pipe!EndOfErr, Pipe!Wait, Pipe!parentVars,
           Pipe!childVars

LEMMA TreeUntouched == UNCHANGED treeVars => SourceIntact' = SourceIntact /\ tree' = tree
    BY DEF treeVars, SourceIntact

\* A deletion only takes: what arrives meanwhile is not of the source.
LEMMA DeletionTakes ==
    ASSUME MoveAssumption, tree \in Layouts, Deletion!Next
    PROVE  tree' = tree /\ (SourceIntact' => SourceIntact)
<1>1. tree.late \cap tree.inside = {}
    BY DEF MoveAssumption, Deletion!LayoutAssumption
<1>2. tree' = tree /\ spoiled \subseteq spoiled' /\ present' \subseteq present \cup tree.late
    BY DEF Deletion!Next, Deletion!Step, Deletion!DeletePath, Deletion!Visit, Deletion!EndWalk,
           Deletion!BeginPass, Deletion!WriteChunk, Deletion!EndPass, Deletion!RemoveFile,
           Deletion!RemoveEntry, Deletion!Interrupt, Deletion!Arrive, Deletion!disk,
           Deletion!cursor
<1> QED
    BY <1>1, <1>2 DEF SourceIntact

LEMMA StepGuarded == MoveAssumption /\ Guarded /\ [Next]_vars => Guarded'
<1> SUFFICES ASSUME MoveAssumption, Guarded, [Next]_vars PROVE Guarded'
    OBVIOUS
<1>1. CASE Pack
  <2>1. UNCHANGED <<sound, treeVars>> /\ archived' \in BOOLEAN /\ (archived => archived')
      BY <1>1, PipeKeepsArchive DEF Pack, pipeVars, Guarded
  <2>2. phase = "pack" /\ phase' \in {"pack", "verify", "end"}
      BY <1>1 DEF Pack
  <2> QED
      BY <2>1, <2>2, TreeUntouched DEF Guarded
<1>2. CASE Verify
  <2>1. UNCHANGED <<sound, archived, treeVars>>
      BY <1>2 DEF Verify, pipeVars
  <2>2. phase = "verify" /\ phase' \in {"delete", "end"}
      BY <1>2 DEF Verify
  <2>3. phase' = "delete" => archived /\ sound
      BY <1>2 DEF Verify, Verifies
  <2> QED
      BY <2>1, <2>2, <2>3, TreeUntouched DEF Guarded
<1>3. CASE Delete
  <2>1. UNCHANGED <<sound, archived>> /\ phase = "delete" /\ phase' \in {"delete", "end"}
      BY <1>3 DEF Delete, pipeVars
  <2>2. tree' = tree
      BY <1>3, DeletionTakes DEF Delete, treeVars, Guarded
  <2> QED
      BY <2>1, <2>2 DEF Guarded
<1>4. CASE Interrupt
  <2>1. UNCHANGED <<sound, archived, treeVars>> /\ phase' = "end"
      BY <1>4 DEF Interrupt, pipeVars
  <2> QED
      BY <2>1, TreeUntouched DEF Guarded
<1>5. CASE UNCHANGED vars
  <2>1. UNCHANGED <<phase, sound, archived, treeVars>>
      BY <1>5 DEF vars, pipeVars
  <2> QED
      BY <2>1, TreeUntouched DEF Guarded
<1> QED
    BY <1>1, <1>2, <1>3, <1>4, <1>5 DEF Next

\* A step of the move is a step of custody: only the deletion changes what the
\* source holds, and it begins with the archive in hand.
LEMMA StepIsCustody ==
    MoveAssumption /\ Guarded /\ Guarded' /\ [Next]_vars => [Promise!Next]_(Promise!vars)
<1> SUFFICES ASSUME MoveAssumption, Guarded, Guarded', [Next]_vars PROVE [Promise!Next]_(Promise!vars)
    OBVIOUS
<1> DEFINE inArchive == archived /\ sound
<1>1. CASE Pack \/ Verify \/ Interrupt \/ UNCHANGED vars
  <2>1. UNCHANGED treeVars /\ UNCHANGED sound
      BY <1>1 DEF Pack, Verify, Interrupt, vars
  <2>2. SourceIntact' = SourceIntact /\ SourceIntact \in BOOLEAN
      BY <2>1, TreeUntouched DEF SourceIntact
  <2>3. CASE inArchive' = inArchive
      BY <2>2, <2>3 DEF Promise!vars
  <2>4. CASE inArchive' # inArchive
    <3>1. archived' # archived
        BY <2>1, <2>4
    <3>2. phase = "pack"
        BY <1>1, <3>1 DEF Pack, Verify, Interrupt, vars, pipeVars
    <3>3. SourceIntact
        BY <3>2 DEF Guarded
    <3>4. Pipe!Next
        BY <1>1, <3>1 DEF Pack, Verify, Interrupt, vars, pipeVars
    <3>5. archived => archived'
        BY <3>4, PipeKeepsArchive
    <3>6. inArchive'
        BY <2>1, <2>4, <3>5 DEF Guarded
    <3>7. Promise!Archive
        BY <2>2, <3>3, <3>6 DEF Promise!Archive
    <3> QED
        BY <3>7 DEF Promise!Next
  <2> QED
      BY <2>3, <2>4
<1>2. CASE Delete
  <2>1. UNCHANGED <<sound, archived>> /\ inArchive
      BY <1>2 DEF Delete, pipeVars, Guarded
  <2>2. SourceIntact \in BOOLEAN /\ SourceIntact' \in BOOLEAN
      BY DEF SourceIntact
  <2>3. SourceIntact' => SourceIntact
      BY <1>2, DeletionTakes, TreeUntouched DEF Delete, Guarded
  <2>4. CASE SourceIntact' = SourceIntact
      BY <2>1, <2>4 DEF Promise!vars
  <2>5. CASE SourceIntact' = FALSE
      BY <2>1, <2>5 DEF Promise!Next, Promise!Release
  <2> QED
      BY <2>2, <2>3, <2>4, <2>5
<1> QED
    BY <1>1, <1>2 DEF Next

\* The move of a source into a 7z archive implements custody.
THEOREM MoveKeepsPromise ==
    ASSUME MoveAssumption
    PROVE  Spec => KeepsPromise
<1>1. Init => Promise!Init
    BY DEF Init, Promise!Init, SourceIntact, Pipe!Init, Deletion!Init
<1>2. Init => Guarded
    BY InitGuarded
<1> QED
    BY <1>1, <1>2, StepGuarded, StepIsCustody, PTL DEF Spec, KeepsPromise, Promise!Spec

-----------------------------------------------------------------------------
(***************************************************************************)
(* The components.  PipeFacts and DeletionFacts speak of the same actions  *)
(* under other names.                                                      *)
(***************************************************************************)
LEMMA SamePipe ==
    (Pipe!Init <=> PipeFacts!Init) /\ (Pipe!Next <=> PipeFacts!Next)
    BY DEF Pipe!Init, PipeFacts!Init, Pipe!Working, PipeFacts!Working, Pipe!Next,
           PipeFacts!Next, Pipe!Child, PipeFacts!Child, Pipe!Parent,
           PipeFacts!Parent, Pipe!MakeArchive, PipeFacts!MakeArchive,
           Pipe!BeginWrite, PipeFacts!BeginWrite, Pipe!WriteOut, PipeFacts!WriteOut,
           Pipe!WriteErr, PipeFacts!WriteErr, Pipe!BrokenPipe, PipeFacts!BrokenPipe,
           Pipe!Exit, PipeFacts!Exit, Pipe!ReadOut, PipeFacts!ReadOut, Pipe!EndOfOut,
           PipeFacts!EndOfOut, Pipe!ReadErr, PipeFacts!ReadErr, Pipe!EndOfErr,
           PipeFacts!EndOfErr, Pipe!Wait, PipeFacts!Wait, Pipe!Writing,
           PipeFacts!Writing, Pipe!Exited, PipeFacts!Exited, Pipe!OutLines,
           PipeFacts!OutLines, Pipe!ErrLines, PipeFacts!ErrLines, Pipe!OutOpen,
           PipeFacts!OutOpen, Pipe!ErrOpen, PipeFacts!ErrOpen, Pipe!HasExited,
           PipeFacts!HasExited, Pipe!AtEnd, PipeFacts!AtEnd, Pipe!Keep,
           PipeFacts!Keep, Pipe!StatusIsSuccess, PipeFacts!StatusIsSuccess,
           Pipe!parentVars, PipeFacts!parentVars, Pipe!childVars,
           PipeFacts!childVars, Pipe!vars, PipeFacts!vars

LEMMA SameDeletion ==
    (Deletion!Init <=> DeletionFacts!Init) /\ (Deletion!Next <=> DeletionFacts!Next)
    BY DEF Deletion!Init, DeletionFacts!Init, Deletion!Next, DeletionFacts!Next,
           Deletion!Step, DeletionFacts!Step, Deletion!DeletePath,
           DeletionFacts!DeletePath, Deletion!Visit, DeletionFacts!Visit,
           Deletion!EndWalk, DeletionFacts!EndWalk, Deletion!BeginPass,
           DeletionFacts!BeginPass, Deletion!WriteChunk, DeletionFacts!WriteChunk,
           Deletion!EndPass, DeletionFacts!EndPass, Deletion!RemoveFile,
           DeletionFacts!RemoveFile, Deletion!RemoveEntry, DeletionFacts!RemoveEntry,
           Deletion!Interrupt, DeletionFacts!Interrupt, Deletion!Arrive,
           DeletionFacts!Arrive, Deletion!Return, DeletionFacts!Return,
           Deletion!Goto, DeletionFacts!Goto, Deletion!Resolve,
           DeletionFacts!Resolve, Deletion!Reached, DeletionFacts!Reached,
           Deletion!IsFile, DeletionFacts!IsFile, Deletion!IsDir,
           DeletionFacts!IsDir, Deletion!Children, DeletionFacts!Children,
           Deletion!Victim, DeletionFacts!Victim, Deletion!InTree,
           DeletionFacts!InTree, Deletion!WalkEntries, DeletionFacts!WalkEntries,
           Deletion!ContentsFirst, DeletionFacts!ContentsFirst, Deletion!Removable,
           DeletionFacts!Removable, Deletion!RemoveAllAfterWalk,
           DeletionFacts!RemoveAllAfterWalk, Deletion!ToWrite, DeletionFacts!ToWrite,
           Deletion!Unlinked, DeletionFacts!Unlinked, Deletion!disk,
           DeletionFacts!disk, Deletion!cursor, DeletionFacts!cursor, Deletion!vars,
           DeletionFacts!vars

LEMMA SameAssumptions ==
    MoveAssumption => PipeFacts!PipeAssumption /\ DeletionFacts!Assumptions
    BY DEF MoveAssumption, Pipe!PipeAssumption, PipeFacts!PipeAssumption,
           DeletionFacts!Assumptions, Deletion!LayoutAssumption,
           DeletionFacts!LayoutAssumption, Deletion!SizeAssumption,
           DeletionFacts!SizeAssumption, Deletion!LayoutSpace, DeletionFacts!LayoutSpace,
           Deletion!TreeShaped, DeletionFacts!TreeShaped

\* Each step of Move is a step of the pipe or leaves the pipe alone, and so with
\* the deletion.
LEMMA Projected ==
    [Next]_vars =>
        ([Pipe!Next]_(PipeFacts!vars)) /\ ([Deletion!Next]_(DeletionFacts!vars))
    BY DEF Next, Pack, Verify, Delete, Interrupt, vars, pipeVars, treeVars, PipeFacts!vars,
           PipeFacts!childVars, PipeFacts!parentVars, DeletionFacts!vars, DeletionFacts!disk,
           DeletionFacts!cursor

LEMMA PipeInvariant ==
    ASSUME MoveAssumption
    PROVE  Spec => []PipeFacts!IInv
<1>1. Init => PipeFacts!IInv
    BY SamePipe, SameAssumptions, PipeFacts!InitInv DEF Init
<1>2. PipeFacts!IInv /\ [Next]_vars => PipeFacts!IInv'
    BY SamePipe, SameAssumptions, Projected, PipeFacts!StepKeeps
<1> QED
    BY <1>1, <1>2, PTL DEF Spec

LEMMA DeletionInvariant ==
    ASSUME MoveAssumption
    PROVE  Spec => []DeletionFacts!IInv
<1>1. Init => DeletionFacts!IInv
    BY SameDeletion, SameAssumptions, DeletionFacts!InitInv DEF Init
<1>2. DeletionFacts!IInv /\ [Next]_vars => DeletionFacts!IInv'
    BY SameDeletion, SameAssumptions, Projected, DeletionFacts!StepKeeps
<1> QED
    BY <1>1, <1>2, PTL DEF Spec

\* Parent and child of SevenZBackend::pack block each other only at the first
\* message for which the stderr pipe has no room, whatever the sizes of the pipes:
\* no message is read before the progress has ended.
THEOREM MoveBlocksAtOverflow ==
    ASSUME MoveAssumption
    PROVE  Spec => []BlocksAtOverflow
<1>1. PipeFacts!IInv => BlocksAtOverflow
    BY SameAssumptions, PipeFacts!InvBlocks
    DEF BlocksAtOverflow, Pipe!BlocksAtOverflow, PipeFacts!BlocksAtOverflow,
        Pipe!ParentWaits, PipeFacts!ParentWaits, Pipe!ChildWaits, PipeFacts!ChildWaits,
        Pipe!HasExited, PipeFacts!HasExited, Pipe!OutOpen, PipeFacts!OutOpen,
        Pipe!ErrOpen, PipeFacts!ErrOpen
<1> QED
    BY <1>1, PipeInvariant, PTL

\* SevenZBackend::pack reports success only of an archive that is made.
THEOREM MoveReportsTruly ==
    ASSUME MoveAssumption
    PROVE  Spec => []OkMeansArchived
<1>1. PipeFacts!IInv => OkMeansArchived
    BY DEF OkMeansArchived, Pipe!OkMeansArchived, PipeFacts!IInv,
           PipeFacts!StatusIsTrue, PipeFacts!ResultIsStatus
<1> QED
    BY <1>1, PipeInvariant, PTL

\* The child dies of a closed pipe only after a line that is not UTF-8.
THEOREM MoveSparesChild ==
    ASSUME MoveAssumption
    PROVE  Spec => []ChildOutlivesPipes
<1>1. PipeFacts!IInv => ChildOutlivesPipes
    BY DEF ChildOutlivesPipes, Pipe!ChildOutlivesPipes, PipeFacts!ChildOutlivesPipes,
           Pipe!Exited, PipeFacts!Exited, PipeFacts!IInv
<1> QED
    BY <1>1, PipeInvariant, PTL

\* A move that fails reports all messages of the child, in their order.
THEOREM MoveExplainsFailure ==
    ASSUME MoveAssumption
    PROVE  Spec => []FailureIsExplained
<1>1. PipeFacts!IInv => FailureIsExplained
  <2>1. PipeFacts!FailureIsExplained <=> FailureIsExplained
      BY DEF FailureIsExplained, Pipe!FailureIsExplained, PipeFacts!FailureIsExplained,
             Pipe!Reports, PipeFacts!Reports, Pipe!Meant, PipeFacts!Meant
  <2> QED
      BY <2>1, PipeFacts!InvExplains
<1> QED
    BY <1>1, PipeInvariant, PTL

\* secure_delete_dir removes no file of any tree that it has not overwritten to
\* the last pass.
THEOREM MoveWipesBeforeRemoval ==
    ASSUME MoveAssumption
    PROVE  Spec => []RemovedIsWiped
<1>1. DeletionFacts!IInv => RemovedIsWiped
    BY DEF RemovedIsWiped, Deletion!RemovedIsWiped, DeletionFacts!RemovedIsWiped,
           DeletionFacts!IInv
<1> QED
    BY <1>1, DeletionInvariant, PTL

\* delete_path returns Ok only when nothing of the tree is left, whatever was
\* put into it meanwhile, or when the source leads to a special file.
THEOREM MoveLeavesNothing ==
    ASSUME MoveAssumption
    PROVE  Spec => []OkMeansGone
<1>1. DeletionFacts!IInv => OkMeansGone
    BY DEF OkMeansGone, Deletion!OkMeansGone, DeletionFacts!OkMeansGone,
           Deletion!Resolve, DeletionFacts!Resolve, DeletionFacts!IInv
<1> QED
    BY <1>1, DeletionInvariant, PTL

\* delete_path takes no name outside the tree and overwrites no file but those
\* the tree holds or links to.
THEOREM MoveKeepsOutside ==
    ASSUME MoveAssumption
    PROVE  Spec => []OutsideKept
<1>1. DeletionFacts!IInv => OutsideKept
    BY DEF OutsideKept, Deletion!OutsideKept, DeletionFacts!OutsideKept,
           Deletion!LinkedInto, DeletionFacts!LinkedInto, Deletion!Resolve,
           DeletionFacts!Resolve, DeletionFacts!IInv
<1> QED
    BY <1>1, DeletionInvariant, PTL

\* Left alone, delete_path fails only for what may be in its way, and does not
\* succeed with an entry that is in its way in every order of the walk: a link to
\* a directory, or a special file or a link that stays in a subdirectory.
THEOREM MoveFailsForAReason ==
    ASSUME MoveAssumption
    PROVE  Spec => []FailsForAReason
<1>1. DeletionFacts!IInv => FailsForAReason
    BY DEF FailsForAReason, Deletion!FailsForAReason, DeletionFacts!FailsForAReason,
           Deletion!MayStop, DeletionFacts!MayStop, Deletion!MustStop,
           DeletionFacts!MustStop, Deletion!InTheWay, DeletionFacts!InTheWay,
           Deletion!LeadsTo, DeletionFacts!LeadsTo,
           DeletionFacts!IInv
<1> QED
    BY <1>1, DeletionInvariant, PTL

\* Every variable of the move has its type: no pipe overflows, no pass is
\* exceeded.
THEOREM MoveTyped ==
    ASSUME MoveAssumption
    PROVE  Spec => []TypeOK
<1>1. PipeFacts!IInv => Pipe!TypeOK
    BY DEF PipeFacts!IInv, PipeFacts!Typed, Pipe!TypeOK, PipeFacts!TypeOK,
           Pipe!Children, PipeFacts!Children, Pipe!Working, PipeFacts!Working,
           Pipe!OutLines, PipeFacts!OutLines, Pipe!ErrLines, PipeFacts!ErrLines
<1>2. DeletionFacts!IInv => Deletion!TypeOK
    BY DEF DeletionFacts!IInv, Deletion!TypeOK, DeletionFacts!TypeOK
<1>3. Init => Guarded
    BY InitGuarded
<1>4. PipeFacts!IInv /\ DeletionFacts!IInv /\ Guarded => TypeOK
    BY <1>1, <1>2 DEF TypeOK, Guarded
<1> QED
    BY <1>3, <1>4, StepGuarded, PipeInvariant, DeletionInvariant, PTL DEF Spec
=============================================================================
