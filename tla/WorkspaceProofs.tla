-------------------------- MODULE WorkspaceProofs ---------------------------
(***************************************************************************)
(* Proofs about Workspace: the user's files are safe from the names that   *)
(* ramz makes when none of them is called like a resume file it writes.    *)
(***************************************************************************)
EXTENDS Workspace, TextProofs

\* No file of the user has the name of a resume file.
NoResumeNames ==
    \A n \in Sources, b \in Backends : StateName(ArchiveName(n, b)) \notin Sources

-----------------------------------------------------------------------------
(***************************************************************************)
(* Files.                                                                  *)
(***************************************************************************)
\* From the check to the backend nobody else makes the archive.
IInv ==
    /\ DOMAIN disk = AllNames
    /\ job \in Jobs
    /\ pc \in {"save started", "pack"} => disk[ArchivePath] = Absent

LEMMA JobNames ==
    ASSUME WorkspaceAssumption, job \in Jobs
    PROVE  /\ job.source \in Sources
           /\ ArchivePath \in AllNames /\ StatePath \in AllNames
           /\ ArchivePath # StatePath
<1>1. job.source \in Sources /\ job.source \in Names /\ job.backend \in Backends
      /\ job.backend \in {"age", "7z"} /\ PartAssumption
    BY DEF WorkspaceAssumption, Jobs
<1>2. ArchivePath \in Archives
    BY <1>1 DEF ArchivePath, Archives
<1> QED
    BY <1>1, <1>2, ArchiveIsNotState DEF AllNames, ArchivePath, StatePath

LEMMA InitInv == WorkspaceAssumption /\ Init => IInv
    BY DEF Init, IInv

LEMMA StepKeeps == WorkspaceAssumption /\ IInv /\ [Next]_vars => IInv'
<1> SUFFICES ASSUME WorkspaceAssumption, IInv, [Next]_vars PROVE IInv'
    OBVIOUS
<1>1. ArchivePath \in AllNames /\ ArchivePath # StatePath
    BY JobNames DEF IInv
<1>2. job' = job => ArchivePath' = ArchivePath
    BY DEF ArchivePath
<1> USE <1>1, <1>2 DEF IInv, Put
<1>3. CASE Invoke
    BY <1>3 DEF Invoke
<1>4. CASE CheckExists
    BY <1>4 DEF CheckExists
<1>5. CASE SaveStarted
    BY <1>5 DEF SaveStarted
<1>6. CASE Pack
    BY <1>6 DEF Pack
<1>7. CASE SaveCompleted
    BY <1>7 DEF SaveCompleted
<1>8. CASE Verify
    BY <1>8 DEF Verify
<1>9. CASE Delete
    BY <1>9 DEF Delete
<1>10. CASE RemoveState
    BY <1>10 DEF RemoveState
<1>11. CASE Interrupt
    BY <1>11 DEF Interrupt
<1>12. CASE UNCHANGED vars
    BY <1>12 DEF vars
<1> QED
    BY <1>3, <1>4, <1>5, <1>6, <1>7, <1>8, <1>9, <1>10, <1>11, <1>12 DEF Next

\* The step that overwrites a resume file overwrites no file of the user, and
\* the step that makes an archive found none.
LEMMA StepTouches ==
    WorkspaceAssumption /\ NoResumeNames /\ IInv /\ [Next]_vars => [TouchedAfterVerify]_vars
<1> SUFFICES ASSUME WorkspaceAssumption, NoResumeNames, IInv, [Next]_vars,
                    NEW n \in Sources, disk[n] = UserData(n), disk'[n] # disk[n]
             PROVE  pc = "delete" /\ n = job.source
    BY DEF TouchedAfterVerify
<1>1. n \in AllNames
    BY DEF AllNames
<1>2. n # StatePath
    BY DEF IInv, Jobs, NoResumeNames, StatePath, ArchivePath
<1>3. UserData(n) # Absent
    BY DEF UserData, Absent
<1>4. CASE SaveStarted \/ SaveCompleted \/ RemoveState
    BY <1>1, <1>2, <1>4 DEF SaveStarted, SaveCompleted, RemoveState, Put, IInv
<1>5. CASE Pack
    BY <1>1, <1>3, <1>5 DEF Pack, Put, IInv
<1>6. CASE Delete
    BY <1>1, <1>6 DEF Delete, Put, IInv
<1>7. CASE Invoke \/ CheckExists \/ Verify \/ Interrupt \/ UNCHANGED vars
    BY <1>7 DEF Invoke, CheckExists, Verify, Interrupt, vars
<1> QED
    BY <1>4, <1>5, <1>6, <1>7 DEF Next

\* A file of the user changes only when it is the source of a command that has
\* verified its archive, if no file is called like a resume file: the run
\* resume_is_source shows that this is needed.
THEOREM OriginalsSafe ==
    ASSUME WorkspaceAssumption, NoResumeNames
    PROVE  Spec => OriginalsKept
    BY InitInv, StepKeeps, StepTouches, PTL DEF Spec, OriginalsKept
=============================================================================
