------------------------------ MODULE Workspace -----------------------------
(***************************************************************************)
(* Several files of the user in one directory, packed one after another    *)
(* into that directory: the Pack arm of run() as it finds its files by     *)
(* name.  The archive and the resume file are wherever ArchiveName and     *)
(* StateName of Naming say, which may be a file of the user.  Without      *)
(* --force and --resume; a command may stop after any step.                *)
(***************************************************************************)
EXTENDS Naming

CONSTANTS
    Sources,  \* the names of the user's files
    Backends

Archives == {ArchiveName(n, b) : n \in Sources, b \in Backends}
AllNames == Sources \cup Archives \cup {StateName(a) : a \in Archives}

WorkspaceAssumption ==
    /\ PartAssumption
    /\ Sources \subseteq Names
    /\ Backends \subseteq {"age", "7z"}

VARIABLES
    disk,  \* name -> content
    pc,
    job    \* the source, the backend and --delete-source of the command at work

vars == <<disk, pc, job>>

Absent == [kind |-> "absent"]
UserData(n) == [kind |-> "data", of |-> n]
ResumeState(n) == [kind |-> "state", of |-> n]
ArchiveOf(c) == [kind |-> "archive", holds |-> c]

Jobs == [source : Sources, backend : Backends, delete : BOOLEAN]

Init ==
    /\ disk = [n \in AllNames |-> IF n \in Sources THEN UserData(n) ELSE Absent]
    /\ pc = "idle"
    /\ job \in Jobs

ArchivePath == ArchiveName(job.source, job.backend)
StatePath == StateName(ArchivePath)

Put(n, c) == disk' = [disk EXCEPT ![n] = c]

Invoke ==
    /\ pc = "idle"
    /\ job' \in Jobs
    /\ pc' = IF disk[job'.source] = Absent THEN "idle" ELSE "exists"
    /\ UNCHANGED disk

CheckExists ==
    /\ pc = "exists"
    /\ pc' = IF disk[ArchivePath] = Absent THEN "save started" ELSE "idle"
    /\ UNCHANGED <<disk, job>>

\* fs::write: whatever has that name is overwritten.
SaveStarted ==
    /\ pc = "save started"
    /\ Put(StatePath, ResumeState(job.source))
    /\ pc' = "pack"
    /\ UNCHANGED job

Pack ==
    /\ pc = "pack"
    /\ Put(ArchivePath, ArchiveOf(disk[job.source]))
    /\ pc' = "save completed"
    /\ UNCHANGED job

SaveCompleted ==
    /\ pc = "save completed"
    /\ Put(StatePath, ResumeState(job.source))
    /\ pc' = IF job.delete THEN "verify" ELSE "remove state"
    /\ UNCHANGED job

Verify ==
    /\ pc = "verify"
    /\ pc' = IF disk[ArchivePath].kind = "archive" THEN "delete" ELSE "idle"
    /\ UNCHANGED <<disk, job>>

Delete ==
    /\ pc = "delete"
    /\ Put(job.source, Absent)
    /\ pc' = "remove state"
    /\ UNCHANGED job

RemoveState ==
    /\ pc = "remove state"
    /\ Put(StatePath, Absent)
    /\ pc' = "idle"
    /\ UNCHANGED job

Interrupt ==
    /\ pc # "idle"
    /\ pc' = "idle"
    /\ UNCHANGED <<disk, job>>

Next ==
    \/ Invoke \/ CheckExists \/ SaveStarted \/ Pack \/ SaveCompleted
    \/ Verify \/ Delete \/ RemoveState \/ Interrupt

Spec == Init /\ [][Next]_vars

-----------------------------------------------------------------------------

\* A file of the user changes only when it is the source of a command that has
\* verified its archive: ramz "verifies the result before ever touching your
\* original data" (README, introduction).
TouchedAfterVerify ==
    \A n \in Sources :
        disk[n] = UserData(n) /\ disk'[n] # disk[n] => pc = "delete" /\ n = job.source
OriginalsKept == [][TouchedAfterVerify]_vars
=============================================================================
