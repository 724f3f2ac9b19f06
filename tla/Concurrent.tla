----------------------------- MODULE Concurrent -----------------------------
(***************************************************************************)
(* Two `ramz pack` of the same source into the same directory at the same  *)
(* time: two processes of RamzPack over one disk.  Nothing in run() locks  *)
(* the source, the archive or the resume file.                             *)
(***************************************************************************)
EXTENDS Naturals, FiniteSets

CONSTANTS
    Docs, Wrecks, Hollow, Trees, Gone, SizeOf, ChecksumOf, Checksums,
    Passwords, NoPassword, EmptyPassword, Recipient,
    Backend, Options, Nested, LiveEdits, MaxFaults, MaxEdits

VARIABLES
    source, archive, state, want, faults, edits,
    pcA, optsA, totalA, sumA, snapA, loadedA, resultA,
    pcB, optsB, totalB, sumB, snapB, loadedB, resultB

A == INSTANCE RamzPack WITH
       pc <- pcA, opts <- optsA, total <- totalA, sum <- sumA, snap <- snapA,
       loaded <- loadedA, result <- resultA
B == INSTANCE RamzPack WITH
       pc <- pcB, opts <- optsB, total <- totalB, sum <- sumB, snap <- snapB,
       loaded <- loadedB, result <- resultB

localsA == <<pcA, optsA, totalA, sumA, snapA, loadedA, resultA>>
localsB == <<pcB, optsB, totalB, sumB, snapB, loadedB, resultB>>
vars == <<source, archive, state, want, faults, edits, localsA, localsB>>

Init == A!Init /\ B!Init

\* Steps that open the source and fail when there is none.  The checksum of no
\* source is the hash of nothing, and delete_path finds nothing to do.
NeedsSource(label) == label \in {"snapshot", "child"}

disk == <<source, archive, state, want, faults, edits>>

StepA ==
    /\ UNCHANGED localsB
    /\ \/ (source = Gone => ~NeedsSource(pcA)) /\ A!Next
       \/ /\ source = Gone /\ NeedsSource(pcA)
          /\ A!Return("error")
          /\ UNCHANGED <<disk, optsA, totalA, sumA, snapA, loadedA>>

StepB ==
    /\ UNCHANGED localsA
    /\ \/ (source = Gone => ~NeedsSource(pcB)) /\ B!Next
       \/ /\ source = Gone /\ NeedsSource(pcB)
          /\ B!Return("error")
          /\ UNCHANGED <<disk, optsB, totalB, sumB, snapB, loadedB>>

Next == StepA \/ StepB

Spec == Init /\ [][Next]_vars

-----------------------------------------------------------------------------

\* When both commands are over, and no fault and no edit interfered, the user's
\* content is in the source or in the archive: "Verify before delete ... No
\* verify, no delete" (README, Features).
NothingLostAtRest == pcA = "idle" /\ pcB = "idle" => A!NoDataLoss
=============================================================================
