--------------------------- MODULE RamzPackProofs ---------------------------
(***************************************************************************)
(* Theorems about RamzPack for every choice of its constants.              *)
(***************************************************************************)
EXTENDS RamzPack, TLAPS

(***************************************************************************)
(* Type correctness.  Inside an invocation two facts are needed beside it: *)
(* past the password check the key is one an archive can have, and past    *)
(* Target::detect the source is there until the deletion.                  *)
(***************************************************************************)
KeyIsGood == pc \notin {"idle", "detect", "password"} => PasswordAccepted(opts)

SourceIsThere ==
    pc \notin {"idle", "detect", "remove state"} => source \in Contents

TypeInv == TypeOK /\ KeyIsGood /\ SourceIsThere

LEMMA InitType == Init => TypeInv
  BY ContentAssumption, RunAssumption
  DEF Init, TypeInv, TypeOK, KeyIsGood, SourceIsThere, Contents, Archives, Absent,
      States, Labels, Results

LEMMA KeyType ==
  ASSUME opts \in Options, PasswordAccepted(opts)
  PROVE  Key(opts) \in Keys
  BY DEF PasswordAccepted, Key, Keys

LEMMA SavedType ==
  ASSUME total \in Nat, sum \in Checksums
  PROVE  StartedState \in States /\ CompletedState \in States
  BY DEF StartedState, CompletedState, Saved, States

LEMMA WholeType ==
  ASSUME NEW c \in Contents, NEW k \in Keys, NEW left \in SUBSET Contents
  PROVE  Whole(c, k, left) \in Archives
  BY DEF Whole, Archives

LEMMA LeftoversType ==
  ASSUME archive \in Archives
  PROVE  Leftovers \in SUBSET Contents
  BY DEF Leftovers, Archives, Absent, Partial, Corrupt

LEMMA CountBound ==
  ASSUME NEW m \in Nat, NEW n \in 0 .. m, n < m
  PROVE  n + 1 \in 0 .. m
  OBVIOUS

LEMMA NextType == TypeInv /\ [Next]_vars => TypeInv'
<1> SUFFICES ASSUME TypeInv, [Next]_vars
             PROVE  TypeInv'
  OBVIOUS
<1> USE DEF TypeInv, TypeOK, KeyIsGood, SourceIsThere
<1> USE DEF disk, locals, world, Goto, Return, Labels, Results
<1>1. CASE Invoke
  BY <1>1 DEF Invoke
<1>2. CASE DetectTarget
  BY <1>2, ContentAssumption DEF DetectTarget
<1>3. CASE ReadPassword
  BY <1>3 DEF ReadPassword
<1>4. CASE LoadState
  BY <1>4 DEF LoadState, States
<1>5. CASE CompareSource
  BY <1>5 DEF CompareSource
<1>6. CASE CheckExists
  BY <1>6 DEF CheckExists
<1>7. CASE TakeChecksum
  BY <1>7, ContentAssumption DEF TakeChecksum
<1>8. CASE TruncateState
  BY <1>8 DEF TruncateState, States
<1>9. CASE WriteStarted
  BY <1>9, SavedType DEF WriteStarted
<1>10. CASE AgeStart
  BY <1>10 DEF AgeStart
<1>11. CASE AgeSnapshot
  BY <1>11 DEF AgeSnapshot
<1>12. CASE AgeCreate
  BY <1>12 DEF AgeCreate, Archives
<1>13. CASE AgeFill
  BY <1>13, KeyType, WholeType DEF AgeFill, Encrypted
<1>14. CASE SevenZSpawn
  BY <1>14 DEF SevenZSpawn, Archives
<1>15. CASE SevenZDone
  BY <1>15, KeyType, WholeType, LeftoversType DEF SevenZDone
<1>16. CASE WriteCompleted
  BY <1>16, SavedType DEF WriteCompleted
<1>17. CASE VerifyArchive
  BY <1>17 DEF VerifyArchive
<1>18. CASE BeginDelete
  BY <1>18 DEF BeginDelete, Contents, States, Archives
<1>19. CASE FinishDelete
  BY <1>19 DEF FinishDelete, States, Archives
<1>20. CASE RemoveState
  BY <1>20 DEF RemoveState, States
<1>21. CASE Interrupt
  <2>1. faults' \in 0 .. MaxFaults /\ edits' \in 0 .. MaxEdits
    BY <1>21, CountBound, RunAssumption DEF Interrupt
  <2> QED
    BY <1>21, <2>1 DEF Interrupt
<1>22. CASE SilentFault
  <2>1. faults' \in 0 .. MaxFaults /\ edits' \in 0 .. MaxEdits
    BY <1>22, CountBound, RunAssumption DEF SilentFault
  <2> QED
    BY <1>22, <2>1 DEF SilentFault, Archives
<1>23. CASE EditSource
  <2>1. edits' \in 0 .. MaxEdits /\ faults' \in 0 .. MaxFaults
    BY <1>23, CountBound, RunAssumption DEF EditSource
  <2> QED
    BY <1>23, <2>1 DEF EditSource, Contents
<1>24. CASE RemoveArchive
  <2>1. edits' \in 0 .. MaxEdits /\ faults' \in 0 .. MaxFaults
    BY <1>24, CountBound, RunAssumption DEF RemoveArchive
  <2> QED
    BY <1>24, <2>1 DEF RemoveArchive, Archives
<1>25. CASE UNCHANGED vars
  BY <1>25 DEF vars, PasswordAccepted
<1> QED
  BY <1>1, <1>2, <1>3, <1>4, <1>5, <1>6, <1>7, <1>8, <1>9, <1>10, <1>11, <1>12,
     <1>13, <1>14, <1>15, <1>16, <1>17, <1>18, <1>19, <1>20, <1>21, <1>22, <1>23,
     <1>24, <1>25 DEF Next, Step

\* The variables keep their types, for every set of command lines, contents
\* and checksums.
THEOREM TypeCorrect == Spec => []TypeOK
<1>1. Init => TypeInv
  BY InitType
<1>2. TypeInv /\ [Next]_vars => TypeInv'
  BY NextType
<1>3. TypeInv => TypeOK
  BY DEF TypeInv
<1> QED
  BY <1>1, <1>2, <1>3, PTL DEF Spec

(***************************************************************************)
(* What the files are at each step, whatever the options, the edits and    *)
(* the interruptions: the resume file says "started" from before the       *)
(* archive is touched until after it is written, and the archive is the    *)
(* one this invocation wrote until it returns.                             *)
(***************************************************************************)
Packing == {"pack", "snapshot", "create", "fill", "child", "save completed"}
Packed ==
    {"save completed", "write completed", "verify", "delete", "deleting",
     "remove state"}

StateFollows ==
    /\ pc \in Packing => state = StartedState
    /\ pc \in {"write started", "write completed"} => state = Torn
    /\ pc \in {"verify", "delete", "deleting", "remove state"} =>
           state = CompletedState

ArchiveFollows ==
    /\ pc = "fill" => archive = Partial
    /\ pc = "child" => archive.kind \in {"partial", "whole"}
    /\ pc \in {"snapshot", "create"} /\ ~opts.force => archive = Absent
    /\ pc \in Packed => archive.kind \in {"corrupt", "whole"}
    /\ pc \in Packed /\ archive.kind = "whole" =>
           archive.holds = snap /\ archive.key = Key(opts)
    /\ pc \in {"delete", "deleting"} => archive.kind = "whole"
    /\ pc \in {"snapshot", "create", "fill"} => Backend = "age"
    /\ pc = "child" => Backend = "7z"

\* The output directory is not inside the source.
Apart == ~Nested

FileInv == StateFollows /\ ArchiveFollows

LEMMA InitFiles == Init => FileInv
  BY DEF Init, FileInv, StateFollows, ArchiveFollows, Packing, Packed

LEMMA NextFiles ==
  ASSUME Apart
  PROVE  TypeInv /\ FileInv /\ [Next]_vars => FileInv'
<1> SUFFICES ASSUME TypeInv, FileInv, [Next]_vars
             PROVE  FileInv'
  OBVIOUS
<1> USE DEF TypeInv, TypeOK, FileInv, StateFollows, ArchiveFollows, Packing, Packed
<1> USE DEF disk, locals, world, Goto, Return, StartedState, CompletedState, Saved,
        Key, Torn, Partial, Absent, Corrupt, Whole
<1>1. CASE Invoke
  BY <1>1 DEF Invoke
<1>2. CASE DetectTarget
  BY <1>2 DEF DetectTarget
<1>3. CASE ReadPassword
  BY <1>3 DEF ReadPassword
<1>4. CASE LoadState
  BY <1>4 DEF LoadState
<1>5. CASE CompareSource
  BY <1>5 DEF CompareSource, SourceChanged
<1>6. CASE CheckExists
  BY <1>6 DEF CheckExists
<1>7. CASE TakeChecksum
  BY <1>7 DEF TakeChecksum
<1>8. CASE TruncateState
  BY <1>8 DEF TruncateState
<1>9. CASE WriteStarted
  BY <1>9 DEF WriteStarted
<1>10. CASE AgeStart
  BY <1>10 DEF AgeStart, BackendRefuses, Exists, Archives
<1>11. CASE AgeSnapshot
  BY <1>11 DEF AgeSnapshot
<1>12. CASE AgeCreate
  BY <1>12 DEF AgeCreate
<1>13. CASE AgeFill
  BY <1>13 DEF AgeFill, Encrypted
<1>14. CASE SevenZSpawn
  <2>1. CASE pc' = "idle"
    BY <1>14, <2>1 DEF SevenZSpawn
  <2>2. CASE pc' = "child"
    <3>1. archive'.kind \in {"partial", "whole"}
      BY <1>14, <2>2 DEF SevenZSpawn, Exists, Opens
    <3> QED
      BY <1>14, <2>2, <3>1 DEF SevenZSpawn
  <2> QED
    BY <1>14, <2>1, <2>2 DEF SevenZSpawn
<1>15. CASE SevenZDone
  BY <1>15 DEF SevenZDone
<1>16. CASE WriteCompleted
  BY <1>16 DEF WriteCompleted
<1>17. CASE VerifyArchive
  BY <1>17 DEF VerifyArchive, VerifyPasses, Opens
<1>18. CASE BeginDelete
  BY <1>18 DEF BeginDelete, WithSource, Apart
<1>19. CASE FinishDelete
  BY <1>19 DEF FinishDelete, WithSource, Apart
<1>20. CASE RemoveState
  BY <1>20 DEF RemoveState
<1>21. CASE Interrupt
  BY <1>21 DEF Interrupt
<1>22. CASE SilentFault
  BY <1>22 DEF SilentFault
<1>23. CASE EditSource
  BY <1>23 DEF EditSource
<1>24. CASE RemoveArchive
  BY <1>24 DEF RemoveArchive
<1>25. CASE UNCHANGED vars
  BY <1>25 DEF vars
<1> QED
  BY <1>1, <1>2, <1>3, <1>4, <1>5, <1>6, <1>7, <1>8, <1>9, <1>10, <1>11, <1>12,
     <1>13, <1>14, <1>15, <1>16, <1>17, <1>18, <1>19, <1>20, <1>21, <1>22, <1>23,
     <1>24, <1>25 DEF Next, Step

LEMMA EditsCount ==
  ASSUME TypeOK, EditSource \/ RemoveArchive
  PROVE  edits' # edits
<1>1. edits \in Nat
  BY RunAssumption DEF TypeOK
<1>2. edits' = edits + 1
  BY DEF EditSource, RemoveArchive
<1> QED
  BY <1>1, <1>2

LEMMA AlwaysFiles ==
  ASSUME Apart
  PROVE  Spec => [](TypeInv /\ FileInv)
<1>1. Init => TypeInv /\ FileInv
  BY InitType, InitFiles
<1>2. TypeInv /\ FileInv /\ [Next]_vars => (TypeInv /\ FileInv)'
  BY NextType, NextFiles
<1> QED
  BY <1>1, <1>2, PTL DEF Spec

\* The age backend writes over no archive it was not forced to, in any
\* sequence of interrupted, resumed and concurrent-with-edits invocations.
THEOREM ArchiveIsKept ==
  ASSUME Apart, Backend = "age"
  PROVE  Spec => NoClobber
<1>1. TypeInv /\ FileInv /\ [Next]_vars => [ArchiveKept]_vars
  <2> SUFFICES ASSUME TypeInv, FileInv, [Next]_vars, UNCHANGED edits, archive' # archive,
                      Exists(archive), ~opts.force, pc # "fill"
               PROVE  FALSE
    BY DEF ArchiveKept
  <2> USE DEF TypeInv, TypeOK, FileInv, ArchiveFollows, disk, Exists, Absent
  <2>1. CASE AgeCreate
    BY <2>1 DEF AgeCreate
  <2>2. CASE AgeFill \/ SevenZSpawn \/ SevenZDone
    BY <2>2 DEF AgeFill, Encrypted, SevenZSpawn, SevenZDone
  <2>3. CASE SilentFault
    BY <2>3 DEF SilentFault
  <2>4. CASE EditSource \/ RemoveArchive
    BY <2>4, EditsCount
  <2>5. CASE Invoke \/ DetectTarget \/ ReadPassword \/ LoadState \/ CompareSource
               \/ CheckExists \/ TakeChecksum \/ AgeStart \/ AgeSnapshot
               \/ VerifyArchive \/ Interrupt
    BY <2>5 DEF Invoke, DetectTarget, ReadPassword, LoadState, CompareSource,
         CheckExists, TakeChecksum, AgeStart, AgeSnapshot, VerifyArchive, Interrupt
  <2>6. CASE TruncateState \/ WriteStarted \/ WriteCompleted \/ BeginDelete
               \/ FinishDelete \/ RemoveState \/ UNCHANGED vars
    BY <2>6 DEF TruncateState, WriteStarted, WriteCompleted, BeginDelete,
         FinishDelete, RemoveState, vars, WithSource, Apart
  <2> QED
    BY <2>1, <2>2, <2>3, <2>4, <2>5, <2>6 DEF Next, Step
<1> QED
  BY <1>1, AlwaysFiles, PTL DEF Spec, NoClobber

\* The command changes the source only under a verified archive, in any
\* sequence of invocations, forced or not, and under any edits.
THEOREM SourceIsYielded ==
  ASSUME Apart
  PROVE  Spec => SourceYieldsToArchive
<1>1. TypeInv /\ FileInv /\ [Next]_vars => [SourceYields]_vars
  <2> SUFFICES ASSUME TypeInv, FileInv, [Next]_vars, UNCHANGED edits, source' # source
               PROVE  Opens(archive, Key(opts)) /\ Holds(archive, snap)
    BY DEF SourceYields
  <2> USE DEF TypeInv, TypeOK, FileInv, ArchiveFollows, Packed, disk
  <2>1. CASE BeginDelete \/ FinishDelete
    <3>1. pc \in {"delete", "deleting"}
      BY <2>1 DEF BeginDelete, FinishDelete
    <3> QED
      BY <3>1 DEF Opens, Holds
  <2>2. CASE EditSource \/ RemoveArchive
    BY <2>2, EditsCount
  <2>3. CASE Invoke \/ DetectTarget \/ ReadPassword \/ LoadState \/ CompareSource
               \/ CheckExists \/ TakeChecksum \/ AgeStart \/ AgeSnapshot
               \/ VerifyArchive \/ Interrupt
    BY <2>3 DEF Invoke, DetectTarget, ReadPassword, LoadState, CompareSource,
         CheckExists, TakeChecksum, AgeStart, AgeSnapshot, VerifyArchive, Interrupt
  <2>4. CASE TruncateState \/ WriteStarted \/ WriteCompleted \/ AgeCreate \/ AgeFill
               \/ SevenZSpawn \/ SevenZDone \/ RemoveState \/ SilentFault
               \/ UNCHANGED vars
    BY <2>4 DEF TruncateState, WriteStarted, WriteCompleted, AgeCreate, AgeFill, Encrypted,
         SevenZSpawn, SevenZDone, RemoveState, SilentFault, vars
  <2> QED
    BY <2>1, <2>2, <2>3, <2>4 DEF Next, Step
<1> QED
  BY <1>1, AlwaysFiles, PTL DEF Spec, SourceYieldsToArchive

(***************************************************************************)
(* The resume file tells an interrupted pack from a finished one, if no    *)
(* source has size zero (resume_empty_file.cfg: what happens if one has).  *)
(***************************************************************************)
NoEmptySource == \A c \in Contents \ Hollow : SizeOf[c] > 0

MarkInv ==
    /\ pc \notin {"idle", "detect"} => total > 0
    /\ PartialIsMarked

LEMMA StartedIsUnfinished ==
  ASSUME NEW s, NEW n \in Nat, n > 0, s.kind = "saved", s.processed = 0, s.total = n
  PROVE  ~Finished(s)
  BY DEF Finished

LEMMA InitMark == Init => MarkInv
  BY DEF Init, MarkInv, PartialIsMarked, Absent, Partial

LEMMA NextMark ==
  ASSUME Apart, NoEmptySource
  PROVE  TypeInv /\ FileInv /\ MarkInv /\ [Next]_vars => MarkInv'
<1> SUFFICES ASSUME TypeInv, FileInv, MarkInv, [Next]_vars
             PROVE  MarkInv'
  OBVIOUS
<1> USE DEF TypeInv, TypeOK, FileInv, StateFollows, ArchiveFollows, MarkInv,
        PartialIsMarked, Packing, Packed, Finished, Exists
<1> USE DEF disk, locals, world, Goto, Return, StartedState, CompletedState, Saved,
        Torn, Partial, Absent, Corrupt, Whole
<1>1. CASE Invoke
  BY <1>1 DEF Invoke
<1>2. CASE DetectTarget
  BY <1>2, ContentAssumption DEF DetectTarget, NoEmptySource
<1>3. CASE ReadPassword
  BY <1>3 DEF ReadPassword
<1>4. CASE LoadState
  BY <1>4 DEF LoadState
<1>5. CASE CompareSource
  BY <1>5 DEF CompareSource, SourceChanged
<1>6. CASE CheckExists
  BY <1>6 DEF CheckExists
<1>7. CASE TakeChecksum
  BY <1>7 DEF TakeChecksum
<1>8. CASE TruncateState
  BY <1>8 DEF TruncateState
<1>9. CASE WriteStarted
  <2>1. state'.kind = "saved" /\ state'.processed = 0 /\ state'.total = total
    BY <1>9 DEF WriteStarted
  <2>2. total > 0 /\ total' = total /\ pc' = "pack" /\ total \in Nat
    BY <1>9 DEF WriteStarted
  <2>3. ~Finished(state')
    BY ONLY <2>1, <2>2 DEF Finished
  <2>4. Exists(state')
    BY <2>1
  <2>5. PartialIsMarked'
    BY <2>3, <2>4
  <2> QED
    BY <2>2, <2>5
<1>10. CASE AgeStart
  BY <1>10 DEF AgeStart
<1>11. CASE AgeSnapshot
  BY <1>11 DEF AgeSnapshot
<1>12. CASE AgeCreate
  BY <1>12 DEF AgeCreate
<1>13. CASE AgeFill
  BY <1>13 DEF AgeFill, Encrypted
<1>14. CASE SevenZSpawn
  BY <1>14 DEF SevenZSpawn
<1>15. CASE SevenZDone
  BY <1>15 DEF SevenZDone
<1>16. CASE WriteCompleted
  <2>1. archive'.kind \in {"corrupt", "whole"}
    BY <1>16 DEF WriteCompleted
  <2>2. total > 0 /\ total' = total
    BY <1>16 DEF WriteCompleted
  <2>3. archive' # Partial
    BY ONLY <2>1 DEF Partial
  <2> QED
    BY <2>2, <2>3
<1>17. CASE VerifyArchive
  BY <1>17 DEF VerifyArchive
<1>18. CASE BeginDelete
  BY <1>18 DEF BeginDelete, WithSource, Apart
<1>19. CASE FinishDelete
  BY <1>19 DEF FinishDelete, WithSource, Apart
<1>20. CASE RemoveState
  <2>1. archive'.kind \in {"corrupt", "whole"} /\ pc' = "idle"
    BY <1>20 DEF RemoveState
  <2>2. archive' # Partial
    BY ONLY <2>1 DEF Partial
  <2> QED
    BY <2>1, <2>2
<1>21. CASE Interrupt
  BY <1>21 DEF Interrupt
<1>22. CASE SilentFault
  BY <1>22 DEF SilentFault
<1>23. CASE EditSource
  BY <1>23 DEF EditSource
<1>24. CASE RemoveArchive
  BY <1>24 DEF RemoveArchive
<1>25. CASE UNCHANGED vars
  BY <1>25 DEF vars
<1> QED
  BY <1>1, <1>2, <1>3, <1>4, <1>5, <1>6, <1>7, <1>8, <1>9, <1>10, <1>11, <1>12,
     <1>13, <1>14, <1>15, <1>16, <1>17, <1>18, <1>19, <1>20, <1>21, <1>22, <1>23,
     <1>24, <1>25 DEF Next, Step

\* An archive left half-written is always marked as unfinished by its resume
\* file, under every interruption, edit and option.
THEOREM PartialMarked ==
  ASSUME Apart, NoEmptySource
  PROVE  Spec => []PartialIsMarked
<1>1. Init => MarkInv
  BY InitMark
<1>2. TypeInv /\ FileInv /\ MarkInv /\ [Next]_vars => MarkInv'
  BY NextMark
<1>3. MarkInv => PartialIsMarked
  BY DEF MarkInv
<1> QED
  BY <1>1, <1>2, <1>3, AlwaysFiles, PTL DEF Spec

(***************************************************************************)
(* From here on the source is not edited while the command runs: what was  *)
(* checksummed is then what was read, and what is still there to delete.   *)
(***************************************************************************)
Quiet == ~LiveEdits

SumInv ==
    /\ pc \in {"save started", "write started", "pack", "snapshot", "create", "child"} =>
           sum = ChecksumOf[source]
    /\ pc \in {"create", "fill"} \cup Packed => ChecksumOf[snap] = sum
    /\ pc \in {"create", "fill", "save completed", "write completed", "verify", "delete"} =>
           snap = source

LEMMA InitSum == Init => SumInv
  BY DEF Init, SumInv, Packed

LEMMA NextSum ==
  ASSUME Apart, Quiet
  PROVE  SumInv /\ [Next]_vars => SumInv'
<1> SUFFICES ASSUME SumInv, [Next]_vars
             PROVE  SumInv'
  OBVIOUS
<1> USE DEF SumInv, Packed, Quiet, disk, locals, world, Goto, Return
<1>1. CASE Invoke
  BY <1>1 DEF Invoke
<1>2. CASE DetectTarget
  BY <1>2 DEF DetectTarget
<1>3. CASE ReadPassword
  BY <1>3 DEF ReadPassword
<1>4. CASE LoadState
  BY <1>4 DEF LoadState
<1>5. CASE CompareSource
  BY <1>5 DEF CompareSource, SourceChanged
<1>6. CASE CheckExists
  BY <1>6 DEF CheckExists
<1>7. CASE TakeChecksum
  BY <1>7 DEF TakeChecksum
<1>8. CASE TruncateState
  BY <1>8 DEF TruncateState
<1>9. CASE WriteStarted
  BY <1>9 DEF WriteStarted
<1>10. CASE AgeStart
  BY <1>10 DEF AgeStart
<1>11. CASE AgeSnapshot
  BY <1>11 DEF AgeSnapshot
<1>12. CASE AgeCreate
  BY <1>12 DEF AgeCreate
<1>13. CASE AgeFill
  BY <1>13 DEF AgeFill, Encrypted
<1>14. CASE SevenZSpawn
  BY <1>14 DEF SevenZSpawn
<1>15. CASE SevenZDone
  BY <1>15 DEF SevenZDone
<1>16. CASE WriteCompleted
  BY <1>16 DEF WriteCompleted
<1>17. CASE VerifyArchive
  BY <1>17 DEF VerifyArchive
<1>18. CASE BeginDelete
  BY <1>18 DEF BeginDelete, WithSource, Apart
<1>19. CASE FinishDelete
  BY <1>19 DEF FinishDelete, WithSource, Apart
<1>20. CASE RemoveState
  BY <1>20 DEF RemoveState
<1>21. CASE Interrupt
  BY <1>21 DEF Interrupt
<1>22. CASE SilentFault
  BY <1>22 DEF SilentFault
<1>23. CASE EditSource
  BY <1>23 DEF EditSource
<1>24. CASE RemoveArchive
  BY <1>24 DEF RemoveArchive
<1>25. CASE UNCHANGED vars
  BY <1>25 DEF vars
<1> QED
  BY <1>1, <1>2, <1>3, <1>4, <1>5, <1>6, <1>7, <1>8, <1>9, <1>10, <1>11, <1>12,
     <1>13, <1>14, <1>15, <1>16, <1>17, <1>18, <1>19, <1>20, <1>21, <1>22, <1>23,
     <1>24, <1>25 DEF Next, Step

LEMMA AlwaysSum ==
  ASSUME Apart, Quiet
  PROVE  Spec => [](TypeInv /\ FileInv /\ SumInv)
<1>1. Init => SumInv
  BY InitSum
<1>2. SumInv /\ [Next]_vars => SumInv'
  BY NextSum
<1> QED
  BY <1>1, <1>2, AlwaysFiles, PTL DEF Spec

(***************************************************************************)
(* "Archive already complete" is true when it is said.                     *)
(***************************************************************************)
HonestInv ==
    /\ Finished(state) /\ archive.kind = "whole" =>
           ChecksumOf[archive.holds] = state.sum
    /\ pc = "compare" => loaded = state
    /\ result = "complete" =>
           pc = "idle" /\ loaded = state /\ Finished(state) /\ Exists(archive)

LEMMA InitHonest == Init => HonestInv
  BY DEF Init, HonestInv, Finished, Absent

LEMMA NextHonest ==
  ASSUME Apart, NoEmptySource, Quiet
  PROVE  TypeInv /\ FileInv /\ SumInv /\ MarkInv /\ HonestInv /\ [Next]_vars => HonestInv'
<1> SUFFICES ASSUME TypeInv, FileInv, SumInv, MarkInv, HonestInv, [Next]_vars
             PROVE  HonestInv'
  OBVIOUS
<1> USE DEF TypeInv, TypeOK, FileInv, StateFollows, ArchiveFollows, SumInv, MarkInv,
        HonestInv, Packing, Packed, Finished, Exists
<1> USE DEF disk, locals, world, Goto, Return, StartedState, CompletedState, Saved,
        Torn, Partial, Absent, Corrupt, Whole
<1>1. CASE Invoke
  BY <1>1 DEF Invoke
<1>2. CASE DetectTarget
  BY <1>2 DEF DetectTarget
<1>3. CASE ReadPassword
  BY <1>3 DEF ReadPassword
<1>4. CASE LoadState
  BY <1>4 DEF LoadState
<1>5. CASE CompareSource
  BY <1>5 DEF CompareSource, AlreadyComplete, SourceChanged
<1>6. CASE CheckExists
  BY <1>6 DEF CheckExists
<1>7. CASE TakeChecksum
  BY <1>7 DEF TakeChecksum
<1>8. CASE TruncateState
  BY <1>8 DEF TruncateState
<1>9. CASE WriteStarted
  <2>1. state'.kind = "saved" /\ state'.processed = 0 /\ state'.total = total
    BY <1>9 DEF WriteStarted
  <2>2. ~Finished(state')
    BY <2>1, <1>9, StartedIsUnfinished DEF WriteStarted
  <2>3. pc' = "pack" /\ result' = result /\ result # "complete"
    BY <1>9 DEF WriteStarted
  <2> QED
    BY ONLY <2>2, <2>3 DEF HonestInv
<1>10. CASE AgeStart
  BY <1>10 DEF AgeStart
<1>11. CASE AgeSnapshot
  BY <1>11 DEF AgeSnapshot
<1>12. CASE AgeCreate
  BY <1>12 DEF AgeCreate
<1>13. CASE AgeFill
  <2>1. state'.kind = "saved" /\ state'.processed = 0 /\ state'.total = total
    <3>1. state' = state /\ pc \in Packing
      BY <1>13 DEF AgeFill, Encrypted
    <3>2. state = StartedState
      BY ONLY <3>1, FileInv DEF FileInv, StateFollows
    <3> QED
      BY ONLY <3>1, <3>2 DEF StartedState, Saved
  <2>2. ~Finished(state')
    BY <2>1, <1>13, StartedIsUnfinished DEF AgeFill, Encrypted
  <2>3. pc' = "save completed" /\ result' = result /\ result # "complete"
    BY <1>13 DEF AgeFill, Encrypted
  <2> QED
    BY ONLY <2>2, <2>3 DEF HonestInv
<1>14. CASE SevenZSpawn
  BY <1>14 DEF SevenZSpawn
<1>15. CASE SevenZDone
  <2>1. state'.kind = "saved" /\ state'.processed = 0 /\ state'.total = total
    <3>1. state' = state /\ pc \in Packing
      BY <1>15 DEF SevenZDone
    <3>2. state = StartedState
      BY ONLY <3>1, FileInv DEF FileInv, StateFollows
    <3> QED
      BY ONLY <3>1, <3>2 DEF StartedState, Saved
  <2>2. ~Finished(state')
    BY <2>1, <1>15, StartedIsUnfinished DEF SevenZDone
  <2>3. pc' = "save completed" /\ result' = result /\ result # "complete"
    BY <1>15 DEF SevenZDone
  <2> QED
    BY ONLY <2>2, <2>3 DEF HonestInv
<1>16. CASE WriteCompleted
  BY <1>16 DEF WriteCompleted
<1>17. CASE VerifyArchive
  BY <1>17 DEF VerifyArchive
<1>18. CASE BeginDelete
  BY <1>18 DEF BeginDelete, WithSource, Apart
<1>19. CASE FinishDelete
  BY <1>19 DEF FinishDelete, WithSource, Apart
<1>20. CASE RemoveState
  BY <1>20 DEF RemoveState
<1>21. CASE Interrupt
  BY <1>21 DEF Interrupt
<1>22. CASE SilentFault
  BY <1>22 DEF SilentFault
<1>23. CASE EditSource
  BY <1>23 DEF EditSource
<1>24. CASE RemoveArchive
  BY <1>24 DEF RemoveArchive
<1>25. CASE UNCHANGED vars
  BY <1>25 DEF vars
<1> QED
  BY <1>1, <1>2, <1>3, <1>4, <1>5, <1>6, <1>7, <1>8, <1>9, <1>10, <1>11, <1>12,
     <1>13, <1>14, <1>15, <1>16, <1>17, <1>18, <1>19, <1>20, <1>21, <1>22, <1>23,
     <1>24, <1>25 DEF Next, Step

\* --resume reports an archive complete only if it was written to the end and,
\* if it reads back, holds something with the checksum of the source.
THEOREM ResumeHonest ==
  ASSUME Apart, NoEmptySource, Quiet
  PROVE  Spec => []ResumeIsHonest
<1>1. Init => MarkInv /\ HonestInv
  BY InitMark, InitHonest
<1>2. TypeInv /\ FileInv /\ SumInv /\ MarkInv /\ HonestInv /\ [Next]_vars
        => (MarkInv /\ HonestInv)'
  BY NextMark, NextHonest
<1>3. TypeInv /\ MarkInv /\ HonestInv => ResumeIsHonest
  BY DEF TypeInv, TypeOK, MarkInv, PartialIsMarked, HonestInv, ResumeIsHonest,
     Archives, Absent, Partial, Corrupt, Exists
<1> QED
  BY <1>1, <1>2, <1>3, AlwaysSum, PTL DEF Spec

(***************************************************************************)
(* A successful pack --delete-source moved the source into the archive.    *)
(***************************************************************************)
MoveInv ==
    /\ pc = "remove state" /\ opts.delete => source = Gone /\ archive.kind = "whole"
    /\ result = "created" => pc = "idle"
    /\ MoveIsComplete

LEMMA InitMove == Init => MoveInv
  BY DEF Init, MoveInv, MoveIsComplete

LEMMA NextMove ==
  ASSUME Apart, Quiet
  PROVE  TypeInv /\ FileInv /\ SumInv /\ MoveInv /\ [Next]_vars => MoveInv'
<1> SUFFICES ASSUME TypeInv, FileInv, SumInv, MoveInv, [Next]_vars
             PROVE  MoveInv'
  OBVIOUS
<1> USE DEF TypeInv, TypeOK, FileInv, ArchiveFollows, SumInv, MoveInv, MoveIsComplete,
        Packed, Opens, Holds, Quiet
<1> USE DEF disk, locals, world, Goto, Return, Key
<1>1. CASE Invoke
  BY <1>1 DEF Invoke
<1>2. CASE DetectTarget
  BY <1>2 DEF DetectTarget
<1>3. CASE ReadPassword
  BY <1>3 DEF ReadPassword
<1>4. CASE LoadState
  BY <1>4 DEF LoadState
<1>5. CASE CompareSource
  BY <1>5 DEF CompareSource, SourceChanged
<1>6. CASE CheckExists
  BY <1>6 DEF CheckExists
<1>7. CASE TakeChecksum
  BY <1>7 DEF TakeChecksum
<1>8. CASE TruncateState
  BY <1>8 DEF TruncateState
<1>9. CASE WriteStarted
  BY <1>9 DEF WriteStarted
<1>10. CASE AgeStart
  BY <1>10 DEF AgeStart
<1>11. CASE AgeSnapshot
  BY <1>11 DEF AgeSnapshot
<1>12. CASE AgeCreate
  BY <1>12 DEF AgeCreate
<1>13. CASE AgeFill
  BY <1>13 DEF AgeFill, Encrypted
<1>14. CASE SevenZSpawn
  BY <1>14 DEF SevenZSpawn
<1>15. CASE SevenZDone
  BY <1>15 DEF SevenZDone
<1>16. CASE WriteCompleted
  BY <1>16 DEF WriteCompleted
<1>17. CASE VerifyArchive
  BY <1>17 DEF VerifyArchive
<1>18. CASE BeginDelete
  BY <1>18 DEF BeginDelete, WithSource, Apart
<1>19. CASE FinishDelete
  BY <1>19 DEF FinishDelete, WithSource, Apart
<1>20. CASE RemoveState
  BY <1>20 DEF RemoveState
<1>21. CASE Interrupt
  BY <1>21 DEF Interrupt
<1>22. CASE SilentFault
  BY <1>22 DEF SilentFault
<1>23. CASE EditSource
  BY <1>23 DEF EditSource
<1>24. CASE RemoveArchive
  BY <1>24 DEF RemoveArchive
<1>25. CASE UNCHANGED vars
  BY <1>25 DEF vars
<1> QED
  BY <1>1, <1>2, <1>3, <1>4, <1>5, <1>6, <1>7, <1>8, <1>9, <1>10, <1>11, <1>12,
     <1>13, <1>14, <1>15, <1>16, <1>17, <1>18, <1>19, <1>20, <1>21, <1>22, <1>23,
     <1>24, <1>25 DEF Next, Step

\* A pack with --delete-source that reports success left nothing but an
\* archive that opens with the user's key and holds what was checksummed.
THEOREM MoveCompletes ==
  ASSUME Apart, Quiet
  PROVE  Spec => []MoveIsComplete
<1>1. Init => MoveInv
  BY InitMove
<1>2. TypeInv /\ FileInv /\ SumInv /\ MoveInv /\ [Next]_vars => MoveInv'
  BY NextMove
<1>3. MoveInv => MoveIsComplete
  BY DEF MoveInv
<1> QED
  BY <1>1, <1>2, <1>3, AlwaysSum, PTL DEF Spec

(***************************************************************************)
(* No data loss.  NoDataLoss is not inductive: after a deletion died half- *)
(* way the next command could pack the wreck over the archive.  It cannot, *)
(* because the wreck has a finished resume file (--resume then compares    *)
(* checksums, and ends either way) and an archive (so that without         *)
(* --resume the existence check ends it).                                  *)
(***************************************************************************)
NoForce == \A o \in Options : ~o.force

\* The labels at which the source may be a wreck or gone.
MayBeGone ==
    {"idle", "detect", "password", "load", "compare", "exists", "deleting",
     "remove state"}

CustodyInv ==
    /\ source \in Docs => source = want
    /\ source \notin Docs => Holds(archive, want)
    /\ WreckIsMarked
    /\ source \notin Docs => pc \in MayBeGone
    /\ source \notin Docs /\ pc = "exists" => ~opts.resume
    /\ source \in Wrecks => pc # "remove state"
    /\ pc = "deleting" => source \in Wrecks
    /\ pc = "compare" => loaded = state

LEMMA InitCustody == Init => CustodyInv
  BY ContentAssumption DEF Init, CustodyInv, WreckIsMarked

LEMMA NextCustody ==
  ASSUME Apart, Quiet, NoForce
  PROVE  TypeInv /\ FileInv /\ SumInv /\ CustodyInv /\ [Next]_vars => CustodyInv'
<1> SUFFICES ASSUME TypeInv, FileInv, SumInv, CustodyInv, [Next]_vars
             PROVE  CustodyInv'
  OBVIOUS
<1> USE ContentAssumption
<1> USE DEF TypeInv, TypeOK, FileInv, StateFollows, ArchiveFollows, SumInv, CustodyInv,
        SourceIsThere, WreckIsMarked, MayBeGone, Packing, Packed, Quiet, NoForce,
        Contents
<1> USE DEF disk, locals, world, Goto, Return, Holds, Finished, Exists
<1>1. CASE Invoke
  BY <1>1 DEF Invoke
<1>2. CASE DetectTarget
  BY <1>2 DEF DetectTarget
<1>3. CASE ReadPassword
  BY <1>3 DEF ReadPassword
<1>4. CASE LoadState
  <2>1. UNCHANGED <<source, archive, state, opts, want>> /\ pc = "load"
    BY <1>4 DEF LoadState
  <2>2. source \in Contents
    BY <2>1
  <2>3. pc' = "compare" => loaded' = state
    BY <1>4 DEF LoadState, Absent
  <2>4. source \notin Docs /\ opts.resume => pc' # "exists"
    BY <1>4, <2>2 DEF LoadState
  <2>5. pc' \in {"idle", "compare", "exists"}
    BY <1>4 DEF LoadState
  <2> QED
    BY <2>1, <2>3, <2>4, <2>5
<1>5. CASE CompareSource
  <2>1. UNCHANGED <<source, archive, state, opts, want, loaded>> /\ pc = "compare"
    BY <1>5 DEF CompareSource, SourceChanged
  <2>2. source \notin Docs => Finished(loaded) /\ Exists(archive)
    BY <2>1
  <2>3. source \notin Docs => pc' = "idle"
    BY <1>5, <2>2 DEF CompareSource, AlreadyComplete, SourceChanged
  <2>4. pc' \in {"idle", "exists"}
    BY <1>5 DEF CompareSource, SourceChanged
  <2> QED
    BY <2>1, <2>3, <2>4
<1>6. CASE CheckExists
  BY <1>6 DEF CheckExists
<1>7. CASE TakeChecksum
  BY <1>7 DEF TakeChecksum
<1>8. CASE TruncateState
  BY <1>8 DEF TruncateState
<1>9. CASE WriteStarted
  BY <1>9 DEF WriteStarted
<1>10. CASE AgeStart
  BY <1>10 DEF AgeStart, BackendRefuses
<1>11. CASE AgeSnapshot
  BY <1>11 DEF AgeSnapshot
<1>12. CASE AgeCreate
  BY <1>12 DEF AgeCreate, Partial
<1>13. CASE AgeFill
  BY <1>13 DEF AgeFill, Encrypted
<1>14. CASE SevenZSpawn
  BY <1>14 DEF SevenZSpawn
<1>15. CASE SevenZDone
  BY <1>15 DEF SevenZDone
<1>16. CASE WriteCompleted
  BY <1>16 DEF WriteCompleted, CompletedState, Saved
<1>17. CASE VerifyArchive
  BY <1>17 DEF VerifyArchive
<1>18. CASE BeginDelete
  BY <1>18 DEF BeginDelete, WithSource, Apart, CompletedState, Saved
<1>19. CASE FinishDelete
  BY <1>19 DEF FinishDelete, WithSource, Apart
<1>20. CASE RemoveState
  BY <1>20 DEF RemoveState, Absent
<1>21. CASE Interrupt
  BY <1>21 DEF Interrupt
<1>22. CASE SilentFault
  BY <1>22 DEF SilentFault
<1>23. CASE EditSource
  BY <1>23 DEF EditSource
<1>24. CASE RemoveArchive
  BY <1>24 DEF RemoveArchive
<1>25. CASE UNCHANGED vars
  BY <1>25 DEF vars
<1> QED
  BY <1>1, <1>2, <1>3, <1>4, <1>5, <1>6, <1>7, <1>8, <1>9, <1>10, <1>11, <1>12,
     <1>13, <1>14, <1>15, <1>16, <1>17, <1>18, <1>19, <1>20, <1>21, <1>22, <1>23,
     <1>24, <1>25 DEF Next, Step

LEMMA AlwaysCustody ==
  ASSUME Apart, Quiet, NoForce
  PROVE  Spec => [](TypeInv /\ FileInv /\ SumInv /\ CustodyInv)
<1>1. Init => CustodyInv
  BY InitCustody
<1>2. TypeInv /\ FileInv /\ SumInv /\ CustodyInv /\ [Next]_vars => CustodyInv'
  BY NextCustody
<1> QED
  BY <1>1, <1>2, AlwaysSum, PTL DEF Spec

\* Without --force, and with nobody editing a source that is being packed, the
\* user's content is in the source or in the archive after any number of
\* invocations, failures, kills and bad writes.
THEOREM NothingIsLost ==
  ASSUME Apart, Quiet, NoForce
  PROVE  Spec => []NoDataLoss
<1>1. CustodyInv => NoDataLoss
  BY DEF CustodyInv, NoDataLoss
<1> QED
  BY <1>1, AlwaysCustody, PTL

\* Under the same conditions a half-deleted source is one --resume recognises.
THEOREM WreckMarked ==
  ASSUME Apart, Quiet, NoForce
  PROVE  Spec => []WreckIsMarked
<1>1. CustodyInv => WreckIsMarked
  BY DEF CustodyInv
<1> QED
  BY <1>1, AlwaysCustody, PTL

LEMMA InitPromise == Init => Promise!Init
  BY ContentAssumption DEF Init, Promise!Init, Holds, Absent

LEMMA NextPromise ==
  ASSUME Apart, Quiet, NoForce
  PROVE  TypeInv /\ FileInv /\ SumInv /\ CustodyInv /\ CustodyInv' /\ [Next]_vars
           => [Promise!Next]_(Promise!vars)
<1> SUFFICES ASSUME TypeInv, FileInv, SumInv, CustodyInv, CustodyInv', [Next]_vars
             PROVE  [Promise!Next]_(Promise!vars)
  OBVIOUS
<1> DEFINE inSource == source = want
           inArchive == Holds(archive, want)
<1>1. CASE EditSource
  <2>1. want' \in Docs /\ inSource' = TRUE
    BY <1>1 DEF EditSource
  <2>2. inArchive' \in BOOLEAN
    BY DEF Holds
  <2> QED
    BY <2>1, <2>2 DEF Promise!Next, Promise!Write
<1>2. ASSUME UNCHANGED <<want, source>>, archive' = archive \/ source = want
      PROVE  [Promise!Next]_(Promise!vars)
  <2>1. CASE archive' = archive
    BY <1>2, <2>1 DEF Promise!vars
  <2>2. CASE source = want /\ Holds(archive, want)'
    BY <1>2, <2>2 DEF Promise!Next, Promise!Archive
  <2>3. CASE source = want /\ ~Holds(archive, want)'
    BY <1>2, <2>3 DEF Promise!Next, Promise!Discard
  <2> QED
    BY <1>2, <2>1, <2>2, <2>3
<1>3. CASE BeginDelete \/ FinishDelete
  <2>1. source' \notin Docs /\ UNCHANGED <<want, archive>>
    BY <1>3, ContentAssumption DEF BeginDelete, FinishDelete, disk, world,
       Contents, WithSource, Apart
  <2>2. ~(source = want)' /\ Holds(archive, want)
    BY <2>1 DEF TypeInv, TypeOK, CustodyInv, Holds
  <2> QED
    BY <2>1, <2>2 DEF Promise!Next, Promise!Release, Holds
<1>4. CASE AgeCreate \/ AgeFill \/ SevenZSpawn \/ SevenZDone \/ SilentFault
           \/ RemoveArchive
  <2>1. UNCHANGED <<want, source>>
    BY <1>4 DEF AgeCreate, AgeFill, Encrypted, SevenZSpawn, SevenZDone, SilentFault,
       RemoveArchive, disk, world
  <2>2. source = want
    BY <1>4 DEF AgeCreate, AgeFill, Encrypted, SevenZSpawn, SevenZDone, SilentFault,
       RemoveArchive, CustodyInv, MayBeGone
  <2> QED
    BY <1>2, <2>1, <2>2
<1>5. CASE Invoke \/ DetectTarget \/ ReadPassword \/ LoadState \/ CompareSource
           \/ CheckExists \/ TakeChecksum \/ AgeStart \/ AgeSnapshot \/ VerifyArchive
  BY <1>2, <1>5 DEF Invoke, DetectTarget, ReadPassword, LoadState, CompareSource,
     CheckExists, TakeChecksum, AgeStart, AgeSnapshot, VerifyArchive, disk, world
<1>6. CASE TruncateState \/ WriteStarted \/ WriteCompleted \/ RemoveState \/ Interrupt
           \/ UNCHANGED vars
  BY <1>2, <1>6 DEF TruncateState, WriteStarted, WriteCompleted, RemoveState,
     Interrupt, vars, disk, world
<1> QED
  BY <1>1, <1>3, <1>4, <1>5, <1>6 DEF Next, Step

\* The pack command implements custody of the user's content: every step of it
\* stores, releases or leaves alone, and releases only what is stored.
THEOREM PackKeepsPromise ==
  ASSUME Apart, Quiet, NoForce
  PROVE  Spec => KeepsPromise
<1>1. Init => Promise!Init
  BY InitPromise
<1>2. TypeInv /\ FileInv /\ SumInv /\ CustodyInv /\ CustodyInv' /\ [Next]_vars
        => [Promise!Next]_(Promise!vars)
  BY NextPromise
<1> QED
  BY <1>1, <1>2, AlwaysCustody, PTL DEF Spec, KeepsPromise, Promise!Spec
=============================================================================
