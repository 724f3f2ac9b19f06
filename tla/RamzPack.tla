------------------------------ MODULE RamzPack ------------------------------
(***************************************************************************)
(* `ramz pack SOURCE`, the only command that can destroy user data: the    *)
(* Pack arm of run() in cli/src/main.rs with everything it calls - the     *)
(* resume file (core/src/resume.rs), the age and 7z backends' pack and     *)
(* verify, and delete_path (core/src/secure_delete.rs).                    *)
(*                                                                         *)
(* One source path, one output directory and one backend are fixed, hence  *)
(* one archive path and one resume file beside it.  The user invokes the   *)
(* command any number of times with options from Options; between two      *)
(* steps that touch the disk it can fail (any `?`) or be killed, and no    *)
(* step cleans up after an earlier one.  The disk survives, the process    *)
(* does not.                                                               *)
(***************************************************************************)
EXTENDS Naturals, FiniteSets

CONSTANTS
    Docs,        \* the contents the user may give the source (a file or a tree)
    Wrecks,      \* what a deletion that stopped half-way may leave in its place
    Hollow,      \* the contents that are a directory with no entry
    Trees,       \* the contents that are a directory
    Gone,        \* the source path does not exist
    SizeOf,      \* content -> dir_size
    ChecksumOf,  \* content -> compute_file_checksum, which for a path that is not
                 \* there is the hash of nothing; nothing says it is injective
    Checksums,
    Passwords, NoPassword, EmptyPassword,
    Recipient,   \* the key of an archive packed with --recipient
    Backend,     \* "age" or "7z"
    Options,     \* the command lines the user gives
    Nested,      \* is the output directory (-o) inside the source, a directory?
    LiveEdits,   \* may the user edit the source while ramz runs?
    MaxFaults,   \* bound: failures, kills and silent bad writes in a behaviour
    MaxEdits     \* bound: times the user edits the source or removes the archive

Contents == Docs \cup Wrecks
Keys == Passwords \cup {Recipient}

OptionSpace ==
    [pw : Passwords \cup {NoPassword, EmptyPassword}, recipient : BOOLEAN,
     hybrid : BOOLEAN,  \* --argon2id or --mlkem
     force : BOOLEAN, resume : BOOLEAN, delete : BOOLEAN, secure : BOOLEAN,
     dry : BOOLEAN]

ASSUME ContentAssumption ==
    /\ Docs # {}
    /\ Wrecks \cap Trees # {} /\ Wrecks \ Trees # {}
    /\ Docs \cap Wrecks = {}
    /\ Gone \notin Contents
    /\ Hollow \subseteq Trees
    /\ SizeOf \in [Contents -> Nat]
    /\ ChecksumOf \in [Contents \cup {Gone} -> Checksums]
ASSUME KeyAssumption ==
    /\ {NoPassword, EmptyPassword, Recipient} \cap Passwords = {}
ASSUME RunAssumption ==
    /\ Backend \in {"age", "7z"}
    /\ Options \subseteq OptionSpace
    /\ Nested \in BOOLEAN
    /\ Nested => Docs \subseteq Trees
    /\ LiveEdits \in BOOLEAN
    /\ MaxFaults \in Nat
    /\ MaxEdits \in Nat

VARIABLES
    \* the disk
    source,   \* what the source path holds
    archive,  \* the file at archive_path
    state,    \* the resume file beside it
    \* the process
    pc, opts,
    total, sum,  \* target.total_bytes, the checksum taken before packing
    snap,        \* what the backend read of the source
    loaded,      \* the resume state this invocation loaded
    result,      \* how the last invocation ended
    \* the world
    want,     \* what the user last put into the source
    faults, edits

disk == <<source, archive, state>>
locals == <<total, sum, snap, loaded>>
world == <<want, faults, edits>>
vars == <<disk, pc, opts, locals, result, world>>

(***************************************************************************)
(* Files.  A file written in place is seen first truncated and then whole: *)
(* File::create and fs::write truncate, and the bytes follow.              *)
(***************************************************************************)
Absent == [kind |-> "absent"]
Partial == [kind |-> "partial"]   \* created, and not written to the end
Corrupt == [kind |-> "corrupt"]   \* written to the end, and not readable back
Whole(c, k, left) == [kind |-> "whole", holds |-> c, key |-> k, extra |-> left]
Archives ==
    {Absent, Partial, Corrupt}
        \cup [kind : {"whole"}, holds : Contents, key : Keys, extra : SUBSET Contents]

Torn == [kind |-> "torn"]         \* truncated, or cut before the checksum's end
Saved(processed) ==
    [kind |-> "saved", total |-> total, processed |-> processed, sum |-> sum]
States ==
    {Absent, Torn}
        \cup [kind : {"saved"}, total : Nat, processed : Nat, sum : Checksums]

Exists(file) == file.kind # "absent"

\* ResumeState's own notion of a finished pack: processed_bytes == total_bytes.
Finished(s) == s.kind = "saved" /\ s.processed = s.total

\* Mutant: the first record already claims the whole source.
StartedAsCompleted == Saved(total)

StartedState == Saved(0)

\* Mutant: the second record repeats the first.
CompletedAsStarted == Saved(0)

CompletedState == Saved(total)

(***************************************************************************)
(* Command line.                                                           *)
(***************************************************************************)
Key(o) == IF o.recipient THEN Recipient ELSE o.pw

FlagConflict(o) == Backend = "7z" /\ (o.hybrid \/ o.recipient)

\* Mutant: the empty password is let through.
PasswordUnchecked(o) == IF o.recipient THEN o.pw = NoPassword ELSE o.pw # NoPassword

\* --password and --recipient exclude each other; else a prompt or the flag
\* must yield a password that is not empty (NoPassword: the prompt failed).
PasswordAccepted(o) ==
    IF o.recipient THEN o.pw = NoPassword ELSE o.pw \in Passwords

Holds(a, c) == a.kind = "whole" /\ a.holds = c
Opens(a, k) == a.kind = "whole" /\ a.key = k

(***************************************************************************)
(* Steps of one invocation.                                                *)
(***************************************************************************)
Goto(l) == pc' = l /\ UNCHANGED result
Return(r) == pc' = "idle" /\ result' = r

Init ==
    /\ want \in Docs \ Hollow
    /\ source = want
    /\ archive = Absent
    /\ state = Absent
    /\ pc = "idle"
    /\ opts \in Options
    /\ total = 0
    /\ sum = ChecksumOf[want]
    /\ snap = want
    /\ loaded = Absent
    /\ result = "none"
    /\ faults = 0
    /\ edits = 0

Invoke ==
    /\ pc = "idle"
    /\ opts' \in Options
    /\ IF FlagConflict(opts')
         THEN Return("flags")
         ELSE pc' = "detect" /\ result' = "none"
    /\ UNCHANGED <<disk, locals, world>>

DetectTarget ==
    /\ pc = "detect"
    /\ UNCHANGED <<disk, opts, sum, snap, loaded, world>>
    /\ \/ /\ source = Gone \/ source \in Hollow
          /\ Return("no source")
          /\ UNCHANGED total
       \/ /\ source \in Contents \ Hollow
          /\ total' = SizeOf[source]
          /\ Goto("password")

ReadPassword ==
    /\ pc = "password"
    /\ IF PasswordAccepted(opts) THEN Goto("load") ELSE Return("password")
    /\ UNCHANGED <<disk, opts, locals, world>>

\* A torn file has too few lines, or six of them and a checksum cut short.
LoadState ==
    /\ pc = "load"
    /\ loaded' = IF opts.resume THEN state ELSE Absent
    /\ IF loaded' = Torn
         THEN \E r \in {"corrupted state", "changed"} : Return(r)
         ELSE Goto(IF Exists(loaded') THEN "compare" ELSE "exists")
    /\ UNCHANGED <<disk, opts, total, sum, snap, world>>

\* Mutant: the archive's presence is taken for its completion.
CompleteIfPresent == Exists(archive)

AlreadyComplete == Finished(loaded) /\ Exists(archive)

\* The output files lie in the tree being packed: they count as its content,
\* and they go when it goes.
WithSource == Nested /\ source \in Trees

\* The loaded checksum was taken before the resume file it came from existed.
SourceChanged == WithSource \/ ChecksumOf[source] # loaded.sum

CompareSource ==
    /\ pc = "compare"
    /\ UNCHANGED <<disk, opts, locals, world>>
    /\ \/ /\ SourceChanged
          /\ Return("changed")
       \/ /\ ~SourceChanged
          /\ IF AlreadyComplete THEN Return("complete") ELSE Goto("exists")

CheckExists ==
    /\ pc = "exists"
    /\ UNCHANGED <<disk, opts, locals, world>>
    /\ \/ /\ Exists(archive) /\ ~opts.force /\ ~opts.resume
          /\ Return("archive exists")
       \/ /\ ~Exists(archive) \/ opts.force \/ opts.resume
          /\ IF opts.dry THEN Return("estimated") ELSE Goto("checksum")

TakeChecksum ==
    /\ pc = "checksum"
    /\ sum' = ChecksumOf[source]
    /\ Goto("save started")
    /\ UNCHANGED <<disk, opts, total, snap, loaded, world>>

\* save_resume_state is fs::write: the file is emptied, then filled.
TruncateState ==
    /\ pc \in {"save started", "save completed"}
    /\ state' = Torn
    /\ Goto(IF pc = "save started" THEN "write started" ELSE "write completed")
    /\ UNCHANGED <<source, archive, opts, locals, world>>

WriteStarted ==
    /\ pc = "write started"
    /\ state' = StartedState
    /\ Goto("pack")
    /\ UNCHANGED <<source, archive, opts, locals, world>>

WriteCompleted ==
    /\ pc = "write completed"
    /\ state' = CompletedState
    /\ Goto(IF opts.delete THEN "verify" ELSE "remove state")
    /\ UNCHANGED <<source, archive, opts, locals, world>>

(***************************************************************************)
(* AgeBackend::pack.  The source is copied to a temporary tar first; the   *)
(* archive is created only when everything that can be checked has been.   *)
(***************************************************************************)
\* Mutants: the backend never looks, or looks and does not ask for --force.
BackendNeverRefuses == FALSE
BackendIgnoresForce == Exists(archive)

BackendRefuses == Exists(archive) /\ ~opts.force

AgeStart ==
    /\ pc = "pack" /\ Backend = "age"
    /\ IF BackendRefuses THEN Return("archive exists") ELSE Goto("snapshot")
    /\ UNCHANGED <<disk, opts, locals, world>>

AgeSnapshot ==
    /\ pc = "snapshot"
    /\ snap' = source
    /\ Goto("create")
    /\ UNCHANGED <<disk, opts, total, sum, loaded, world>>

AgeCreate ==
    /\ pc = "create"
    /\ archive' = Partial
    /\ Goto("fill")
    /\ UNCHANGED <<source, state, opts, locals, world>>

\* The age stream and the custom container hold the same under the same key.
Encrypted == Whole(snap, Key(opts), {})

AgeFill ==
    /\ pc = "fill"
    /\ archive' = Encrypted
    /\ Goto("save completed")
    /\ UNCHANGED <<source, state, opts, locals, world>>

(***************************************************************************)
(* SevenZBackend::pack runs `7z a`, which adds to an archive it can open   *)
(* and replaces it when done, refuses one it cannot open, and writes a new *)
(* one in place.                                                           *)
(***************************************************************************)
SevenZSpawn ==
    /\ pc = "pack" /\ Backend = "7z"
    /\ UNCHANGED <<source, state, opts, locals, world>>
    /\ \/ /\ Exists(archive) /\ ~Opens(archive, Key(opts))
          /\ Return("backend")
          /\ UNCHANGED archive
       \/ /\ Opens(archive, Key(opts)) \/ ~Exists(archive)
          /\ Goto("child")
          /\ archive' = IF Exists(archive) THEN archive ELSE Partial

\* Entries of the old archive that the source has no more stay in the new one.
Leftovers ==
    IF archive.kind = "whole"
      THEN (archive.extra \cup {archive.holds}) \ {source}
      ELSE {}

SevenZDone ==
    /\ pc = "child"
    /\ snap' = source
    /\ archive' = Whole(source, Key(opts), Leftovers)
    /\ Goto("save completed")
    /\ UNCHANGED <<source, state, opts, total, sum, loaded, world>>

(***************************************************************************)
(* Verify before delete.  CLI passes opts.password, which is None with     *)
(* --recipient, so such an archive never verifies here.                    *)
(***************************************************************************)
\* Mutant: delete without verify.
VerifySkipped == TRUE

VerifyPasses == ~opts.recipient /\ Opens(archive, Key(opts))

VerifyArchive ==
    /\ pc = "verify"
    /\ IF VerifyPasses THEN Goto("delete") ELSE Return("verification")
    /\ UNCHANGED <<disk, opts, locals, world>>

\* remove_file is one step; the removal of a tree and an overwrite are not.
\* What is left of a tree is a tree, and of a file a file, partly overwritten.
BeginDelete ==
    /\ pc = "delete"
    /\ opts.secure \/ source \in Trees
    /\ source' \in IF source \in Trees THEN Wrecks \cap Trees ELSE Wrecks \ Trees
    /\ \/ /\ WithSource => source' \notin Hollow
          /\ UNCHANGED <<archive, state>>
       \/ WithSource /\ archive' = Absent /\ state' \in {state, Absent}
    /\ Goto("deleting")
    /\ UNCHANGED <<opts, locals, world>>

FinishDelete ==
    /\ \/ pc = "deleting"
       \/ pc = "delete" /\ ~opts.secure /\ source \notin Trees
    /\ source' = Gone
    /\ IF WithSource
         THEN archive' = Absent /\ state' = Absent
         ELSE UNCHANGED <<archive, state>>
    /\ Goto("remove state")
    /\ UNCHANGED <<opts, locals, world>>

\* Mutant: the resume file stays.
ForgetState ==
    /\ pc = "remove state"
    /\ Return("created")
    /\ UNCHANGED <<disk, opts, locals, world>>

RemoveState ==
    /\ pc = "remove state"
    /\ state' = Absent
    /\ Return("created")
    /\ UNCHANGED <<source, archive, opts, locals, world>>

(***************************************************************************)
(* What the program does not choose.                                       *)
(***************************************************************************)
\* Any `?`, a kill or a power cut: nothing is rolled back.
Interrupt ==
    /\ pc # "idle" /\ faults < MaxFaults
    /\ faults' = faults + 1
    /\ \E r \in {"error", "killed"} : Return(r)
    /\ UNCHANGED <<disk, opts, locals, want, edits>>

\* The write reports success and the bytes are wrong: what verify is for.
SilentFault ==
    /\ pc \in {"fill", "child"} /\ faults < MaxFaults
    /\ faults' = faults + 1
    /\ archive' = Corrupt
    /\ snap' = IF pc = "child" THEN source ELSE snap
    /\ Goto("save completed")
    /\ UNCHANGED <<source, state, opts, total, sum, loaded, want, edits>>

EditSource ==
    /\ pc = "idle" \/ LiveEdits
    /\ edits < MaxEdits
    /\ want' \in Docs
    /\ source' = want'
    /\ edits' = edits + 1
    /\ result' = "none"
    /\ UNCHANGED <<archive, state, pc, opts, locals, faults>>

\* The user clears the archive away, having the source.
RemoveArchive ==
    /\ pc = "idle" /\ source = want
    /\ edits < MaxEdits
    /\ archive' = Absent
    /\ edits' = edits + 1
    /\ result' = "none"
    /\ UNCHANGED <<source, state, pc, opts, locals, want, faults>>

Step ==
    \/ DetectTarget \/ ReadPassword \/ LoadState \/ CompareSource
    \/ CheckExists \/ TakeChecksum \/ TruncateState \/ WriteStarted
    \/ AgeStart \/ AgeSnapshot \/ AgeCreate \/ AgeFill
    \/ SevenZSpawn \/ SevenZDone
    \/ WriteCompleted \/ VerifyArchive \/ BeginDelete \/ FinishDelete
    \/ RemoveState

Next == Invoke \/ Step \/ Interrupt \/ SilentFault \/ EditSource \/ RemoveArchive

Spec == Init /\ [][Next]_vars

\* A started command runs on, and the user does not give up.
FairSpec == Spec /\ WF_vars(Step) /\ WF_vars(Invoke)

-----------------------------------------------------------------------------

Labels ==
    {"idle", "detect", "password", "load", "compare", "exists", "checksum",
     "save started", "write started", "pack", "snapshot", "create", "fill",
     "child", "save completed", "write completed", "verify", "delete",
     "deleting", "remove state"}

Results ==
    {"none", "flags", "no source", "password", "corrupted state", "changed",
     "complete", "archive exists", "estimated", "backend", "verification",
     "created", "error", "killed"}

TypeOK ==
    /\ source \in Contents \cup {Gone}
    /\ archive \in Archives
    /\ state \in States
    /\ pc \in Labels
    /\ opts \in Options
    /\ total \in Nat
    /\ sum \in Checksums
    /\ snap \in Contents
    /\ loaded \in States
    /\ result \in Results
    /\ want \in Docs
    /\ faults \in 0 .. MaxFaults
    /\ edits \in 0 .. MaxEdits

\* What the user last wrote can be read from the source or from the archive,
\* whatever fails and whenever it is killed: "No verify, no delete" (README,
\* Features).  Needs that nobody forces and nobody edits a source being packed.
NoDataLoss == source = want \/ Holds(archive, want)

\* An archive that an interrupted pack left half-written is marked as such by
\* the resume file, at every moment until a later pack has rewritten it or the
\* user removed it: --resume rests on "completion state, not just file
\* presence" (README, Features).
PartialIsMarked ==
    archive = Partial => Exists(state) /\ ~Finished(state)

\* A source that a deletion has begun to destroy has a finished resume file
\* beside its archive, so that --resume compares checksums before it packs
\* what is left (the order of save_resume_state and delete_path in run()).
WreckIsMarked == source \in Wrecks => Finished(state)

\* "Archive already complete" is said only of an archive written to the end,
\* and, if it can be read back, of one whose content has the checksum the
\* source has: the comment on archive_actually_complete in run().
ResumeIsHonest ==
    result = "complete" =>
        /\ archive \notin {Absent, Partial}
        /\ archive # Corrupt => ChecksumOf[archive.holds] = loaded.sum

\* A pack with --delete-source that reports success has removed the source and
\* its resume file, and left an archive that opens with the key the user gave
\* and holds what was read, which is what was checksummed.
MoveIsComplete ==
    result = "created" /\ opts.delete =>
        /\ Opens(archive, Key(opts))
        /\ Holds(archive, snap)
        /\ ChecksumOf[snap] = sum
        /\ source = Gone
        /\ state = Absent

\* The command itself changes the source only while the archive on disk opens
\* with the key of this invocation and holds what this invocation read: delete
\* comes after verify, and nothing touches the archive in between.
SourceYields ==
    source' # source /\ edits' = edits =>
        Opens(archive, Key(opts)) /\ Holds(archive, snap)
SourceYieldsToArchive == [][SourceYields]_vars

\* Without --force an archive that exists is never written by the age backend,
\* with --resume or without, also when the attempts before it died anywhere:
\* ArchiveExists in AgeBackend::pack and in run().
ArchiveKept ==
    Exists(archive) /\ ~opts.force /\ edits' = edits =>
        archive' = archive \/ pc = "fill"
NoClobber == [][ArchiveKept]_vars

\* The pack command, with its files and its interruptions, implements custody.
Promise ==
    INSTANCE Custody WITH
        inSource <- source = want,
        inArchive <- Holds(archive, want)
KeepsPromise == Promise!Spec

\* A resumed command that announced "previous attempt was incomplete;
\* re-creating archive..." does not end in a refusal to re-create it: "safely
\* detect and re-run an interrupted pack" (README, Features).
RecreatedWhenSaid == result = "archive exists" => ~Exists(loaded)

\* A user who repeats the command with --force gets the archive of what the
\* source holds, whatever interrupted the attempts before.
ForcedRetryCreates == []<>(result = "created" /\ Holds(archive, want))
=============================================================================
