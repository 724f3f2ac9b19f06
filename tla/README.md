# A verification project for ramz

`ramz` packs a file or a directory into one encrypted archive, verifies it and can
delete the source. This directory holds TLA+ models of that program, the TLC runs
that check them and TLAPS proofs about them. Names, line numbers and option names
are those of the sources under `src/`.

## The system

| Component | Code | State it keeps | Operations | What makes it hard |
|---|---|---|---|---|
| pack command | `cli/src/main.rs` 268-504 | none of its own: source, archive, resume file on disk; target, options, checksum in memory | one straight line of steps, each of which may return early | failure or kill between any two steps, nothing is rolled back; the next invocation starts from what is on disk |
| resume file | `core/src/resume.rs` | `<archive>.resume`, eight lines | save (started, completed), load, remove, checksum of the source | written in place, so torn; read back as the only witness of an earlier run |
| age backend | `backends-age/src/lib.rs` | temporary tar, archive | pack, verify, extract | the archive is created under its final name and filled in place |
| RMZ1 container | `backends-age/src/lib.rs` 112-406 | a header with lengths, a payload | encode, decode | lengths read from the file; three ways to a key |
| identity files | `backends-age/src/identity.rs`, `main.rs` 634-686 | two files | generate, save, load | two writes, no order a crash respects; two processes |
| 7z backend | `backends-7z/src/lib.rs` | a child process, two pipes | pack, verify, extract | the child updates archives; pipes are bounded and read one after the other |
| secure delete | `core/src/secure_delete.rs` | the tree being deleted | overwrite passes, walk, `delete_path` | half-done deletions; links and special files |
| target, tar, naming | `core/src/lib.rs` | none | detect, dir_size, safe_output_dir, pack_to_tar | names that collide, an output inside the source |
| dry run, compression level | `core/src/dry_run.rs`, `core/src/compression.rs` | none | pure arithmetic | boundaries, saturation |
| verify and extract commands | `main.rs` 506-632 | none | choose a backend by extension, decrypt, unpack | output directory made before anything can fail |
| prompts, progress | `main.rs` 147-264 | none | password prompt, progress bar | none |

Interaction is by call inside one process and by files between processes: a later
`pack` sees what an earlier one left of the source, the archive and the resume file.
The only concurrency inside the program is the 7z child; between programs it is two
invocations over one directory, with no lock, and the user editing files.

For each component what correctness means:

- pack: the user's content is never lost; success means what it says; an archive is
  not overwritten without `--force`; a source is deleted only under a verified archive;
- resume file: an interrupted pack is told from a finished one; a resumed pack is of
  the same source;
- container: what is packed under a key is what comes out under it, and nothing comes
  out under another; no length in a file leads outside it;
- identity: the public and secret file belong together, or loading says so;
- 7z child: parent and child do not block each other, and a failure is reported with its reason;
- secure delete: everything inside the tree is overwritten and removed, nothing outside;
- reading an archive: an intact one opens with its credential, a damaged one gives a
  clean error, and nothing is unpacked that was not authenticated;
- naming: source, archive and resume file are three files, and an archive is read by
  the backend that made it.

## Modules

| Module | What it is |
|---|---|
| `RamzPack` | the pack command, from invocation to return, with the disk, interruptions and the user; its properties |
| `Custody` | what the command promises, without the command: the content is in the source, in the archive or in both |
| `MCRamzPack` | constant values for TLC: a file, a tree, three remains of a stopped deletion, command lines |
| `RamzPackProofs` | theorems about `RamzPack` |
| `Keygen` | `ramz keygen`, its two files, and those who read them |
| `MCKeygen` | symmetry for TLC |
| `KeygenProofs` | theorems about `Keygen` |
| `SevenZPipe` | `SevenZBackend::pack` and its child over two bounded pipes |
| `SecureDelete` | `delete_path`: the walk, the overwrite passes, the removal, on a file system with links and special files |
| `Move` | `pack --7z -d`: `SevenZPipe`, verify and `SecureDelete` one after the other; refines `Custody` |
| `MCMove` | nineteen small file systems for TLC |
| `SevenZPipeProofs`, `SecureDeleteProofs`, `MoveProofs` | theorems about these three |
| `Container` | the archive formats, as they are written, damaged, and read by verify and extract |
| `ContainerProofs` | theorems about `Container` and `FileFormats` |
| `Naming` | the file names ramz makes, as pure operators |
| `StateFile` | the text of a resume file, printed, cut and parsed, as pure operators |
| `FileFormats` | `Container` with a name and a resume state to look at; the properties of `Naming` and `StateFile` |
| `MCFormats` | damages, names and resume states for TLC |
| `TextProofs` | lemmas about sequences; theorems about `Naming` and `StateFile` |
| `Workspace` | several files of a user in one directory, packed under the names of `Naming` |
| `MCWorkspace`, `WorkspaceProofs` | values for TLC; a theorem about `Workspace` |
| `Concurrent`, `MCConcurrent` | two processes of `RamzPack` over one disk, and values for TLC |

### RamzPack

Variables. `source`, `archive` and `state` are the disk: the content of the source
path, the file at `archive_path`, the resume file beside it. `pc`, `opts`, `total`,
`sum`, `snap`, `loaded` are the locals of `run()` and of the backend (the step to be
taken, the command line, `target.total_bytes`, `checksum`, the temporary tar, the
loaded `ResumeState`); `result` is how the last invocation ended. `want` is a history
variable: what the user last put into the source.

Actions. One per step of `run()` that reads or writes the disk, in the order of the
code, named in `PROJECT.json` with their lines:
`Invoke`, `DetectTarget`, `ReadPassword`, `LoadState`, `CompareSource`, `CheckExists`
(which also ends a dry run), `TakeChecksum`, `TruncateState`/`WriteStarted`, then
`AgeStart`/`AgeSnapshot`/`AgeCreate`/`AgeFill` or `SevenZSpawn`/`SevenZDone`,
`TruncateState`/`WriteCompleted`, `VerifyArchive`, `BeginDelete`/`FinishDelete`,
`RemoveState`. `Interrupt` is every `?` and every kill. `SilentFault` is a write that
reports success for bytes that do not read back, which is what verify is there for.
`EditSource` and `RemoveArchive` are the user.

Abstractions.

- A content is a value with a size and a checksum (`SizeOf`, `ChecksumOf`); the checksum
  is not assumed injective, because the stream that is hashed is not (`resume.rs` 56-58).
  What a stopped deletion leaves is one of `Wrecks`, of the same kind as the source: of a
  tree a part of it or an empty directory, of a file an overwritten or a truncated one.
- A key is a password or the recipient; age, Argon2id and ML-KEM archives differ in what
  is inside, not in the order of steps on disk, so `hybrid` matters only to the flag check.
  A key opens exactly the archives made with it.
- The tar snapshot is one step: an edit falls before it or after it.
- 7z is external: `7z a` refuses an archive it cannot open, adds to one it can and
  replaces it at the end, writes a new one in place.
- A wrong, mistyped or unreadable recipient file is an `Interrupt` after the resume file
  was saved, as in the code.
- One backend and one output directory per behaviour: different ones have different
  archives and resume files. A resume file torn after its sixth line reads like a whole
  one (only the unused hint and time are missing); torn before, it is rejected as
  corrupted or as a changed source (`Torn`).
- When the output lies in the source (`Nested`, only where every source is a directory), the
  archive and the resume file vanish with the tree and change its checksum; that they also
  become part of the next snapshot is left out.

Not in the model: power loss with unsynced writes, permission bits, creation of the
output directory, disk layout of an overwrite.

### Keygen

Variables. `pub` and `sec` are the files `identity.pub` and `identity`; `pc` and `pw`
give for each keygen its step and the password it protects its key with; `loader` is one
`load_with_password` in progress. `sealed`, `cleared` and `crowded` are history: keys
some `--recipient` archive was made for, keys whose secret file the user removed,
whether two keygens ever ran at once. So are two fields of `loader`: `later`, the keygens
that had not been started at its first read, and `moved`, whether the user took the public
file away since. A keygen also names the key pair it generates.

Actions. `CheckFiles`, `ChoosePassword`, then `CreatePublic`/`WritePublic` and
`CreateSecret`/`WriteSecret` (each pair one `fs::write`), `SetMode`; `Interrupt` is any
`?` or a kill. `SealFor` is `pack --recipient` reading the public file; `LoadPublic` and
`LoadSecret` are the two reads of `load_with_password`. `Tidy` is the user removing a file.

Abstractions. A file is absent, torn (its lengths lead outside it, so every reader refuses
it) or whole. A password opens exactly what it locked, an unlocked key opens with any.
Two overlapping writes of one file leave the later one: the formats carry their lengths,
so a tail of the earlier file is not read. The user tidies up at any time but while a
keygen writes, also between the two reads of a loader. Permission bits are left out.

What overlap costs: `crowded` excludes it from the properties because the code has nothing
against it. Without `~crowded` TLC shows two keygens that both find no file and leave the
public key of one beside the secret key of the other. What a kill costs: between the two
writes a public file stands alone; archives sealed for it are lost, and the next keygen
refuses until the user removes it. `SealedCanBeOpened` therefore speaks of keygens that
reported success. What a loader may meet: it compares nothing, so a user who takes the
public file away between its reads, clears the secret one and starts a new keygen hands it
halves of two pairs. `LoadedPairMatches` says that without overlap this is the only way:
a cleared secret file, a refused or failed keygen, or one started before cannot mix them.

### SevenZPipe

Variables. `outPipe` and `errPipe` are the lines in the two pipes; `child` is what the
child does (working, blocked in a write, exited), `parent` the loop the parent is in,
`kept` its `stderr_lines`. `outs`, `said`, `archived` and `garbled` are history.

Actions. The parent: `ReadOut`/`EndOfOut` (the first loop), `ReadErr`/`EndOfErr` (the
second), `Wait`. Either loop ends with its pipe or with a line that is not UTF-8, and
closes the pipe by dropping its reader. The child is external: it makes the archive,
writes lines to either pipe when it likes, waits for room, dies of a closed pipe, and
exits as it likes, with success only when the archive is made. A pipe's capacity is
counted in lines. Progress is left out.

### SecureDelete

Variables. `tree` is the file system (directories, files with inodes, symbolic links with
their final targets, and special files: FIFOs, sockets, devices), `present` the paths that
exist, `todo` what the walk has not yielded, `cur`, `pass` and `written` the position in an
overwrite. `spoiled`, `done`, `arrived` and `faulty` are history.

Actions. `DeletePath` chooses between the four cases; `Visit` is one turn of the loop of
`secure_delete_dir`; `BeginPass`, `WriteChunk`, `EndPass`, `RemoveFile` are
`secure_delete_file`; `EndWalk` and `RemoveEntry` are `remove_dir_all`. `Interrupt` is an
I/O error or a kill anywhere; `Arrive` is another process that puts a file into the tree.

Abstractions. The walk yields entries after their contents in any order, siblings also
interleaved, which is more than `walkdir` does; so what holds of the model holds of the
code, and a failure of the model could be one the code does not have. `is_file` and
`is_dir` follow links, the walk and `remove_dir_all` do not, as in the code. A special file
is neither: the walk passes over it, `remove_dir` then fails in its directory, and
`delete_path` given one returns Ok and leaves it (the exception in `OkMeansGone`). The
source path itself is not a link to a directory.

`FailsForAReason` goes both ways. `MayStop` is an entry for which the walk can fail, and
without a fault or an arrival it fails for nothing else; `MustStop` is one for which it
fails in every order, and with one it never reports success. Both are a link or a special
file in a subdirectory, unless it leads to a file and is unlinked as one, or a link to a
directory. They differ where the order decides: a link to a file of the tree is unlinked
while that file is still there, and left behind once it is gone. The nine passes differ only in their bytes.

### Move

`pack`, `save_resume_state`, `verify` and `delete_path` of the Pack arm, with the two
components above inside the first and the last. `sound` says whether what the child wrote
can be read back. `Interrupt` ends the command between the calls.

### Container

A file is a sequence of tokens: magic, flags, numbers, salt, nonces, and several tokens for
a KEM ciphertext or a sealed text, so that a wrong length cuts one in two. `Encode` is
`pack_custom_container`, with one token for the other two formats. Cryptography is
symbolic: a key is the record of what it was derived from, sealed text opens under its own
key and nonce, whole and unchanged. `Init` chooses an archive, damages it, and chooses a
command with its credential.

Actions. `Start` (the output directory, the backend by extension), `Run7z`, `Dispatch`,
then the reader: `ReadFlags`, `Read` (one `read_u32` or `read_slice` of the `plan`),
`Branch`, `Decapsulate`, `OpenPayload`; `Unpack` is the tar at the end. Where a field is
read from the place of another one, its value is any. `load_with_password` is in `Keygen`;
here an identity is the right one or not.

`RightCredential` is what the user gave, not what the command passes on: for an archive of
a password that password, for a recipient's the identity. `PasswordDropped` names the one
case in which the two differ, `verify --identity` of an archive that needs the password
(`lib.rs` 334-341). `IntactOpens` says that such a command never succeeds and every other
one with the right credential opens the archive.

### Naming, StateFile, Workspace

`Naming` has a file name as the sequence of its parts between dots and the standard
library's `file_stem`, `extension`, `with_extension` and `to_string_lossy` on it, and the
names the code makes with them. `StateFile` has a text as a sequence of marks (words,
numbers, blanks, line breaks): `Render` is `save_resume_state`, `Load` is
`load_resume_state`, with `trim`, `split` and the two `parse().unwrap_or(0)`.
Both are pure: `FileFormats` puts their inputs, `SomeNames` and `SomeStates`, beside the
archive of a behaviour of `Container` and looks at them once.
`Workspace` is `run()` reduced to its accesses by name, over all the files of a user.

### Concurrent

Two instances of `RamzPack` with their own locals over one `source`, `archive` and `state`.
The snapshot and the 7z child fail when the source is gone; the checksum of nothing is
the hash of no bytes, and `delete_path` finds nothing to do. What a stopped
deletion leaves is, between the two steps of a deletion, what the other process sees.

### Properties

| Property | Says | Kind |
|---|---|---|
| `NoDataLoss` | what the user last wrote is in the source or in a readable archive | invariant |
| `PartialIsMarked` | a half-written archive has a resume file that is not finished | invariant |
| `WreckIsMarked` | a half-deleted source has a finished resume file | invariant |
| `ResumeIsHonest` | "already complete" is said only of an archive written to the end, with the source's checksum | invariant |
| `MoveIsComplete` | a successful `pack -d` leaves an archive that opens, and neither source nor resume file | invariant |
| `SourceYieldsToArchive` | the command changes the source only under an archive that opens and holds what was read | action |
| `NoClobber` | the age backend never writes over an archive without `--force` | action |
| `KeepsPromise` | the command implements `Custody` | refinement |
| `ForcedRetryCreates` | repeating with `--force` ends with the archive | liveness |
| `RecreatedWhenSaid` | an announced re-creation is not refused | invariant, violated |
| `SealedCanBeOpened` | an archive sealed for a key whose keygen succeeded opens until the user removes the secret file | invariant |
| `LoadedPairMatches` | a loader gets halves of two pairs only if the user took the public file away between its reads and a keygen started later wrote the other half | invariant |
| `SecretIsKept` | only the user takes a complete secret key away | action |
| `BlocksAtOverflow` | parent and child of the 7z pack block each other only when the child has said exactly what the stderr pipe holds and has more to say | invariant |
| `OkMeansArchived` | the 7z pack reports success only of an archive that is made | invariant |
| `ChildOutlivesPipes` | the child dies of a closed pipe only after a line that is not UTF-8 | invariant |
| `FailureIsExplained` | a failure is reported with all messages of the child | invariant |
| `RemovedIsWiped` | a secure deletion removes no file of the tree it did not overwrite to the last pass | invariant |
| `OkMeansGone` | a deletion that succeeds leaves nothing of the tree, late files included, unless it was given a special file | invariant |
| `OutsideKept` | no name outside the tree goes, no content but what is linked into the tree | invariant |
| `FailsForAReason` | without faults a deletion fails only for a link or special file in its way, and never succeeds with one that is in its way in every order | invariant |
| `KeepsPromise` (Move) | the 7z move implements `Custody` | refinement |
| `EndsUnlessJammed` | the 7z move ends, or is jammed | liveness |
| `OnlyRightKeyOpens` | nothing of an archive opens under another credential, however it was damaged | invariant |
| `IntactOpens` | an intact archive of any format opens with its credential, but for `verify --identity` of one with a password, which never succeeds | invariant |
| `UnpackedIsOpened` | extract writes nothing of an age archive before all of it was authenticated | invariant |
| `NamesApart` | which names can meet, and that pack, dry run, verify and extract agree on them | invariant over inputs |
| `ResumeFileIsSafe` | a resume file cut anywhere misleads nobody, a whole one is read as saved | invariant over inputs |
| `OriginalsKept` | a user's file is touched only as a verified source | action, violated |
| `NothingLostAtRest` | after two packs at a time the content is somewhere | invariant, violated |

### Runs

| Run | Question | Result |
|---|---|---|
| `pack_age` | all of the pack command but the retry, for age without `--force`, no edits while the command runs | holds |
| `pack_7z` | the same for 7z | holds |
| `pack_forced` | what is left when `--force` and edits during a run are allowed | holds |
| `pack_retry` | does a persistent user get an archive | holds |
| `resume_empty_file` | is `--resume` honest for a source of zero bytes | violated |
| `resume_refused` | is an announced re-creation carried out | violated |
| `output_in_source` | is `pack -d` complete with `-o` inside the source | violated |
| `keygen` | do two files, written and read one by one, stay one identity | holds |
| `seven_z_move` | does `pack --7z -d` block, lie, wipe too little or too much | holds |
| `formats` | does every reader agree with its writer, and refuse the rest; are names and resume files unambiguous | holds |
| `resume_is_source` | can a resume file be a file of the user | violated |
| `concurrent_packs` | do two packs of one source lose it | violated |

Bounds. `MaxFaults = 2`: one fault spoils an attempt and a second one spoils the repair.
`MaxEdits = 2`: an edit after a pack, and a second that goes back to the first content
(or a removal of the archive). Invocations are not bounded. Two documents (one file, one
tree), three remains (a part of the tree that can be packed again, an empty directory, an
overwritten file), two passwords suffice to tell same from different everywhere the code
compares; the part of the tree shares the checksum of the file. The overwritten file is
truncated, and fills up again in `pack_forced`. The proofs drop every one of these bounds.
In `keygen` three runs and two passwords: one identity made, one that follows after the
user moved a file, and one that interferes or is cut short. Runs and passwords are
symmetric. The run may stop when every keygen has ended, so deadlock is not checked.

In `seven_z_move` a pipe holds one line and the child may write three and two: enough to
fill either pipe while the parent is in either loop, and to lose or keep a message behind
a blank one. `Passes` is the code's nine; a chunk of 2 makes files of no, one and two
chunks, the last one short. The file systems are a tree of two levels, then the same with a
late file, a hard link inside and to the outside, links at the top and in the subdirectory
to a file and a directory outside, a sibling, the subdirectory, the root, a special file and
nowhere, a special file in either place, a single file, a single link, a single special
file, and nothing. In `formats` two
passwords and two identities tell right from wrong, two tokens for a sealed text allow it to be
cut, the numbers 0, 1, 2, 3 and 15 make a length too short, right, too long and out of the
file, and `UsizeMax`, 20, is more than the length of any file and less than some position
plus 15, so that both checks of `read_slice` fail for some length. Damage is one cut, one more token, or one
changed token; the proofs allow any damage. The names are all of
one or two parts out of ten and the longer ones ramz makes of them; the paths in a resume
file have breaks and blanks in each place, and it is cut after every mark.
Deadlock is not checked in either: the move may jam, and a command that has ended stays.

Fairness. In `Move`, `FairSpec` is weak fairness of `Work`: the parent, the child and the
deletion take steps while they can. It is the fairness of the scheduler, taken together
because each of them makes progress in bounded work: the child writes bounded output. It
covers neither interruptions nor late files. `EndsUnlessJammed` needs it.
In `RamzPack`, `FairSpec` lets a started command take its steps (the program has no wait but
for the child and the prompt) and lets the user invoke again. Interruptions are bounded,
not fair. `ForcedRetryCreates` needs both.

### What the runs found

1. `resume_empty_file`: completion is `processed_bytes == total_bytes` (`main.rs` 371).
   For a source of zero bytes the record saved before packing satisfies it; a kill
   between `File::create` and the last write then makes `--resume` report a truncated
   archive complete. For sources of positive size the same property is proved.
2. `resume_refused`: `--resume` passes the check in `run()` (`main.rs` 384) but not the
   one in `AgeBackend::pack` (`lib.rs` 428). An attempt interrupted after the archive was
   created can be repeated only with `--force`.
3. `output_in_source`: with `-d` and `-o` inside the source, `delete_path` removes the
   archive with the source and the command reports success.
4. `concurrent_packs`: two `pack -d` of one directory. B passes the existence check
   before A's archive is there; A packs, verifies and begins to delete; B takes its
   snapshot of the rest; A ends with success; B writes the rest over A's archive, verifies
   it and ends with success. No fault is needed, and no `--force`. The run uses
   plain deletions, with the rest of the tree in one piece.
5. `resume_is_source`: the resume file of `x.7z` is `x.resume`. `pack --7z x.resume`
   writes its resume state over the source before it packs it. With age the resume file is
   `x.age.tar.resume` and this cannot happen (proved for every name).

Further divergences, visible in the model and listed as hazards: with a full stderr pipe
`pack --7z` hangs; a progress line that is not UTF-8 (a file name) kills the child; a
secure deletion overwrites what a link of the tree leads to, and stops half-way at a link to a
directory, or at a link or a special file in a subdirectory; a source that is a special file
stays although the deletion reports success; an identity loaded while the user replaces
its two files may be halves of two pairs; `verify --identity` fails on archives that
`extract --identity` opens; `.7z`, the archive of a source without a stem, can neither be
verified nor extracted under that name. Also: `--resume -d` returns Ok
without deleting; `--resume` under another password returns Ok for an archive that
password does not open; `--recipient -d` can never verify.

## Proofs

`RamzPackProofs` proves, for every choice of the constants that satisfies the module's
assumptions (so for any number of faults, edits, contents, passwords and options):

| Theorem | Property | Beyond the module's assumptions |
|---|---|---|
| `TypeCorrect` | `TypeOK` | none |
| `SourceIsYielded` | `SourceYieldsToArchive` | `Apart` |
| `ArchiveIsKept` | `NoClobber` | `Apart`, age backend |
| `PartialMarked` | `PartialIsMarked` | `Apart`, `NoEmptySource` |
| `ResumeHonest` | `ResumeIsHonest` | `Apart`, `NoEmptySource`, `Quiet` |
| `MoveCompletes` | `MoveIsComplete` | `Apart`, `Quiet` |
| `NothingIsLost` | `NoDataLoss` | `Apart`, `Quiet`, `NoForce` |
| `WreckMarked` | `WreckIsMarked` | `Apart`, `Quiet`, `NoForce` |
| `PackKeepsPromise` | `KeepsPromise` | `Apart`, `Quiet`, `NoForce` |

`Apart`: the output is not inside the source. `NoEmptySource`: no source has size zero,
nor has a file that a stopped overwrite left.
`Quiet`: no edit while the command runs. `NoForce`: no `--force`. Each is needed: the runs
above show what happens without the first two; without `Quiet` an edit after the snapshot
is deleted unread; with `--force` a second attempt may pack what a stopped deletion left.

The argument. `FileInv` says what the two files are at each step: the resume file says
"started" from before the archive is touched until after it is written, and from then to
the return the archive is the one this invocation wrote. `NoDataLoss` is not inductive on
its own: after a deletion died half-way, the next command could pack the remains over the
archive. `CustodyInv` adds why it cannot. Such a source has a finished resume file, so a
resumed command compares checksums and ends there whichever way the comparison goes (the
archive exists, so an equal checksum means "complete"); and it has an archive, so a command
without `--resume` ends at the existence check. Hence no command with such a source gets
past the existence check.

`KeygenProofs` proves `TypeCorrect`, `SealedOpens`, `LoadedIsPair` and `SecretKeyKept`,
the four properties of `Keygen`, for any set of keygens and passwords. The invariant,
`FilesInv`: while keygens do not overlap, the one at work has found no file and the files
are what it has written so far (`PublicAt`, `SecretAt`); a keygen that succeeded has its
key in the secret file or the user removed it (`Kept`); two whole files are one pair
(`Pair`); what a loader has read is still there or the user moved it, and until then no
keygen of `later` has got past the existence check, so that every secret key that does not
fit is of `later` (`LoaderFits`).

`SevenZPipeProofs` proves the properties of the pipes for every capacity and every amount
of output. Blocking is excluded by cases on who waits for whom: `ReaderStays` says that the
parent leaves the first loop only after the child ended or garbled a line, so a child blocked
on stdout always finds a reader, and a child blocked on stderr finds one but in the jam.
`BlocksAtOverflow` adds `Unread`: while the parent is in the first loop, everything the child
has said is still in the stderr pipe. So what is in a full pipe is all that was said.
`RoomToSpeak` keeps a begun write within the child's allowance; `StatusIsTrue` and
`ResultIsStatus` carry success from the archive to the result. `FailureIsExplained` rests on
`Faithful`: at every moment what the child said is what the parent has read followed by what
is in the pipe, and the lines it kept are, in order and each once, the read ones that say
something; the second loop ends only with an empty pipe and a dead child, or with a garbled
line.

`SecureDeleteProofs` proves the four properties of `SecureDelete` for every file system that
satisfies `LayoutAssumption` (the tree hangs together below its root) and every number of
passes. `Scope` says that whatever is visited or overwritten is of the tree; `Attached`, that
what is left of it hangs together, so that an empty directory of the model is empty; `Walked`,
that what the walk has passed and left behind is a special file or a link, and no link to a
file outside - without it neither `RemovedIsWiped` survives `remove_dir_all` nor does
`FailsForAReason` the `remove_dir` in the loop. Its second half rests on `Stuck`: what must
stop the walk is still there, and the place where it will stop it is still to come.

`MoveProofs` proves all of the invariants above of the composition, each from the theorem of
its component (the other component's steps leave its variables alone), and `KeepsPromise`
from `Guarded`: the source is intact until the deletion begins, and it begins only with an
archive that can be read back.

`ContainerProofs` proves `TypeOK` (the cursor), `OnlyRightKeyOpens` and `UnpackedIsOpened`
for any number of credentials and any damage that is a file and forges no sealed token
(`DamageAssumption`). The lemmas say which sealed tokens an archive of each format holds
(`Safe`); an opened payload then names the key it was sealed with, and the key names the
credential.

It also proves `IntactOpens`. Its invariant (`Agreed`, under `Intact`) is that the decoder
is in step with the encoder, while the command passes on what the user gave (`PassedOn`;
where it does not, `OnlyRightKeyOpens` has shown that it cannot succeed): what stands
between the cursor and the end of the file is the rest of the layout that `Encode` wrote,
beginning with the field `plan` asks for next, and the fields read so far have the values
that were written. Both checks of `read_slice` then pass, because the length they are given
is the length that was written, for sealed texts and KEM ciphertexts of any length. This
needs `MemoryAssumption`: an archive that exists is no longer than `UsizeMax`.

`TextProofs` proves what the names and the resume files of `FileFormats` promise, for every
input, and `ContainerProofs` takes it from there to `NamesApart` (`NamesStayApart`) and
`ResumeFileIsSafe` (`ResumeFileSafe`). The lemma `InputsAreAdded` carries the theorems about
`Spec` to the behaviours of that run.

- Names: `AgeNeverMeets`, `SevenZMeets`, `NamesAreRead`, `ArchivesMeetByStem`, from the
  lengths and last parts of the names made. `PartAssumption` says that the suffixes ramz
  writes are parts, and that a lossy conversion never turns another part into one of them or
  into nothing (the replacement character is visible).
- Resume files: `RenderLayout` gives the place of each of the eight line breaks that
  `save_resume_state` writes, `SixLinesFound` the first five breaks of any part of the text
  and the lines between them. `NumbersRead`: a reader whose fifth break is the writer's reads
  the two numbers, since the lines before it are one mark long. With paths of one line the
  fifth breaks agree by counting (`HeadIsRead`). With other paths a reader that finds the
  checksum in its sixth line has found it inside one field, so inside the field of the
  checksum, hence behind its break (`ChecksumIsRead`). That is where
  `IsResumeState` is needed: a path of several lines that spelled out the checksum of its own
  content could move it to another line.

Counting lines and finding the first of them are inductions over data; they are done with
the least number of a set and the cardinality theorems of the library.

`WorkspaceProofs` proves `OriginalsSafe`: `OriginalsKept` holds whenever no source has the
name of a resume file that a pack writes. The run `resume_is_source` shows that this is needed.

Only model-checked: `ForcedRetryCreates` and `EndsUnlessJammed`; liveness under fairness
is out of the prover's reach. Every invariant, action property and refinement that a passing
run checks is proved.

## Not modelled

- The size estimate of a dry run and the choice of the compression level: arithmetic that is
  printed or handed to a compressor and changes no state; the estimate is in floating point.
- The cryptographic primitives and their key sizes, tar, zstd, 7z, and where a tar puts its
  entries: external, symbolic in `Container`.
- The bytes under the checksum: a checksum that may collide stands for them, so no result
  rests on their being unambiguous.
- Bytes on the medium: unsynced writes at a power cut, `set_len(0)` giving blocks back
  before an overwrite, wear levelling (which the code's own comment excludes).
- A `usize` of 32 bits, where `pos + ek_len` of a recipient file could wrap.
- Prompts beyond accepted or rejected, progress, printing, permission bits.
- Tests, build files and documents. One divergence of the documents is outside every model:
  README.md:284 says keygen writes `<PATH>` and `<PATH>.pub`, the code (`main.rs` 640-643)
  makes a directory `<PATH>` with `identity` and `identity.pub`.

What could follow: a lock around `run()` in `Concurrent`, and what it would have to cover
for `NothingLostAtRest`; a keygen whose files are taken away while it writes them.
