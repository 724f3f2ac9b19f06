----------------------------- MODULE MCRamzPack -----------------------------
(***************************************************************************)
(* Values for model checking RamzPack: a file, a tree, what is left of     *)
(* them by a deletion that stopped (of the tree a part or an empty         *)
(* directory, of the file an overwritten one), and the command lines of    *)
(* each run.                                                               *)
(***************************************************************************)
EXTENDS RamzPack

CONSTANTS file, tree, rest, empty, blank, p1, p2

MCDocs == {file, tree}
MCTreeDocs == {tree}
MCWrecks == {rest, empty, blank}
MCHollow == {empty}
MCTrees == {tree, rest, empty}

\* A directory {x: "y"} and a file "x\0y" feed compute_file_checksum the same
\* bytes: here what is left of the deletion has the checksum of the file.
MCChecksums == {"c1", "c2", "c3"}
MCChecksumOf ==
    [c \in Contents \cup {Gone} |->
        IF c \in {file, rest} THEN "c1" ELSE IF c = tree THEN "c2" ELSE "c3"]

\* dir_size.  An overwrite that stopped may leave the file truncated; a second
\* assignment has it filled up again, a third has an empty file to start with.
MCSizeOf ==
    [c \in Contents |-> IF c = tree THEN 2 ELSE IF c = blank THEN 0 ELSE 1]
MCSizeOfFilled == [c \in Contents |-> IF c = tree THEN 2 ELSE 1]
MCSizeOfEmptyFile == [c \in Contents |-> IF c = tree THEN 2 ELSE 0]

Plain ==
    [pw |-> p1, recipient |-> FALSE, hybrid |-> FALSE, force |-> FALSE,
     resume |-> FALSE, delete |-> FALSE, secure |-> FALSE, dry |-> FALSE]
ForRecipient == [Plain EXCEPT !.recipient = TRUE, !.pw = NoPassword]

\* Every combination of resume and the three ways to keep or delete the source.
Moves(o) ==
    {[o EXCEPT !.resume = r, !.delete = d # "keep", !.secure = d = "secure"] :
        r \in BOOLEAN, d \in {"keep", "delete", "secure"}}

\* Commands refused before any work, or that only estimate.
Refused ==
    {[Plain EXCEPT !.pw = EmptyPassword],
     [ForRecipient EXCEPT !.pw = p1],
     [Plain EXCEPT !.dry = TRUE, !.resume = TRUE],
     [Plain EXCEPT !.hybrid = TRUE, !.delete = TRUE]}

Forced(os) == {[o EXCEPT !.force = TRUE] : o \in os}

UnforcedOptions ==
    Moves(Plain) \cup Moves([Plain EXCEPT !.pw = p2]) \cup Moves(ForRecipient) \cup Refused
AllOptions ==
    LET os == Moves(Plain) \cup {ForRecipient} IN os \cup Forced(os)
ForcedKeepOptions == Forced({Plain, ForRecipient})
ResumeOptions == {Plain, [Plain EXCEPT !.resume = TRUE]}
ResumeMoveOptions == {o \in Moves(Plain) : o.delete}
=============================================================================
