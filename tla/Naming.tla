------------------------------- MODULE Naming -------------------------------
(***************************************************************************)
(* The names ramz makes from a name it is given: the archive (run() and,   *)
(* again, estimate_archive_size), the resume file beside it                *)
(* (resume_state_path) and the directory `extract` fills.  A file name is  *)
(* the sequence of its parts between dots: .bashrc is <<"", "bashrc">>.    *)
(***************************************************************************)
EXTENDS Naturals, Sequences

CONSTANTS
    Parts,  \* what may stand between dots
    Lossy   \* part -> part, to_string_lossy: what is not UTF-8 is replaced, visibly

Suffixes == {"age", "tar", "zst", "7z", "resume"}

PartAssumption ==
    /\ Suffixes \cup {""} \subseteq Parts
    /\ Lossy \in [Parts -> Parts]
    /\ \A p \in Parts : {p, Lossy[p]} \cap (Suffixes \cup {""}) # {} => Lossy[p] = p

Names == Seq(Parts) \ {<<>>}

\* "." and "..": file_stem is None, and the empty name stands in for it.
NoName == <<"">>

Front(n) == SubSeq(n, 1, Len(n) - 1)

\* Path::file_stem: a name that begins with its only dot has no extension.
HasExtension(n) == Len(n) > 1 /\ Front(n) # <<"">>
Stem(n) == IF HasExtension(n) THEN Front(n) ELSE n

WithExtension(n, e) == Append(Stem(n), e)

Printed(n) == [i \in 1 .. Len(n) |-> Lossy[n[i]]]

Extension(backend) == IF backend = "age" THEN <<"age", "tar", "zst">> ELSE <<"7z">>

\* Mutant: the name keeps what with_extension leaves of it.
ExtensionReplaced(n, backend) ==
    WithExtension(Printed(n), IF backend = "age" THEN "zst" ELSE "7z")

ArchiveName(n, backend) == Printed(Stem(n)) \o Extension(backend)

\* The dry run makes the name on its own.
DryRunName(n, backendName) ==
    Printed(Stem(n)) \o (IF backendName = "age" THEN <<"age", "tar", "zst">> ELSE <<"7z">>)

StateName(archive) == WithExtension(archive, "resume")

\* verify and extract choose the backend by the extension of the archive.
ChosenBackend(archive) ==
    IF HasExtension(archive) /\ archive[Len(archive)] = "7z" THEN "7z" ELSE "age"

ExtractDir(archive) == Stem(archive)

-----------------------------------------------------------------------------

\* With the age backend neither of the files written is the source, nor each
\* other, whatever the source is called.
AgeNamesApart(n) ==
    LET a == ArchiveName(n, "age")
    IN  n # a /\ n # StateName(a) /\ a # StateName(a)

\* With the 7z backend the archive can be the source and so can the resume
\* file, and only for these two extensions.
SevenZNamesMeet(n) ==
    LET a == ArchiveName(n, "7z")
        Ends(e) == HasExtension(n) /\ Printed(Front(n)) = Front(n) /\ n[Len(n)] = e
    IN  /\ a = n <=> Ends("7z")
        /\ StateName(a) = n <=> Ends("resume")
        /\ a # StateName(a)

\* Two sources share an archive only if their stems print alike, and archives of
\* different backends are different files.
ArchivesMeet(m, n) ==
    /\ \A b \in {"age", "7z"} :
         ArchiveName(m, b) = ArchiveName(n, b) <=> Printed(Stem(m)) = Printed(Stem(n))
    /\ ArchiveName(m, "age") # ArchiveName(n, "7z")

\* Under the name it was given an archive is read by the backend that made it,
\* extracted into a directory that is not the archive itself, and the dry run
\* reports that name.  Not so the 7z archive of a source without a name: .7z has
\* no extension, so it is handed to age and its stem is the archive.
NameIsRead(n) ==
    \A b \in {"age", "7z"} :
        LET a == ArchiveName(n, b)
            readable == n # NoName \/ b = "age"
        IN  /\ ChosenBackend(a) = b <=> readable
            /\ ExtractDir(a) # a <=> readable
            /\ DryRunName(n, b) = a
=============================================================================
