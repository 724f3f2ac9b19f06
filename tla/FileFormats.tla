----------------------------- MODULE FileFormats ----------------------------
(***************************************************************************)
(* Everything that is decided by what a file is called or by what it says: *)
(* reading an archive (Container), the names of the files (Naming) and the *)
(* text of a resume file (StateFile).  The last two keep no state; their   *)
(* inputs stand beside an archive of no bytes and are looked at once.      *)
(***************************************************************************)
EXTENDS Container, Naming, StateFile

CONSTANTS
    SomeNames,  \* names of sources to look at
    SomeStates  \* resume states to save

ASSUME InputAssumption ==
    /\ PartAssumption
    /\ SomeNames # {} /\ SomeNames \subseteq Names
    /\ SomeStates # {} /\ \A s \in SomeStates : IsResumeState(s)

VARIABLES name, saved

aName == CHOOSE n \in SomeNames : TRUE
aState == CHOOSE s \in SomeStates : TRUE

EmptyFile ==
    /\ file = [tokens |-> <<>>, extension |-> "zst"]
    /\ made.format = "age"
    /\ command.name = "verify" /\ command.pw = made.pw /\ command.id = NoIdentity

\* A behaviour reads one archive, or has one name or one resume file to look at.
InputsInit ==
    /\ Init
    /\ \/ name = aName /\ saved = aState
       \/ EmptyFile /\ name \in SomeNames /\ saved = aState
       \/ EmptyFile /\ name = aName /\ saved \in SomeStates

allVars == <<vars, name, saved>>

InputsSpec == InputsInit /\ [][Next /\ UNCHANGED <<name, saved>>]_allVars

-----------------------------------------------------------------------------

\* The inputs do not change: they are looked at once.
LookedAt == EmptyFile /\ pc = "start"

\* Which files of a pack can be one and the same, and that pack, dry run, verify
\* and extract agree on the archive's name (run(), resume_state_path).
NamesApart ==
    LookedAt =>
        /\ AgeNamesApart(name)
        /\ SevenZNamesMeet(name)
        /\ NameIsRead(name)
        /\ \A other \in SomeNames : ArchivesMeet(name, other)

\* A resume file cut anywhere misleads nobody, and one that is whole is read as
\* it was saved: why RamzPack may call every cut file Torn.
ResumeFileIsSafe ==
    LookedAt => CutsAreSafe(saved) /\ RoundTrip(saved)
=============================================================================
