------------------------------ MODULE Custody ------------------------------
(***************************************************************************)
(* What `ramz pack` promises, with no program in sight: the content the    *)
(* user last wrote is in the source, in the archive or in both, and it     *)
(* leaves one place only while the other has it.                           *)
(***************************************************************************)
CONSTANT Docs

VARIABLES
    want,       \* the content in question
    inSource,   \* the source holds it
    inArchive   \* an archive holds it, and can be opened

vars == <<want, inSource, inArchive>>

TypeOK == want \in Docs /\ inSource \in BOOLEAN /\ inArchive \in BOOLEAN

Init == want \in Docs /\ inSource = TRUE /\ inArchive = FALSE

\* The user writes something new; an old archive may happen to hold it.
Write ==
    /\ want' \in Docs
    /\ inSource' = TRUE
    /\ inArchive' \in BOOLEAN

Archive == inSource /\ inArchive' = TRUE /\ UNCHANGED <<want, inSource>>

Discard == inSource /\ inArchive' = FALSE /\ UNCHANGED <<want, inSource>>

Release == inArchive /\ inSource' = FALSE /\ UNCHANGED <<want, inArchive>>

Next == Write \/ Archive \/ Discard \/ Release

Spec == Init /\ [][Next]_vars

\* The user's content is always somewhere it can be read from: the promise of
\* verifying before deleting.
NeverLost == inSource \/ inArchive
=============================================================================
