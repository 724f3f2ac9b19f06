------------------------------- MODULE Keygen -------------------------------
(***************************************************************************)
(* `ramz keygen` and those who use its two files: the Keygen arm of run(), *)
(* Identity::save and Identity::load_with_password                         *)
(* (backends-age/src/identity.rs), and the recipient file as `pack         *)
(* --recipient` reads it.                                                  *)
(*                                                                         *)
(* One output directory.  Any number of keygens are started in it, one     *)
(* after another or at the same time; nothing locks the directory.  Each   *)
(* generates one key pair, so a run also names its pair.  A sender may     *)
(* read the public file whenever it is there, and `verify --identity` and  *)
(* `extract --identity` read first the one file and then the other.        *)
(***************************************************************************)
EXTENDS Naturals

CONSTANTS
    Runs,       \* the keygens, each with the key pair it generates
    Passwords,
    NoPassword  \* keygen without --password, load with ""

ASSUME PasswordAssumption == NoPassword \notin Passwords

VARIABLES
    pub,      \* the file identity.pub
    sec,      \* the file identity
    pc,       \* run -> the step it is at
    pw,       \* run -> the password that protects its secret key
    loader,   \* a load_with_password: the keys read so far, and as history the
              \* keygens not yet started at its first read and whether the user
              \* took that public file away since
    \* history
    sealed,   \* the keys some --recipient archive was made for
    cleared,  \* the keys whose secret file the user removed
    crowded   \* did two keygens ever run at the same time?

files == <<pub, sec>>
vars == <<pub, sec, pc, pw, loader, sealed, cleared, crowded>>

Secrets == Passwords \cup {NoPassword}

Absent == [kind |-> "absent"]
Torn == [kind |-> "torn"]  \* created, and cut before the end its lengths give

\* Mutant: the secret layout goes into the public file.
PublicAsSecret(r) == [kind |-> "whole", of |-> r, lock |-> NoPassword]

PublicKey(r) == [kind |-> "whole", of |-> r]
SecretKey(r, p) == [kind |-> "whole", of |-> r, lock |-> p]

Exists(f) == f.kind # "absent"
Whole(f) == f.kind = "whole"

Working ==
    {"prompt", "create public", "write public", "create secret",
     "write secret", "set mode"}
Active(r) == pc[r] \in Working

NothingLoaded == [step |-> "idle"]

Init ==
    /\ pub = Absent
    /\ sec = Absent
    /\ pc = [r \in Runs |-> "new"]
    /\ pw = [r \in Runs |-> NoPassword]
    /\ loader = NothingLoaded
    /\ sealed = {}
    /\ cleared = {}
    /\ crowded = FALSE

At(r, l) == pc[r] = l
Goto(r, l) == pc' = [pc EXCEPT ![r] = l]

(***************************************************************************)
(* keygen                                                                  *)
(***************************************************************************)
\* Mutants: one of the two paths is not looked at, or both must be there.
OnlyPublicChecked == Exists(pub)
BothMustExist == Exists(pub) /\ Exists(sec)

IdentityExists == Exists(pub) \/ Exists(sec)

CheckFiles(r) ==
    /\ At(r, "new")
    /\ Goto(r, IF IdentityExists THEN "refused" ELSE "prompt")
    /\ crowded' = (crowded \/ (~IdentityExists /\ \E s \in Runs : Active(s)))
    /\ UNCHANGED <<files, pw, loader, sealed, cleared>>

\* Without --password nothing is asked; with it, a mismatch or an empty answer
\* ends the run before anything is written.
ChoosePassword(r) ==
    /\ At(r, "prompt")
    /\ \/ /\ \E p \in Secrets : pw' = [pw EXCEPT ![r] = p]
          /\ Goto(r, "create public")
       \/ /\ Goto(r, "failed")
          /\ UNCHANGED pw
    /\ UNCHANGED <<files, loader, sealed, cleared, crowded>>

CreatePublic(r) ==
    /\ At(r, "create public")
    /\ pub' = Torn
    /\ Goto(r, "write public")
    /\ UNCHANGED <<sec, pw, loader, sealed, cleared, crowded>>

WritePublic(r) ==
    /\ At(r, "write public")
    /\ pub' = PublicKey(r)
    /\ Goto(r, "create secret")
    /\ UNCHANGED <<sec, pw, loader, sealed, cleared, crowded>>

CreateSecret(r) ==
    /\ At(r, "create secret")
    /\ sec' = Torn
    /\ Goto(r, "write secret")
    /\ UNCHANGED <<pub, pw, loader, sealed, cleared, crowded>>

WriteSecret(r) ==
    /\ At(r, "write secret")
    /\ sec' = SecretKey(r, pw[r])
    /\ Goto(r, "set mode")
    /\ UNCHANGED <<pub, pw, loader, sealed, cleared, crowded>>

SetMode(r) ==
    /\ At(r, "set mode")
    /\ Goto(r, "created")
    /\ UNCHANGED <<files, pw, loader, sealed, cleared, crowded>>

\* Any `?` of Identity::save, or a kill: the files stay as they are.
Interrupt(r) ==
    /\ Active(r)
    /\ Goto(r, "failed")
    /\ UNCHANGED <<files, pw, loader, sealed, cleared, crowded>>

Keygen(r) ==
    \/ CheckFiles(r) \/ ChoosePassword(r)
    \/ CreatePublic(r) \/ WritePublic(r)
    \/ CreateSecret(r) \/ WriteSecret(r) \/ SetMode(r)
    \/ Interrupt(r)

(***************************************************************************)
(* Those who use the files.                                                *)
(***************************************************************************)
\* `pack --recipient identity.pub`; a torn file is refused.
SealFor ==
    /\ Whole(pub)
    /\ sealed' = sealed \cup {pub.of}
    /\ UNCHANGED <<files, pc, pw, loader, cleared, crowded>>

LoadPublic ==
    /\ loader = NothingLoaded
    /\ Whole(pub)
    /\ loader' = [step |-> "secret", ek |-> pub.of,
                   later |-> {r \in Runs : At(r, "new")}, moved |-> FALSE]
    /\ UNCHANGED <<files, pc, pw, sealed, cleared, crowded>>

\* An unprotected key is read whatever the password is.
Unlocks(f, p) == Whole(f) /\ f.lock \in {NoPassword, p}

LoadSecret ==
    /\ loader.step = "secret"
    /\ \E p \in Secrets :
         loader' = IF Unlocks(sec, p)
                     THEN [step |-> "loaded", ek |-> loader.ek, dk |-> sec.of,
                           later |-> loader.later, moved |-> loader.moved]
                     ELSE NothingLoaded
    /\ UNCHANGED <<files, pc, pw, sealed, cleared, crowded>>

EndLoad ==
    /\ loader.step = "loaded"
    /\ loader' = NothingLoaded
    /\ UNCHANGED <<files, pc, pw, sealed, cleared, crowded>>

\* The user clears away or moves one of the files; a loader may be between its
\* two reads.  Left out: files taken away under a keygen that is writing them.
Tidy ==
    /\ \A r \in Runs : ~Active(r)
    /\ UNCHANGED <<pc, pw, sealed, crowded>>
    /\ \/ /\ Exists(pub)
          /\ pub' = Absent
          /\ loader' = IF loader.step = "secret"
                         THEN [loader EXCEPT !.moved = TRUE]
                         ELSE loader
          /\ UNCHANGED <<sec, cleared>>
       \/ /\ Exists(sec)
          /\ sec' = Absent
          /\ cleared' = IF Whole(sec) THEN cleared \cup {sec.of} ELSE cleared
          /\ UNCHANGED <<pub, loader>>

Next ==
    \/ \E r \in Runs : Keygen(r)
    \/ SealFor \/ LoadPublic \/ LoadSecret \/ EndLoad \/ Tidy

Spec == Init /\ [][Next]_vars

-----------------------------------------------------------------------------

Labels == Working \cup {"new", "refused", "created", "failed"}

PublicFiles == {Absent, Torn} \cup [kind : {"whole"}, of : Runs]
SecretFiles == {Absent, Torn} \cup [kind : {"whole"}, of : Runs, lock : Secrets]
Loaders ==
    {NothingLoaded}
        \cup [step : {"secret"}, ek : Runs, later : SUBSET Runs, moved : BOOLEAN]
        \cup [step : {"loaded"}, ek : Runs, dk : Runs, later : SUBSET Runs,
              moved : BOOLEAN]

TypeOK ==
    /\ pub \in PublicFiles
    /\ sec \in SecretFiles
    /\ pc \in [Runs -> Labels]
    /\ pw \in [Runs -> Secrets]
    /\ loader \in Loaders
    /\ sealed \subseteq Runs
    /\ cleared \subseteq Runs
    /\ crowded \in BOOLEAN

\* An archive made for a public key whose keygen reported success can be opened
\* with the password given to that keygen, until the user removes the secret
\* file - whatever keygens were started, cut short or refused since, and
\* whatever the user did to the public file.  This is the existence check of
\* run() before Identity::save; it is not enough for keygens at the same time.
SealedCanBeOpened ==
    ~crowded =>
        \A r \in sealed :
            At(r, "created") =>
                \/ r \in cleared
                \/ Unlocks(sec, pw[r]) /\ sec.of = r

\* load_with_password reads the two files one after the other and compares
\* nothing.  As long as keygens do not overlap, it returns halves of two pairs
\* only if between its reads the user took the public file away and a keygen
\* that had not been started before wrote its secret key: no refused or failed
\* keygen, no cleared secret file and no earlier keygen can mix them.
LoadedPairMatches ==
    ~crowded /\ loader.step = "loaded" /\ loader.ek # loader.dk =>
        loader.moved /\ loader.dk \in loader.later

\* A secret key that was written to its end is changed by nobody but the user,
\* as long as keygens do not overlap.
SecretStays ==
    ~crowded' /\ Whole(sec) => sec' = sec \/ sec.of \in cleared'
SecretIsKept == [][SecretStays]_vars
=============================================================================
