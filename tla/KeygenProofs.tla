---------------------------- MODULE KeygenProofs ----------------------------
(***************************************************************************)
(* Theorems about Keygen for any number of keygens and any passwords.      *)
(***************************************************************************)
EXTENDS Keygen, TLAPS

-----------------------------------------------------------------------------
(***************************************************************************)
(* Type correctness.                                                       *)
(***************************************************************************)
LEMMA InitType == Init => TypeOK
  BY DEF Init, TypeOK, PublicFiles, SecretFiles, Loaders, NothingLoaded, Absent,
         Labels, Secrets

LEMMA KeygenType ==
  ASSUME TypeOK, NEW r \in Runs, Keygen(r)
  PROVE  TypeOK'
<1> USE DEF TypeOK, files, Goto, At, Active, Working, Labels
<1>1. CASE CheckFiles(r)
  BY <1>1 DEF CheckFiles, IdentityExists, Exists
<1>2. CASE ChoosePassword(r)
  BY <1>2 DEF ChoosePassword
<1>3. CASE CreatePublic(r)
  BY <1>3 DEF CreatePublic, PublicFiles
<1>4. CASE WritePublic(r)
  BY <1>4 DEF WritePublic, PublicFiles, PublicKey
<1>5. CASE CreateSecret(r)
  BY <1>5 DEF CreateSecret, SecretFiles
<1>6. CASE WriteSecret(r)
  BY <1>6 DEF WriteSecret, SecretFiles, SecretKey
<1>7. CASE SetMode(r)
  BY <1>7 DEF SetMode
<1>8. CASE Interrupt(r)
  BY <1>8 DEF Interrupt
<1> QED
  BY <1>1, <1>2, <1>3, <1>4, <1>5, <1>6, <1>7, <1>8 DEF Keygen

LEMMA NextType == TypeOK /\ [Next]_vars => TypeOK'
<1> SUFFICES ASSUME TypeOK, [Next]_vars
             PROVE  TypeOK'
  OBVIOUS
<1> USE DEF TypeOK, files
<1>1. CASE \E r \in Runs : Keygen(r)
  BY <1>1, KeygenType
<1>2. CASE SealFor
  BY <1>2 DEF SealFor, Whole, PublicFiles, Absent, Torn
<1>3. CASE LoadPublic
  BY <1>3 DEF LoadPublic, Whole, PublicFiles, Absent, Torn, Loaders
<1>4. CASE LoadSecret
  BY <1>4 DEF LoadSecret, Unlocks, Whole, SecretFiles, Absent, Torn, Loaders, NothingLoaded
<1>5. CASE EndLoad
  BY <1>5 DEF EndLoad, Loaders
<1>6. CASE Tidy
  <2>1. /\ pub' \in PublicFiles /\ sec' \in SecretFiles /\ cleared' \subseteq Runs
        /\ UNCHANGED <<pc, pw, sealed, crowded>>
    BY <1>6 DEF Tidy, PublicFiles, SecretFiles, Exists, Whole, Absent, Torn
  <2>2. loader' \in Loaders
    <3>1. CASE loader.step = "secret"
      BY <1>6, <3>1 DEF Tidy, Loaders, NothingLoaded
    <3>2. CASE loader.step # "secret"
      BY <1>6, <3>2 DEF Tidy
    <3> QED
      BY <3>1, <3>2
  <2> QED
    BY <2>1, <2>2
<1>7. CASE UNCHANGED vars
  BY <1>7 DEF vars
<1> QED
  BY <1>1, <1>2, <1>3, <1>4, <1>5, <1>6, <1>7 DEF Next

\* The variables keep their types.
THEOREM TypeCorrect == Spec => []TypeOK
  BY InitType, NextType, PTL DEF Spec

-----------------------------------------------------------------------------
(***************************************************************************)
(* While keygens do not overlap, the one at work knows what the files are: *)
(* it found none, and nobody else writes them.  When none is at work, two  *)
(* complete files are those of one keygen.                                 *)
(***************************************************************************)
Alone == \A r, s \in Runs : Active(r) /\ Active(s) => r = s

PublicAt(r) ==
    /\ pc[r] \in {"prompt", "create public"} => pub = Absent
    /\ pc[r] = "write public" => pub = Torn
    /\ pc[r] \in {"create secret", "write secret", "set mode"} => pub = PublicKey(r)

SecretAt(r) ==
    /\ pc[r] \in {"prompt", "create public", "write public", "create secret"} =>
         sec = Absent
    /\ pc[r] = "write secret" => sec = Torn
    /\ pc[r] = "set mode" => sec = SecretKey(r, pw[r])

Pair == Whole(pub) /\ Whole(sec) => pub.of = sec.of

\* A keygen that reported success has its key in the secret file.
Kept(r) == pc[r] = "created" => r \in cleared \/ sec = SecretKey(r, pw[r])

\* Between its two reads a loader finds the pair it began with, unless the user
\* took the public file away: then keygens that had not started may have come.
LoaderFits ==
    /\ loader.step = "secret" =>
         /\ loader.moved \/ pub = PublicKey(loader.ek)
         /\ Whole(sec) =>
              sec.of = loader.ek \/ (loader.moved /\ sec.of \in loader.later)
         /\ \A r \in Runs :
              pc[r] = "new" \/ (loader.moved /\ pc[r] \in Working) => r \in loader.later
    /\ loader.step = "loaded" =>
         loader.ek = loader.dk \/ (loader.moved /\ loader.dk \in loader.later)

FilesInv ==
    ~crowded =>
        /\ Alone
        /\ \A r \in Runs : PublicAt(r) /\ SecretAt(r) /\ Kept(r)
        /\ Pair
        /\ LoaderFits

LEMMA InitFiles == Init => FilesInv
  BY DEF Init, FilesInv, Alone, Active, Working, PublicAt, SecretAt, Kept, Pair,
         LoaderFits, Whole, Absent, NothingLoaded

\* A keygen at work writes its own pair, or one that a loader knows to be later.
LEMMA KeygenLoader ==
  ASSUME TypeOK, FilesInv, ~crowded, NEW r \in Runs, Keygen(r)
  PROVE  LoaderFits'
<1> USE DEF Goto, At, files
<1>i. PublicAt(r) /\ SecretAt(r) /\ LoaderFits
  BY DEF FilesInv
<1>t. pc \in [Runs -> Labels]
  BY DEF TypeOK
<1>l. UNCHANGED loader
  BY DEF Keygen, CheckFiles, ChoosePassword, CreatePublic, WritePublic, CreateSecret,
         WriteSecret, SetMode, Interrupt
<1>1. CASE loader.step # "secret"
  BY <1>i, <1>l, <1>1 DEF LoaderFits
<1>2. CASE loader.step = "secret"
  <2>1. loader.moved \/ pub' = PublicKey(loader.ek)
    <3>1. CASE pub = Absent \/ pub = Torn
      BY <1>2, <1>i, <3>1 DEF LoaderFits, PublicKey, Absent, Torn
    <3>2. CASE pub # Absent /\ pub # Torn
      <4>1. pc[r] \notin {"create public", "write public"}
        BY <1>i, <3>2 DEF PublicAt
      <4>2. UNCHANGED pub
        BY <4>1 DEF Keygen, CheckFiles, ChoosePassword, CreatePublic, WritePublic,
                    CreateSecret, WriteSecret, SetMode, Interrupt
      <4> QED
        BY <1>2, <1>i, <4>2 DEF LoaderFits
    <3> QED
      BY <3>1, <3>2
  <2>2. ASSUME Whole(sec')
        PROVE  sec'.of = loader.ek \/ (loader.moved /\ sec'.of \in loader.later)
    <3>1. CASE WriteSecret(r)
      <4>1. /\ sec'.of = r /\ pub = PublicKey(r) /\ pc[r] \in Working
        BY <1>i, <3>1 DEF WriteSecret, PublicAt, SecretKey, Working
      <4>2. CASE loader.moved
        BY <1>2, <1>i, <4>1, <4>2 DEF LoaderFits
      <4>3. CASE ~loader.moved
        BY <1>2, <1>i, <4>1, <4>3 DEF LoaderFits, PublicKey
      <4> QED
        BY <4>2, <4>3
    <3>2. CASE CreateSecret(r)
      BY <2>2, <3>2 DEF CreateSecret, Whole, Torn
    <3>3. CASE UNCHANGED sec
      BY <1>2, <1>i, <2>2, <3>3 DEF LoaderFits
    <3> QED
      BY <3>1, <3>2, <3>3
      DEF Keygen, CheckFiles, ChoosePassword, CreatePublic, WritePublic, SetMode, Interrupt
  <2>3. ASSUME NEW s \in Runs, pc'[s] = "new" \/ (loader.moved /\ pc'[s] \in Working)
        PROVE  s \in loader.later
    <3>1. CASE s = r
      <4>1. pc'[r] # "new" /\ (pc'[r] \in Working => pc[r] = "new" \/ pc[r] \in Working)
        BY <1>t DEF Keygen, CheckFiles, ChoosePassword, CreatePublic, WritePublic,
                    CreateSecret, WriteSecret, SetMode, Interrupt, Active, Working
      <4> QED
        BY <1>2, <1>i, <2>3, <3>1, <4>1 DEF LoaderFits
    <3>2. CASE s # r
      <4>1. pc'[s] = pc[s]
        BY <1>t, <3>2 DEF Keygen, CheckFiles, ChoosePassword, CreatePublic, WritePublic,
                          CreateSecret, WriteSecret, SetMode, Interrupt
      <4> QED
        BY <1>2, <1>i, <2>3, <4>1 DEF LoaderFits
    <3> QED
      BY <3>1, <3>2
  <2> QED
    BY <1>2, <1>l, <2>1, <2>2, <2>3 DEF LoaderFits, Whole
<1> QED
  BY <1>1, <1>2

\* Nothing a keygen writes disturbs the others when it is the only one.
LEMMA KeygenFiles ==
  ASSUME TypeOK, FilesInv, NEW r \in Runs, Keygen(r)
  PROVE  FilesInv'
<1> SUFFICES ASSUME ~crowded'
             PROVE  FilesInv'
  BY DEF FilesInv
<1>0. ~crowded
  BY DEF TypeOK, Keygen, CheckFiles, ChoosePassword, CreatePublic, WritePublic, CreateSecret,
         WriteSecret, SetMode, Interrupt
<1>i. /\ Alone
      /\ \A s \in Runs : PublicAt(s) /\ SecretAt(s) /\ Kept(s)
      /\ Pair
  BY <1>0 DEF FilesInv
<1>t. /\ pc \in [Runs -> Labels]
      /\ pw \in [Runs -> Secrets]
  BY DEF TypeOK
<1> SUFFICES /\ Alone'
             /\ \A s \in Runs : (PublicAt(s) /\ SecretAt(s) /\ Kept(s))'
             /\ Pair'
  BY <1>0, KeygenLoader DEF FilesInv
<1>o. \A s \in Runs \ {r} : Active(r) => pc[s] \notin Working
  BY <1>i DEF Alone, Active
<1>1. CASE CheckFiles(r)
  <2>1. UNCHANGED <<pub, sec, pw, cleared>>
    BY <1>1 DEF CheckFiles, files
  <2>2. CASE IdentityExists
    BY <1>i, <1>t, <1>1, <2>1, <2>2
    DEF CheckFiles, Goto, At, Active, Working, Alone, PublicAt, SecretAt, Kept, Pair
  <2>3. CASE ~IdentityExists
    <3>1. pub = Absent /\ sec = Absent
      BY <2>3 DEF IdentityExists, Exists, TypeOK, PublicFiles, SecretFiles, Torn, Absent
    <3>2. \A s \in Runs : pc[s] \notin Working
      BY <1>1, <2>3 DEF CheckFiles, Active
    <3>3. At(r, "new") /\ pc' = [pc EXCEPT ![r] = "prompt"]
      BY <1>1, <2>3 DEF CheckFiles, Goto
    <3> QED
      BY <1>i, <1>t, <2>1, <3>1, <3>2, <3>3
      DEF At, Active, Working, Alone, PublicAt, SecretAt, Kept, Pair
  <2> QED
    BY <2>2, <2>3
<1>2. CASE ChoosePassword(r)
  <2>1. /\ UNCHANGED <<pub, sec, cleared>>
        /\ At(r, "prompt")
        /\ \E l \in {"create public", "failed"} : pc' = [pc EXCEPT ![r] = l]
        /\ \A s \in Runs \ {r} : pw'[s] = pw[s]
    BY <1>2, <1>t DEF ChoosePassword, files, Goto
  <2> QED
    BY <1>i, <1>t, <2>1
    DEF At, Active, Working, Alone, PublicAt, SecretAt, Kept, Pair
<1>3. CASE CreatePublic(r)
  <2>1. /\ UNCHANGED <<sec, pw, cleared>>
        /\ At(r, "create public") /\ pc' = [pc EXCEPT ![r] = "write public"]
        /\ pub = Absent /\ pub' = Torn
    BY <1>i, <1>3 DEF CreatePublic, Goto, At, PublicAt
  <2> QED
    BY <1>i, <1>t, <1>o, <2>1
    DEF At, Active, Working, Alone, PublicAt, SecretAt, Kept, Pair, Whole,
        Absent, Torn
<1>4. CASE WritePublic(r)
  <2>1. /\ UNCHANGED <<sec, pw, cleared>>
        /\ At(r, "write public") /\ pc' = [pc EXCEPT ![r] = "create secret"]
        /\ pub = Torn /\ pub' = PublicKey(r) /\ sec = Absent
    BY <1>i, <1>4 DEF WritePublic, Goto, At, PublicAt, SecretAt
  <2> QED
    BY <1>i, <1>t, <1>o, <2>1
    DEF At, Active, Working, Alone, PublicAt, SecretAt, Kept, Pair, Whole,
        Absent, Torn
<1>5. CASE CreateSecret(r)
  <2>1. /\ UNCHANGED <<pub, pw, cleared>>
        /\ At(r, "create secret") /\ pc' = [pc EXCEPT ![r] = "write secret"]
        /\ sec = Absent /\ sec' = Torn
    BY <1>i, <1>5 DEF CreateSecret, Goto, At, SecretAt
  <2>2. \A s \in Runs : sec # SecretKey(s, pw[s])
    BY <2>1 DEF SecretKey, Absent
  <2> QED
    BY <1>i, <1>t, <1>o, <2>1, <2>2
    DEF At, Active, Working, Alone, PublicAt, SecretAt, Kept, Pair, Whole,
        Absent, Torn
<1>6. CASE WriteSecret(r)
  <2>1. /\ UNCHANGED <<pub, pw, cleared>>
        /\ At(r, "write secret") /\ pc' = [pc EXCEPT ![r] = "set mode"]
        /\ sec = Torn /\ sec' = SecretKey(r, pw[r]) /\ pub = PublicKey(r)
    BY <1>i, <1>6 DEF WriteSecret, Goto, At, SecretAt, PublicAt
  <2>2. \A s \in Runs : sec # SecretKey(s, pw[s])
    BY <2>1 DEF SecretKey, Torn
  <2>3. sec'.of = r /\ pub.of = r
    BY <2>1 DEF SecretKey, PublicKey
  <2> QED
    BY <1>i, <1>t, <1>o, <2>1, <2>2, <2>3
    DEF At, Active, Working, Alone, PublicAt, SecretAt, Kept, Pair, Whole
<1>7. CASE SetMode(r)
  <2>1. /\ UNCHANGED <<pub, sec, pw, cleared>>
        /\ At(r, "set mode") /\ pc' = [pc EXCEPT ![r] = "created"]
    BY <1>7 DEF SetMode, files, Goto
  <2> QED
    BY <1>i, <1>t, <2>1
    DEF At, Active, Working, Alone, PublicAt, SecretAt, Kept, Pair
<1>8. CASE Interrupt(r)
  <2>1. /\ UNCHANGED <<pub, sec, pw, cleared>>
        /\ pc' = [pc EXCEPT ![r] = "failed"]
    BY <1>8 DEF Interrupt, files, Goto
  <2> QED
    BY <1>i, <1>t, <2>1
    DEF Active, Working, Alone, PublicAt, SecretAt, Kept, Pair
<1> QED
  BY <1>1, <1>2, <1>3, <1>4, <1>5, <1>6, <1>7, <1>8 DEF Keygen

LEMMA SecretKeyIs ==
  ASSUME NEW f, NEW r, NEW p, f = SecretKey(r, p)
  PROVE  Whole(f) /\ f.of = r
  BY DEF SecretKey, Whole

LEMMA NextFiles == TypeOK /\ FilesInv /\ [Next]_vars => FilesInv'
<1> SUFFICES ASSUME TypeOK, FilesInv, [Next]_vars, ~crowded'
             PROVE  FilesInv'
  BY DEF FilesInv
<1>1. CASE \E r \in Runs : Keygen(r)
  BY <1>1, KeygenFiles
<1>2. CASE UNCHANGED <<pub, sec, pc, pw, loader, cleared, crowded>>
  BY <1>2 DEF FilesInv, Alone, Active, PublicAt, SecretAt, Kept, Pair, LoaderFits
<1>3. CASE LoadPublic \/ LoadSecret \/ EndLoad
  <2>1. UNCHANGED <<pub, sec, pc, pw, cleared, crowded>>
    BY <1>3 DEF LoadPublic, LoadSecret, EndLoad, files
  <2>2. Pair /\ LoaderFits
    BY <2>1 DEF FilesInv
  <2>3. LoaderFits'
    <3>1. CASE LoadPublic
      <4>1. pub = PublicKey(pub.of)
        BY <3>1 DEF LoadPublic, TypeOK, PublicFiles, Whole, Absent, Torn, PublicKey
      <4>2. Whole(sec) => sec.of = pub.of
        BY <2>2, <3>1 DEF LoadPublic, Pair
      <4>3. /\ loader'.step = "secret" /\ loader'.ek = pub.of /\ ~loader'.moved
            /\ loader'.later = {r \in Runs : pc[r] = "new"}
        BY <3>1 DEF LoadPublic, At
      <4> QED
        BY <2>1, <4>1, <4>2, <4>3 DEF LoaderFits
    <3>2. CASE loader' = NothingLoaded
      BY <3>2 DEF NothingLoaded, LoaderFits
    <3>3. CASE /\ Whole(sec)
               /\ loader.step = "secret"
               /\ loader' = [step |-> "loaded", ek |-> loader.ek, dk |-> sec.of,
                              later |-> loader.later, moved |-> loader.moved]
      BY <2>2, <3>3 DEF LoaderFits
    <3> QED
      BY <1>3, <3>1, <3>2, <3>3 DEF LoadSecret, EndLoad, Unlocks
  <2> QED
    BY <2>1, <2>3 DEF FilesInv, Alone, Active, PublicAt, SecretAt, Kept, Pair
<1>4. CASE Tidy
  <2>1. /\ UNCHANGED <<pc, pw, crowded>>
        /\ \A r \in Runs : pc[r] \notin Working
        /\ pub' = Absent \/ UNCHANGED pub
        /\ sec' = Absent \/ UNCHANGED sec
    BY <1>4 DEF Tidy, Active
  <2>2. Alone' /\ \A r \in Runs : (PublicAt(r) /\ SecretAt(r))'
    BY <2>1 DEF Alone, Active, PublicAt, SecretAt, Working
  <2>3. Pair'
    BY <2>1 DEF FilesInv, Pair, Whole, Absent
  <2>4. LoaderFits'
    <3>1. LoaderFits
      BY <2>1 DEF FilesInv
    <3>2. CASE loader.step = "secret" /\ loader' = [loader EXCEPT !.moved = TRUE]
      <4>1. loader \in [step : {"secret"}, ek : Runs, later : SUBSET Runs, moved : BOOLEAN]
        BY <3>2 DEF TypeOK, Loaders, NothingLoaded
      <4>2. /\ loader'.step = "secret" /\ loader'.ek = loader.ek /\ loader'.moved
            /\ loader'.later = loader.later
        BY <3>2, <4>1
      <4>3. Whole(sec) => sec.of = loader.ek \/ sec.of \in loader.later
        BY <3>1, <3>2 DEF LoaderFits
      <4>4. \A r \in Runs : pc[r] = "new" => r \in loader.later
        BY <3>1, <3>2 DEF LoaderFits
      <4>5. (Whole(sec) => sec.of = loader.ek \/ (loader.moved /\ sec.of \in loader.later))'
        BY <2>1, <4>2, <4>3, <1>4 DEF Whole, Absent, Tidy
      <4> QED
        BY <2>1, <4>2, <4>4, <4>5 DEF LoaderFits
    <3>3. CASE UNCHANGED <<pub, loader>>
      BY <2>1, <3>1, <3>3 DEF LoaderFits, Whole, Absent
    <3>4. CASE loader.step # "secret" /\ UNCHANGED loader
      BY <3>1, <3>4 DEF LoaderFits
    <3> QED
      BY <1>4, <3>2, <3>3, <3>4 DEF Tidy
  <2>5. ASSUME NEW r \in Runs
        PROVE  Kept(r)'
    <3>1. Kept(r)
      BY <2>1 DEF FilesInv
    <3>2. CASE UNCHANGED <<sec, cleared>>
      BY <2>1, <3>1, <3>2 DEF Kept
    <3>3. CASE cleared' = IF Whole(sec) THEN cleared \cup {sec.of} ELSE cleared
      BY <2>1, <3>1, <3>3, SecretKeyIs DEF Kept
    <3> QED
      BY <1>4, <3>2, <3>3 DEF Tidy
  <2> QED
    BY <2>2, <2>3, <2>4, <2>5 DEF FilesInv
<1> QED
  BY <1>1, <1>2, <1>3, <1>4 DEF Next, SealFor, vars, files

LEMMA Files == Spec => []FilesInv
  BY InitType, NextType, InitFiles, NextFiles, PTL DEF Spec

-----------------------------------------------------------------------------

\* An archive sealed for a key whose keygen succeeded can be opened until the
\* user removes the secret file.
THEOREM SealedOpens == Spec => []SealedCanBeOpened
<1>1. TypeOK /\ FilesInv => SealedCanBeOpened
  BY DEF TypeOK, FilesInv, Kept, SealedCanBeOpened, At, Unlocks, Whole, SecretKey
<1> QED
  BY <1>1, TypeCorrect, Files, PTL

\* A loaded identity is one pair, although its files are read one by one, unless
\* the public file was taken away and a later keygen wrote the secret one.
THEOREM LoadedIsPair == Spec => []LoadedPairMatches
<1>1. FilesInv => LoadedPairMatches
  BY DEF FilesInv, LoaderFits, LoadedPairMatches
<1> QED
  BY <1>1, Files, PTL

\* Only the user takes a complete secret key away.
THEOREM SecretKeyKept == Spec => SecretIsKept
<1>1. TypeOK /\ FilesInv /\ [Next]_vars => [SecretStays]_vars
  <2> SUFFICES ASSUME TypeOK, FilesInv, [Next]_vars, ~crowded', Whole(sec)
               PROVE  sec' = sec \/ sec.of \in cleared'
    BY DEF SecretStays
  <2> USE DEF files
  <2>1. ASSUME NEW r \in Runs, Keygen(r)
        PROVE  sec' = sec
    <3>1. ~crowded
      BY <2>1 DEF TypeOK, Keygen, CheckFiles, ChoosePassword, CreatePublic, WritePublic,
                  CreateSecret, WriteSecret, SetMode, Interrupt
    <3>2. SecretAt(r)
      BY <3>1 DEF FilesInv
    <3>3. sec # Absent /\ sec # Torn
      BY DEF Whole, Absent, Torn
    <3>4. pc[r] \notin {"create secret", "write secret"}
      BY <3>2, <3>3 DEF SecretAt
    <3> QED
      BY <2>1, <3>4 DEF Keygen, CheckFiles, ChoosePassword, CreatePublic, WritePublic,
                        CreateSecret, WriteSecret, SetMode, Interrupt, At
  <2>2. CASE SealFor \/ LoadPublic \/ LoadSecret \/ EndLoad
    BY <2>2 DEF SealFor, LoadPublic, LoadSecret, EndLoad
  <2>3. CASE Tidy
    BY <2>3 DEF Tidy
  <2>4. CASE UNCHANGED vars
    BY <2>4 DEF vars
  <2> QED
    BY <2>1, <2>2, <2>3, <2>4 DEF Next
<1> QED
  BY <1>1, TypeCorrect, Files, PTL DEF Spec, SecretIsKept
=============================================================================
