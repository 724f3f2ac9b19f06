----------------------------- MODULE TextProofs -----------------------------
(***************************************************************************)
(* Proofs about what ramz writes and reads back: the names of its files    *)
(* (Naming), for every name of a source, and the lines of a resume file    *)
(* (StateFile), for every state that is saved and every cut.  The lemmas   *)
(* on sequences serve the archive formats too.                             *)
(***************************************************************************)
EXTENDS Naming, StateFile, SequenceTheorems, FiniteSetTheorems, WellFoundedInduction, TLAPS

-----------------------------------------------------------------------------
(***************************************************************************)
(* Sequences.                                                              *)
(***************************************************************************)
LEMMA Join ==
    ASSUME NEW S, NEW s \in Seq(S), NEW t \in Seq(S)
    PROVE  s \o t \in Seq(S)
    OBVIOUS

LEMMA OneTuple ==
    ASSUME NEW S, NEW e \in S
    PROVE  <<e>> \in Seq(S) /\ Len(<<e>>) = 1 /\ <<e>>[1] = e
    OBVIOUS

\* s stands in t, behind its first k elements.
Has(t, k, s) == k + Len(s) <= Len(t) /\ \A i \in 1 .. Len(s) : t[k + i] = s[i]

LEMMA HasParts ==
    ASSUME NEW S, NEW s \in Seq(S), NEW t \in Seq(S)
    PROVE  /\ s \o t \in Seq(S) /\ Len(s \o t) = Len(s) + Len(t)
           /\ Has(s \o t, 0, s) /\ Has(s \o t, Len(s), t)
<1>1. Len(s) \in Nat /\ Len(t) \in Nat
    OBVIOUS
<1>2. s \o t \in Seq(S) /\ Len(s \o t) = Len(s) + Len(t)
    OBVIOUS
<1>3. \A i \in 1 .. Len(s) : (s \o t)[0 + i] = s[i]
    OBVIOUS
<1>4. \A i \in 1 .. Len(t) : (s \o t)[Len(s) + i] = t[i]
    OBVIOUS
<1> QED
    BY <1>1, <1>2, <1>3, <1>4 DEF Has

LEMMA HasWithin ==
    ASSUME NEW S, NEW t \in Seq(S), NEW s \in Seq(S), NEW r \in Seq(S),
           NEW k \in Nat, NEW l \in Nat, Has(t, k, s), Has(s, l, r)
    PROVE  Has(t, k + l, r)
<1>1. Len(s) \in Nat /\ Len(r) \in Nat /\ Len(t) \in Nat
    OBVIOUS
<1>2. l + Len(r) <= Len(s) /\ k + Len(s) <= Len(t)
    BY DEF Has
<1>3. ASSUME NEW i \in 1 .. Len(r) PROVE t[(k + l) + i] = r[i]
  <2>1. l + i \in 1 .. Len(s) /\ k + (l + i) = (k + l) + i
      BY <1>1, <1>2
  <2> QED
      BY <2>1 DEF Has
<1> QED
    BY <1>1, <1>2, <1>3 DEF Has

LEMMA HasOne ==
    ASSUME NEW t, Len(t) \in Nat, NEW k \in Nat, k + 1 <= Len(t), NEW e, t[k + 1] = e
    PROVE  Has(t, k, <<e>>)
<1>1. Len(<<e>>) = 1 /\ <<e>>[1] = e
    OBVIOUS
<1>2. \A i \in 1 .. 1 : i = 1
    OBVIOUS
<1> QED
    BY <1>1, <1>2 DEF Has

LEMMA FourParts ==
    ASSUME NEW S, NEW a \in Seq(S), NEW b \in Seq(S), NEW c \in Seq(S), NEW d \in Seq(S)
    PROVE  LET t == a \o b \o c \o d
           IN  /\ t \in Seq(S) /\ Len(t) = Len(a) + Len(b) + Len(c) + Len(d)
               /\ Has(t, 0, a) /\ Has(t, Len(a), b) /\ Has(t, Len(a) + Len(b), c)
               /\ Has(t, Len(a) + Len(b) + Len(c), d)
<1> DEFINE ab == a \o b
           abc == ab \o c
           t == abc \o d
<1>1. Len(a) \in Nat /\ Len(b) \in Nat /\ Len(c) \in Nat /\ Len(d) \in Nat
    OBVIOUS
<1>2. ab \in Seq(S) /\ Len(ab) = Len(a) + Len(b) /\ Has(ab, 0, a) /\ Has(ab, Len(a), b)
    BY HasParts
<1> HIDE DEF ab
<1>3. abc \in Seq(S) /\ Len(abc) = Len(ab) + Len(c) /\ Has(abc, 0, ab) /\ Has(abc, Len(ab), c)
    BY <1>2, HasParts
<1> HIDE DEF abc
<1>4. t \in Seq(S) /\ Len(t) = Len(abc) + Len(d) /\ Has(t, 0, abc) /\ Has(t, Len(abc), d)
    BY <1>3, HasParts
<1> HIDE DEF t
<1>5. Has(abc, 0 + 0, a) /\ Has(abc, 0 + Len(a), b)
    BY <1>1, <1>2, <1>3, HasWithin
<1>6. Has(abc, 0, a) /\ Has(abc, Len(a), b)
    BY <1>1, <1>5
<1>7. Has(t, 0 + 0, a) /\ Has(t, 0 + Len(a), b) /\ Has(t, 0 + Len(ab), c)
    BY <1>1, <1>2, <1>3, <1>4, <1>6, HasWithin
<1>8. Has(t, 0, a) /\ Has(t, Len(a), b) /\ Has(t, Len(a) + Len(b), c)
    BY <1>1, <1>2, <1>7
<1>9. Len(t) = Len(a) + Len(b) + Len(c) + Len(d) /\ Has(t, Len(a) + Len(b) + Len(c), d)
    BY <1>2, <1>3, <1>4
<1> QED
    BY <1>4, <1>8, <1>9 DEF t, abc, ab

LEMMA HasIsSubSeq ==
    ASSUME NEW S, NEW t \in Seq(S), NEW s \in Seq(S), NEW k \in Nat, Has(t, k, s)
    PROVE  SubSeq(t, k + 1, k + Len(s)) = s
<1>1. Len(s) \in Nat /\ Len(t) \in Nat /\ k + Len(s) <= Len(t)
    BY DEF Has
<1> DEFINE u == SubSeq(t, k + 1, k + Len(s))
<1>2. u \in Seq(S) /\ Len(u) = Len(s)
    BY <1>1
<1>3. ASSUME NEW i \in 1 .. Len(s) PROVE u[i] = s[i]
  <2>1. u[i] = t[k + i]
      BY <1>1
  <2> QED
      BY <2>1 DEF Has
<1> HIDE DEF u
<1>4. u = s
    BY <1>2, <1>3, SeqEqual
<1> QED
    BY <1>4 DEF u

-----------------------------------------------------------------------------
(***************************************************************************)
(* Names.                                                                  *)
(***************************************************************************)
LEMMA FrontOfSeq ==
    ASSUME NEW S, NEW s \in Seq(S), Len(s) > 1
    PROVE  SubSeq(s, 1, Len(s) - 1) \in Seq(S) /\ Len(SubSeq(s, 1, Len(s) - 1)) = Len(s) - 1
    OBVIOUS

LEMMA StemIsName ==
    ASSUME NEW n \in Names
    PROVE  Stem(n) \in Names /\ (Len(Stem(n)) = Len(n) \/ Len(Stem(n)) + 1 = Len(n))
<1>1. n \in Seq(Parts) /\ Len(n) \in Nat \ {0}
    BY DEF Names
<1>2. CASE HasExtension(n)
  <2>1. Stem(n) = SubSeq(n, 1, Len(n) - 1) /\ Len(n) > 1
      BY <1>2 DEF HasExtension, Stem, Front
  <2>2. /\ SubSeq(n, 1, Len(n) - 1) \in Seq(Parts)
        /\ Len(SubSeq(n, 1, Len(n) - 1)) = Len(n) - 1
      BY <1>1, <2>1, FrontOfSeq
  <2>3. Stem(n) # <<>>
      BY <1>1, <2>1, <2>2
  <2> QED
      BY <1>1, <2>1, <2>2, <2>3 DEF Names
<1>3. CASE ~HasExtension(n)
    BY <1>3 DEF Stem
<1> QED
    BY <1>2, <1>3

LEMMA PrintedIsName ==
    ASSUME PartAssumption, NEW n \in Names
    PROVE  Printed(n) \in Names /\ Len(Printed(n)) = Len(n)
<1>1. n \in Seq(Parts) /\ Len(n) \in Nat \ {0}
    BY DEF Names
<1>2. \A i \in 1 .. Len(n) : n[i] \in Parts /\ Lossy[n[i]] \in Parts
    BY <1>1, ElementOfSeq DEF PartAssumption
<1>3. Printed(n) \in Seq(Parts) /\ Len(Printed(n)) = Len(n)
    BY <1>1, <1>2 DEF Printed
<1> QED
    BY <1>1, <1>3 DEF Names

LEMMA LastOfExtended ==
    ASSUME NEW S, NEW s \in Seq(S), NEW e \in S
    PROVE  /\ Append(s, e) \in Seq(S)
           /\ Len(Append(s, e)) = Len(s) + 1
           /\ Append(s, e)[Len(Append(s, e))] = e
    OBVIOUS

LEMMA LastOfJoined ==
    ASSUME NEW S, NEW s \in Seq(S), NEW t \in Seq(S), t # <<>>
    PROVE  /\ s \o t \in Seq(S)
           /\ Len(s \o t) = Len(s) + Len(t)
           /\ (s \o t)[Len(s \o t)] = t[Len(t)]
    OBVIOUS

\* An archive is named after the suffixes of its backend.
LEMMA ArchiveIsName ==
    ASSUME PartAssumption, NEW n \in Names, NEW b \in {"age", "7z"}
    PROVE  LET a == ArchiveName(n, b)
           IN  /\ a \in Names
               /\ a[Len(a)] \in {"zst", "7z"}
               /\ b = "age" => Len(a) = Len(Stem(n)) + 3
<1> DEFINE s == Printed(Stem(n))
           t == Extension(b)
<1>1. s \in Seq(Parts) /\ Len(s) = Len(Stem(n)) /\ Len(s) \in Nat
    BY StemIsName, PrintedIsName DEF Names
<1>2. /\ t \in Seq(Parts) /\ t # <<>> /\ t[Len(t)] \in {"zst", "7z"}
      /\ Len(t) \in Nat /\ Len(t) > 0
      /\ b = "age" => Len(t) = 3
  <2>1. {"age", "tar", "zst", "7z"} \subseteq Parts
      BY DEF PartAssumption, Suffixes
  <2>2. CASE b = "age"
      BY <2>1, <2>2 DEF Extension
  <2>3. CASE b = "7z"
      BY <2>1, <2>3 DEF Extension
  <2> QED
      BY <2>2, <2>3
<1> HIDE DEF s, t
<1>3. /\ s \o t \in Seq(Parts) /\ Len(s \o t) = Len(s) + Len(t)
      /\ (s \o t)[Len(s \o t)] = t[Len(t)]
    BY <1>1, <1>2, LastOfJoined
<1>4. s \o t # <<>>
    BY <1>1, <1>2, <1>3
<1>5. ArchiveName(n, b) = s \o t
    BY DEF ArchiveName, s, t
<1> QED
    BY <1>1, <1>2, <1>3, <1>4, <1>5 DEF Names

\* A resume file ends in its own suffix.
LEMMA StateIsName ==
    ASSUME PartAssumption, NEW a \in Names
    PROVE  /\ StateName(a)[Len(StateName(a))] = "resume"
           /\ Len(StateName(a)) = Len(Stem(a)) + 1
<1>1. Stem(a) \in Seq(Parts) /\ "resume" \in Parts
    BY StemIsName DEF Names, PartAssumption, Suffixes
<1> QED
    BY <1>1, LastOfExtended DEF StateName, WithExtension

\* No archive is its own resume file.
LEMMA ArchiveIsNotState ==
    ASSUME PartAssumption, NEW n \in Names, NEW b \in {"age", "7z"}
    PROVE  ArchiveName(n, b) # StateName(ArchiveName(n, b))
    BY ArchiveIsName, StateIsName

-----------------------------------------------------------------------------
(***************************************************************************)
(* Extensions.                                                             *)
(***************************************************************************)
LEMMA NoNameIsOnePart ==
    ASSUME PartAssumption
    PROVE  /\ Len(NoName) = 1 /\ NoName[1] = "" /\ NoName \in Seq(Parts) /\ Lossy[""] = ""
           /\ \A n : HasExtension(n) <=> Len(n) > 1 /\ Front(n) # NoName
<1>1. "" \in Parts /\ Lossy[""] = ""
    BY DEF PartAssumption
<1>2. <<"">> \in Seq(Parts) /\ Len(<<"">>) = 1 /\ <<"">>[1] = ""
    BY <1>1, OneTuple
<1> QED
    BY <1>1, <1>2 DEF NoName, HasExtension

\* A name is what stands before its last dot and what stands behind it.
LEMMA IsExtended ==
    ASSUME NEW n \in Names, NEW s \in Names, NEW e \in Parts
    PROVE  /\ HasExtension(n) => (Append(s, e) = n <=> s = Front(n) /\ e = n[Len(n)])
           /\ Append(s, e) = n /\ s # <<"">> => HasExtension(n) /\ s = Front(n)
<1>1. /\ n \in Seq(Parts) /\ s \in Seq(Parts) /\ Len(n) \in Nat \ {0} /\ Len(s) \in Nat \ {0}
    BY DEF Names
<1>2. /\ Append(s, e) \in Seq(Parts) /\ Len(Append(s, e)) = Len(s) + 1
      /\ Append(s, e)[Len(s) + 1] = e /\ \A i \in 1 .. Len(s) : Append(s, e)[i] = s[i]
    BY <1>1, AppendProperties
<1>3. Len(n) > 1 => /\ Front(n) \in Seq(Parts) /\ Len(Front(n)) = Len(n) - 1
                    /\ \A i \in 1 .. Len(n) - 1 : Front(n)[i] = n[i]
    BY <1>1 DEF Front
<1>4. ASSUME Append(s, e) = n PROVE Len(n) > 1 /\ s = Front(n) /\ e = n[Len(n)]
  <2>1. Len(n) = Len(s) + 1
      BY <1>2, <1>4
  <2>2. Len(n) > 1 /\ Len(n) - 1 = Len(s)
      BY <1>1, <2>1
  <2>3. \A i \in 1 .. Len(s) : s[i] = Front(n)[i]
      BY <1>2, <1>3, <1>4, <2>2
  <2>4. s = Front(n)
      BY <1>1, <1>3, <2>2, <2>3, SeqEqual
  <2> QED
      BY <1>2, <1>4, <2>1, <2>2, <2>4
<1>5. ASSUME Len(n) > 1, s = Front(n), e = n[Len(n)] PROVE Append(s, e) = n
  <2>1. Len(s) + 1 = Len(n)
      BY <1>1, <1>3, <1>5
  <2>2. \A i \in 1 .. Len(n) : Append(s, e)[i] = n[i]
      BY <1>1, <1>2, <1>3, <1>5, <2>1
  <2> QED
      BY <1>1, <1>2, <2>1, <2>2, SeqEqual
<1> QED
    BY <1>4, <1>5 DEF HasExtension

\* Only the empty name is printed as one.
LEMMA PrintedNoName ==
    ASSUME PartAssumption, NEW n \in Names
    PROVE  Printed(Stem(n)) = NoName <=> n = NoName
<1>1. Stem(n) \in Names /\ Len(Printed(Stem(n))) = Len(Stem(n)) /\ Printed(Stem(n)) \in Names
    BY StemIsName, PrintedIsName
<1>2. Len(NoName) = 1 /\ NoName[1] = "" /\ NoName \in Seq(Parts) /\ Lossy[""] = ""
    BY NoNameIsOnePart
<1>3. ASSUME NEW m \in Names, Len(m) = 1, m[1] = ""
      PROVE  m = NoName
  <2>1. m \in Seq(Parts)
      BY DEF Names
  <2>2. \A i \in 1 .. 1 : i = 1
      OBVIOUS
  <2>3. \A i \in 1 .. 1 : m[i] = NoName[i]
      BY <1>2, <1>3, <2>2
  <2> QED
      BY <1>2, <1>3, <2>1, <2>3, SeqEqual
<1>4. ASSUME NEW m \in Names, Len(m) = 1
      PROVE  Printed(m)[1] = Lossy[m[1]] /\ m[1] \in Parts
    BY <1>4 DEF Printed, Names
<1>5. ASSUME Printed(Stem(n)) = NoName PROVE n = NoName
  <2>1. Len(Stem(n)) = 1
      BY <1>1, <1>2, <1>5
  <2>2. Lossy[Stem(n)[1]] = "" /\ Stem(n)[1] \in Parts
      BY <1>1, <1>2, <1>4, <1>5, <2>1
  <2>3. Stem(n)[1] = ""
      BY <2>2 DEF PartAssumption
  <2>4. Stem(n) = NoName
      BY <1>1, <1>3, <2>1, <2>3
  <2> QED
      BY <2>4 DEF Stem, HasExtension, NoName
<1>6. ASSUME n = NoName PROVE Printed(Stem(n)) = NoName
  <2>1. Stem(n) = n
    <3>1. ~(1 > 1)
        OBVIOUS
    <3>2. ~HasExtension(n)
        BY <1>2, <1>6, <3>1, NoNameIsOnePart
    <3> QED
        BY <3>2 DEF Stem
  <2>2. Printed(n)[1] = ""
      BY <1>2, <1>4, <1>6
  <2> QED
      BY <1>1, <1>2, <1>3, <1>6, <2>1, <2>2
<1> QED
    BY <1>5, <1>6

\* The last part of a 7z archive is its extension unless it has no other part
\* than an empty one.
LEMMA SevenZIsExtended ==
    ASSUME PartAssumption, NEW n \in Names
    PROVE  LET a == ArchiveName(n, "7z")
               s == Printed(Stem(n))
           IN  /\ s \in Names /\ a = Append(s, "7z") /\ a \in Names /\ "7z" \in Parts
               /\ a[Len(a)] = "7z"
               /\ HasExtension(a) <=> n # NoName
               /\ n # NoName => Stem(a) = s
<1> DEFINE s == Printed(Stem(n))
           a == ArchiveName(n, "7z")
<1>1. s \in Names /\ s \in Seq(Parts) /\ Len(s) \in Nat \ {0}
    BY StemIsName, PrintedIsName DEF Names
<1>2. "7z" \in Parts
    BY DEF PartAssumption, Suffixes
<1>3. a = Append(s, "7z")
    BY <1>1, <1>2, AppendIsConcat DEF ArchiveName, Extension
<1>4. s = NoName <=> n = NoName
    BY PrintedNoName
<1> HIDE DEF s
<1>5. a \in Seq(Parts) /\ Len(a) = Len(s) + 1 /\ a[Len(a)] = "7z" /\ a # <<>>
    BY <1>1, <1>2, <1>3, AppendProperties
<1> HIDE DEF a
<1>6. a \in Names /\ Len(a) > 1
    BY <1>1, <1>5 DEF Names
<1>7. Front(a) = s
  <2>1. Len(a) - 1 = Len(s)
      BY <1>1, <1>5
  <2>2. \A i \in 1 .. Len(s) : a[i] = s[i]
      BY <1>1, <1>2, <1>3, AppendProperties
  <2>3. Front(a) \in Seq(Parts) /\ Len(Front(a)) = Len(s)
      BY <1>1, <1>5, <1>6, <2>1, FrontOfSeq DEF Front
  <2>4. \A i \in 1 .. Len(s) : Front(a)[i] = a[i]
      BY <1>1, <1>5, <2>1 DEF Front
  <2> QED
      BY <1>1, <2>2, <2>3, <2>4, SeqEqual
<1>8. HasExtension(a) <=> n # NoName
    BY <1>4, <1>6, <1>7 DEF HasExtension, NoName
<1>9. n # NoName => Stem(a) = s
    BY <1>7, <1>8 DEF Stem
<1> QED
    BY <1>1, <1>2, <1>3, <1>5, <1>6, <1>8, <1>9 DEF s, a

\* With the age backend, whatever the source is called: neither file that pack
\* writes is the source, nor each other (archive_name in run() and
\* resume_state_path).
THEOREM AgeNeverMeets ==
    ASSUME PartAssumption
    PROVE  \A n \in Names : AgeNamesApart(n)
<1> SUFFICES ASSUME NEW n \in Names PROVE AgeNamesApart(n)
    OBVIOUS
<1> DEFINE a == ArchiveName(n, "age")
<1>1. a \in Names /\ Len(a) = Len(Stem(n)) + 3
    BY ArchiveIsName
<1>2. Stem(n) \in Names /\ Len(n) <= Len(Stem(n)) + 1 /\ Len(Stem(n)) \in Nat
    BY StemIsName DEF Names
<1>3. Len(StateName(a)) = Len(Stem(a)) + 1 /\ Len(Stem(a)) >= Len(a) - 1
      /\ Len(a) \in Nat
    BY <1>1, StateIsName, StemIsName DEF Names
<1>4. a # StateName(a)
    BY ArchiveIsNotState
<1> HIDE DEF a
<1>5. n # a /\ n # StateName(a)
    BY <1>1, <1>2, <1>3
<1> QED
    BY <1>4, <1>5 DEF AgeNamesApart, a

\* With the 7z backend only a source that ends in .7z or .resume meets a file
\* that pack writes: where the runs output_in_source and resume_is_source find
\* their counterexamples, and nowhere else.
THEOREM SevenZMeets ==
    ASSUME PartAssumption
    PROVE  \A n \in Names : SevenZNamesMeet(n)
<1> SUFFICES ASSUME NEW n \in Names PROVE SevenZNamesMeet(n)
    OBVIOUS
<1> DEFINE a == ArchiveName(n, "7z")
           s == Printed(Stem(n))
           Ends(e) == HasExtension(n) /\ Printed(Front(n)) = Front(n) /\ n[Len(n)] = e
<1>1. /\ s \in Names /\ a = Append(s, "7z") /\ a \in Names /\ "7z" \in Parts /\ "resume" \in Parts
      /\ HasExtension(a) <=> n # NoName
      /\ n # NoName => Stem(a) = s
    BY SevenZIsExtended DEF PartAssumption, Suffixes
<1>2. HasExtension(n) => Stem(n) = Front(n)
    BY DEF Stem
<1>3. ~HasExtension(n) => Len(s) = Len(n)
    BY PrintedIsName DEF Stem
<1>4. n # NoName => s # <<"">>
    BY PrintedNoName DEF NoName
<1>5. n = NoName => ~HasExtension(n) /\ Len(n) = 1
  <2>1. ~(1 > 1)
      OBVIOUS
  <2> QED
      BY <2>1, NoNameIsOnePart
<1> HIDE DEF s
<1>6. ASSUME NEW e \in Parts
      PROVE  Append(s, e) = n <=> HasExtension(n) /\ s = Front(n) /\ e = n[Len(n)]
  <2>1. CASE HasExtension(n)
      BY <1>1, <2>1, IsExtended
  <2>2. CASE ~HasExtension(n)
    <3>1. Len(Append(s, e)) = Len(s) + 1 /\ Len(s) \in Nat
        BY <1>1, LastOfExtended DEF Names
    <3> QED
        BY <1>3, <2>2, <3>1
  <2> QED
      BY <2>1, <2>2
<1>7. \A e \in Parts : Append(s, e) = n <=> Ends(e)
    BY <1>2, <1>6 DEF s
<1>8. a = n <=> Ends("7z")
    BY <1>1, <1>7
<1>9. StateName(a) = n <=> Ends("resume")
  <2>1. CASE n # NoName
      BY <1>1, <1>7, <2>1 DEF StateName, WithExtension
  <2>2. CASE n = NoName
    <3>1. Len(StateName(a)) = Len(Stem(a)) + 1 /\ Len(Stem(a)) \in Nat \ {0}
        BY <1>1, StateIsName, StemIsName DEF Names
    <3>2. \A k \in Nat \ {0} : k + 1 # 1
        OBVIOUS
    <3>3. StateName(a) # n
        BY <1>5, <2>2, <3>1, <3>2
    <3> QED
        BY <1>5, <2>2, <3>3
  <2> QED
      BY <2>1, <2>2
<1>10. a # StateName(a)
    BY ArchiveIsNotState
<1> QED
    BY <1>8, <1>9, <1>10 DEF SevenZNamesMeet

\* verify and extract hand an archive to the backend that made it, and extract
\* makes another directory than the archive, but for the 7z archive of a source
\* without a name; the dry run reports the name that pack uses.
THEOREM NamesAreRead ==
    ASSUME PartAssumption
    PROVE  \A n \in Names : NameIsRead(n)
<1> SUFFICES ASSUME NEW n \in Names PROVE NameIsRead(n)
    OBVIOUS
<1>1. ASSUME NEW a \in Names PROVE Stem(a) # a <=> HasExtension(a)
  <2>1. HasExtension(a) => Len(Stem(a)) = Len(a) - 1 /\ Len(a) \in Nat
    <3> SUFFICES ASSUME HasExtension(a) PROVE Len(Stem(a)) = Len(a) - 1 /\ Len(a) \in Nat
        OBVIOUS
    <3>1. a \in Seq(Parts) /\ Len(a) > 1
        BY DEF Names, HasExtension
    <3> QED
        BY <3>1, FrontOfSeq DEF Stem, Front
  <2> QED
      BY <2>1 DEF Stem
<1>2. LET a == ArchiveName(n, "age")
      IN  ChosenBackend(a) = "age" /\ ExtractDir(a) # a
  <2> DEFINE a == ArchiveName(n, "age")
             s == Printed(Stem(n))
             t == <<"age", "tar", "zst">>
  <2>1. a \in Names /\ Len(a) = Len(Stem(n)) + 3 /\ Len(Stem(n)) \in Nat \ {0}
      BY ArchiveIsName, StemIsName DEF Names
  <2>2. s \in Seq(Parts) /\ a = s \o t /\ t \in Seq(Parts) /\ t # <<>> /\ t[Len(t)] = "zst"
    <3>1. {"age", "tar", "zst"} \subseteq Parts
        BY DEF PartAssumption, Suffixes
    <3>2. t \in Seq(Parts) /\ t # <<>> /\ t[Len(t)] = "zst"
        BY <3>1
    <3> QED
        BY <3>2, StemIsName, PrintedIsName DEF Names, ArchiveName, Extension
  <2> HIDE DEF s, t
  <2>3. a[Len(a)] = "zst"
      BY <2>2, LastOfJoined
  <2> HIDE DEF a
  <2>4. HasExtension(a)
    <3>1. a \in Seq(Parts) /\ Len(a) > 2 /\ Len(a) \in Nat
        BY <2>1 DEF Names
    <3>2. Len(Front(a)) = Len(a) - 1
        BY <3>1, FrontOfSeq DEF Front
    <3>3. Len(a) - 1 # 1 /\ Len(a) > 1
      <4>1. \A k \in Nat : k > 2 => k - 1 # 1 /\ k > 1
          OBVIOUS
      <4> QED
          BY <3>1, <4>1
    <3>4. Front(a) # NoName
        BY <3>2, <3>3, NoNameIsOnePart
    <3> QED
        BY <3>3, <3>4, NoNameIsOnePart
  <2>5. ChosenBackend(a) = "age" /\ ExtractDir(a) # a
      BY <1>1, <2>1, <2>3, <2>4 DEF ChosenBackend, ExtractDir
  <2> QED
      BY <2>5 DEF a
<1>3. LET a == ArchiveName(n, "7z")
      IN  (ChosenBackend(a) = "7z" <=> n # NoName) /\ (ExtractDir(a) # a <=> n # NoName)
    BY <1>1, SevenZIsExtended DEF ChosenBackend, ExtractDir
<1>4. \A b \in {"age", "7z"} : DryRunName(n, b) = ArchiveName(n, b)
    BY DEF DryRunName, ArchiveName, Extension
<1> QED
    BY <1>2, <1>3, <1>4 DEF NameIsRead

\* Two sources share an archive only when what is printed of their stems is the
\* same, and never across the backends.
THEOREM ArchivesMeetByStem ==
    ASSUME PartAssumption
    PROVE  \A m, n \in Names : ArchivesMeet(m, n)
<1> SUFFICES ASSUME NEW m \in Names, NEW n \in Names PROVE ArchivesMeet(m, n)
    OBVIOUS
<1>1. \A b \in {"age", "7z"} : Extension(b) \in Seq(Parts)
  <2>1. {"age", "tar", "zst", "7z"} \subseteq Parts
      BY DEF PartAssumption, Suffixes
  <2>2. <<"age", "tar", "zst">> \in Seq(Parts) /\ <<"7z">> \in Seq(Parts)
      BY <2>1
  <2> QED
      BY <2>2 DEF Extension
<1>2. Printed(Stem(m)) \in Seq(Parts) /\ Printed(Stem(n)) \in Seq(Parts)
    BY StemIsName, PrintedIsName DEF Names
<1>3. \A b \in {"age", "7z"} :
        ArchiveName(m, b) = ArchiveName(n, b) <=> Printed(Stem(m)) = Printed(Stem(n))
    BY <1>1, <1>2, ConcatSimplifications DEF ArchiveName
<1>4. ArchiveName(m, "age") # ArchiveName(n, "7z")
  <2>1. LET a == ArchiveName(m, "age") IN a[Len(a)] = "zst"
    <3>1. LET t == Extension("age") IN t # <<>> /\ t[Len(t)] = "zst"
        BY DEF Extension
    <3> QED
        BY <1>1, <1>2, <3>1, LastOfJoined DEF ArchiveName
  <2>2. LET a == ArchiveName(n, "7z") IN a[Len(a)] = "7z"
      BY SevenZIsExtended
  <2> QED
      BY <2>1, <2>2
<1> QED
    BY <1>3, <1>4 DEF ArchivesMeet

-----------------------------------------------------------------------------
(***************************************************************************)
(* Counting.                                                               *)
(***************************************************************************)
LEMMA LeastNat ==
    ASSUME NEW S \in SUBSET Nat, S # {}
    PROVE  \E n \in S : \A m \in S : n <= m
<1> DEFINE R == OpToRel(<, Nat)
<1>1. IsWellFoundedOn(R, Nat)
    BY NatLessThanWellFounded, Zenon
<1>2. \A x, y \in Nat : x < y => <<x, y>> \in R
    BY Zenon DEF OpToRel
<1> HIDE DEF R
<1>3. \E x \in S : \A y \in S : ~(<<y, x>> \in R)
    BY <1>1, WFMin, Zenon
<1>4. PICK x \in S : \A y \in S : ~(<<y, x>> \in R)
    BY <1>3
<1>5. \A y \in S : ~(y < x)
    BY <1>2, <1>4
<1> QED
    BY <1>5

LEMMA GreatestNat ==
    ASSUME NEW n \in Nat, NEW S \in SUBSET (1 .. n), S # {}
    PROVE  \E m \in S : \A k \in S : k <= m
<1> DEFINE T == {n - k : k \in S}
<1>1. T \in SUBSET Nat /\ T # {}
  <2>1. \A k \in S : n - k \in Nat
      OBVIOUS
  <2> QED
      BY <2>1
<1>2. PICK x \in T : \A y \in T : x <= y
    BY <1>1, LeastNat
<1>3. PICK m \in S : x = n - m
    OBVIOUS
<1>4. \A k \in S : n - m <= n - k
    BY <1>2, <1>3
<1> QED
    BY <1>4

\* A finite set of numbers has a first one, and the rest is one smaller.
LEMMA FirstAndRest ==
    ASSUME NEW B \in SUBSET Nat, IsFiniteSet(B), Cardinality(B) > 0
    PROVE  \E m \in B : /\ \A k \in B \ {m} : m < k
                        /\ B \ {m} \in SUBSET Nat /\ IsFiniteSet(B \ {m})
                        /\ Cardinality(B \ {m}) = Cardinality(B) - 1
                        /\ Cardinality(B \ {m}) \in Nat
<1>1. B # {}
    BY FS_EmptySet
<1>2. PICK m \in B : \A k \in B : m <= k
    BY <1>1, LeastNat
<1>3. \A k \in B \ {m} : m < k
    BY <1>2
<1>4. IsFiniteSet(B \ {m}) /\ Cardinality(B \ {m}) = Cardinality(B) - 1
    BY FS_RemoveElement
<1>5. Cardinality(B \ {m}) \in Nat
    BY <1>4, FS_CardinalityType
<1> QED
    BY <1>3, <1>4, <1>5

\* The five smallest of them.
LEMMA FirstFive ==
    ASSUME NEW B \in SUBSET Nat, IsFiniteSet(B), Cardinality(B) >= 5
    PROVE  \E m1, m2, m3, m4, m5 \in B :
             /\ m1 < m2 /\ m2 < m3 /\ m3 < m4 /\ m4 < m5
             /\ \A b \in B : b \in {m1, m2, m3, m4, m5} \/ m5 < b
<1>1. Cardinality(B) \in Nat
    BY FS_CardinalityType
<1>2. PICK m1 \in B : /\ \A k \in B \ {m1} : m1 < k
                    /\ B \ {m1} \in SUBSET Nat /\ IsFiniteSet(B \ {m1})
                    /\ Cardinality(B \ {m1}) = Cardinality(B) - 1
                    /\ Cardinality(B \ {m1}) \in Nat
  <2>1. B \in SUBSET Nat /\ IsFiniteSet(B) /\ Cardinality(B) > 0
      BY <1>1
  <2> QED
      BY <2>1, FirstAndRest
<1> DEFINE B1 == B \ {m1}
<1> HIDE DEF B1
<1>3. /\ B1 \in SUBSET Nat /\ IsFiniteSet(B1) /\ Cardinality(B1) \in Nat
      /\ Cardinality(B1) >= 4
  <2>1. B1 \in SUBSET Nat /\ IsFiniteSet(B1) /\ Cardinality(B1) \in Nat
        /\ Cardinality(B1) = Cardinality(B) - 1
      BY <1>2 DEF B1
  <2> QED
      BY <1>1, <2>1
<1>4. PICK m2 \in B1 : /\ \A k \in B1 \ {m2} : m2 < k
                     /\ B1 \ {m2} \in SUBSET Nat /\ IsFiniteSet(B1 \ {m2})
                     /\ Cardinality(B1 \ {m2}) = Cardinality(B1) - 1
                     /\ Cardinality(B1 \ {m2}) \in Nat
  <2>1. B1 \in SUBSET Nat /\ IsFiniteSet(B1) /\ Cardinality(B1) > 0
      BY <1>3
  <2> QED
      BY <2>1, FirstAndRest
<1> DEFINE B2 == B1 \ {m2}
<1> HIDE DEF B2
<1>5. /\ B2 \in SUBSET Nat /\ IsFiniteSet(B2) /\ Cardinality(B2) \in Nat
      /\ Cardinality(B2) >= 3
  <2>1. B2 \in SUBSET Nat /\ IsFiniteSet(B2) /\ Cardinality(B2) \in Nat
        /\ Cardinality(B2) = Cardinality(B1) - 1
      BY <1>4 DEF B2
  <2> QED
      BY <1>1, <1>3, <2>1
<1>6. PICK m3 \in B2 : /\ \A k \in B2 \ {m3} : m3 < k
                     /\ B2 \ {m3} \in SUBSET Nat /\ IsFiniteSet(B2 \ {m3})
                     /\ Cardinality(B2 \ {m3}) = Cardinality(B2) - 1
                     /\ Cardinality(B2 \ {m3}) \in Nat
  <2>1. B2 \in SUBSET Nat /\ IsFiniteSet(B2) /\ Cardinality(B2) > 0
      BY <1>5
  <2> QED
      BY <2>1, FirstAndRest
<1> DEFINE B3 == B2 \ {m3}
<1> HIDE DEF B3
<1>7. /\ B3 \in SUBSET Nat /\ IsFiniteSet(B3) /\ Cardinality(B3) \in Nat
      /\ Cardinality(B3) >= 2
  <2>1. B3 \in SUBSET Nat /\ IsFiniteSet(B3) /\ Cardinality(B3) \in Nat
        /\ Cardinality(B3) = Cardinality(B2) - 1
      BY <1>6 DEF B3
  <2> QED
      BY <1>1, <1>5, <2>1
<1>8. PICK m4 \in B3 : /\ \A k \in B3 \ {m4} : m4 < k
                     /\ B3 \ {m4} \in SUBSET Nat /\ IsFiniteSet(B3 \ {m4})
                     /\ Cardinality(B3 \ {m4}) = Cardinality(B3) - 1
                     /\ Cardinality(B3 \ {m4}) \in Nat
  <2>1. B3 \in SUBSET Nat /\ IsFiniteSet(B3) /\ Cardinality(B3) > 0
      BY <1>7
  <2> QED
      BY <2>1, FirstAndRest
<1> DEFINE B4 == B3 \ {m4}
<1> HIDE DEF B4
<1>9. /\ B4 \in SUBSET Nat /\ IsFiniteSet(B4) /\ Cardinality(B4) \in Nat
      /\ Cardinality(B4) >= 1
  <2>1. B4 \in SUBSET Nat /\ IsFiniteSet(B4) /\ Cardinality(B4) \in Nat
        /\ Cardinality(B4) = Cardinality(B3) - 1
      BY <1>8 DEF B4
  <2> QED
      BY <1>1, <1>7, <2>1
<1>10. PICK m5 \in B4 : /\ \A k \in B4 \ {m5} : m5 < k
                     /\ B4 \ {m5} \in SUBSET Nat /\ IsFiniteSet(B4 \ {m5})
                     /\ Cardinality(B4 \ {m5}) = Cardinality(B4) - 1
                     /\ Cardinality(B4 \ {m5}) \in Nat
  <2>1. B4 \in SUBSET Nat /\ IsFiniteSet(B4) /\ Cardinality(B4) > 0
      BY <1>9
  <2> QED
      BY <2>1, FirstAndRest
<1>11. {m1, m2, m3, m4, m5} \subseteq B
    BY DEF B1, B2, B3, B4
<1>12. m1 < m2 /\ m2 < m3 /\ m3 < m4 /\ m4 < m5
    BY <1>2, <1>4, <1>6, <1>8 DEF B1, B2, B3, B4
<1>13. \A b \in B : b \in {m1, m2, m3, m4, m5} \/ m5 < b
    BY <1>10 DEF B1, B2, B3, B4
<1> QED
    BY <1>11, <1>12, <1>13

-----------------------------------------------------------------------------
(***************************************************************************)
(* Lines.                                                                  *)
(***************************************************************************)
LEMMA BreaksAreNumbers ==
    ASSUME NEW M, NEW t \in Seq(M)
    PROVE  /\ Breaks(t) \in SUBSET Nat /\ Breaks(t) \subseteq 1 .. Len(t)
           /\ IsFiniteSet(Breaks(t)) /\ Len(t) \in Nat
           /\ \A i \in 1 .. Len(t) : i \in Breaks(t) <=> t[i] = Break
<1>1. Breaks(t) \subseteq 1 .. Len(t) /\ Len(t) \in Nat
      /\ \A i \in 1 .. Len(t) : i \in Breaks(t) <=> t[i] = Break
    BY DEF Breaks
<1>2. IsFiniteSet(1 .. Len(t))
    BY <1>1, FS_Interval
<1>3. IsFiniteSet(Breaks(t))
    BY <1>1, <1>2, FS_Subset
<1> QED
    BY <1>1, <1>3

\* The k-th line ends where k - 1 breaks are behind.
LEMMA LineEndIs ==
    ASSUME NEW M, NEW t \in Seq(M), NEW k \in Nat, NEW e \in Breaks(t) \cup {0, Len(t) + 1},
           Cardinality({j \in Breaks(t) \cup {0} : j < e}) = k
    PROVE  LineEnd(t, k) = e
<1> DEFINE B == Breaks(t) \cup {0}
           below(i) == {j \in B : j < i}
           ends == Breaks(t) \cup {0, Len(t) + 1}
<1>1. /\ B \in SUBSET Nat /\ IsFiniteSet(B) /\ Len(t) \in Nat
      /\ \A i \in B : i < Len(t) + 1
  <2>1. Breaks(t) \in SUBSET Nat /\ Breaks(t) \subseteq 1 .. Len(t) /\ IsFiniteSet(Breaks(t))
        /\ Len(t) \in Nat
      BY BreaksAreNumbers
  <2>2. IsFiniteSet(Breaks(t) \cup {0})
      BY <2>1, FS_AddElement
  <2> QED
      BY <2>1, <2>2
<1>2. ASSUME NEW i \in ends, NEW j \in ends, i < j
      PROVE  Cardinality(below(i)) < Cardinality(below(j))
  <2>1. i \in Nat /\ j \in Nat /\ i \in B
      BY <1>1, <1>2
  <2>2. IsFiniteSet(below(j)) /\ IsFiniteSet(below(i))
      BY <1>1, FS_Subset
  <2>3. below(i) \subseteq below(j) /\ i \in below(j) /\ i \notin below(i)
      BY <1>1, <1>2, <2>1
  <2> HIDE DEF below, B
  <2>4. Cardinality(below(i)) <= Cardinality(below(j))
        /\ Cardinality(below(j)) # Cardinality(below(i))
      BY <2>2, <2>3, FS_Subset
  <2>5. Cardinality(below(i)) \in Nat /\ Cardinality(below(j)) \in Nat
      BY <2>2, FS_CardinalityType
  <2> QED
      BY <2>4, <2>5
<1>3. \A i \in ends : i \in Nat
    BY <1>1
<1>4. ASSUME NEW i \in ends, Cardinality(below(i)) = k PROVE i = e
  <2>1. e \in ends /\ Cardinality(below(e)) = k
      OBVIOUS
  <2>2. i \in Nat /\ e \in Nat
      BY <1>3, <2>1
  <2> HIDE DEF ends, below, B
  <2>3. ~(i < e)
      BY <1>2, <1>4, <2>1
  <2>4. ~(e < i)
      BY <1>2, <1>4, <2>1
  <2> QED
      BY <2>2, <2>3, <2>4
<1>5. LineEnd(t, k) = CHOOSE i \in ends : Cardinality(below(i)) = k
    BY DEF LineEnd
<1>6. e \in ends /\ Cardinality(below(e)) = k
    OBVIOUS
<1> HIDE DEF ends, below, B
<1> QED
    BY <1>4, <1>5, <1>6

\* m1 to m5 are the first five line breaks of t.
FirstBreaks(t, m1, m2, m3, m4, m5) ==
    /\ {m1, m2, m3, m4, m5} \subseteq Breaks(t)
    /\ 0 < m1 /\ m1 < m2 /\ m2 < m3 /\ m3 < m4 /\ m4 < m5
    /\ \A b \in Breaks(t) : b \in {m1, m2, m3, m4, m5} \/ m5 < b

LEMMA SixLines ==
    ASSUME NEW M, NEW t \in Seq(M), LineCount(t) >= 6
    PROVE  \E m1, m2, m3, m4, m5 : FirstBreaks(t, m1, m2, m3, m4, m5)
<1>1. Breaks(t) \in SUBSET Nat /\ IsFiniteSet(Breaks(t)) /\ \A b \in Breaks(t) : 0 < b
    BY BreaksAreNumbers
<1>2. Cardinality(Breaks(t)) >= 5
  <2>1. Cardinality(Breaks(t)) \in Nat
      BY <1>1, FS_CardinalityType
  <2> QED
      BY <2>1 DEF LineCount
<1>3. PICK m1, m2, m3, m4, m5 \in Breaks(t) :
        /\ m1 < m2 /\ m2 < m3 /\ m3 < m4 /\ m4 < m5
        /\ \A b \in Breaks(t) : b \in {m1, m2, m3, m4, m5} \/ m5 < b
    BY <1>1, <1>2, FirstFive
<1>4. FirstBreaks(t, m1, m2, m3, m4, m5)
    BY <1>1, <1>3 DEF FirstBreaks
<1> QED
    BY <1>4

\* How many lines begin before e.
Before(t, e) == {j \in Breaks(t) \cup {0} : j < e}

LEMMA OneLineMore ==
    ASSUME NEW M, NEW t \in Seq(M), NEW m \in Breaks(t) \cup {0}, NEW e \in Nat, m < e,
           \A b \in Breaks(t) : ~(m < b /\ b < e)
    PROVE  Cardinality(Before(t, e)) = Cardinality(Before(t, m)) + 1
<1>1. Breaks(t) \in SUBSET Nat /\ IsFiniteSet(Breaks(t))
    BY BreaksAreNumbers
<1>2. IsFiniteSet(Breaks(t) \cup {0})
    BY <1>1, FS_AddElement
<1>3. IsFiniteSet(Before(t, m))
    BY <1>2, FS_Subset DEF Before
<1>4. Before(t, e) = Before(t, m) \cup {m} /\ m \notin Before(t, m)
    BY <1>1 DEF Before
<1> QED
    BY <1>3, <1>4, FS_AddElement

LEMMA NoneBefore ==
    ASSUME NEW M, NEW t \in Seq(M)
    PROVE  Cardinality(Before(t, 0)) = 0
<1>1. Breaks(t) \in SUBSET Nat
    BY BreaksAreNumbers
<1>2. Before(t, 0) = {}
    BY <1>1 DEF Before
<1> QED
    BY <1>2, FS_EmptySet

\* Where the fourth, the fifth and the sixth line are.
LEMMA LinesAre ==
    ASSUME NEW M, NEW t \in Seq(M), NEW m1, NEW m2, NEW m3, NEW m4, NEW m5,
           FirstBreaks(t, m1, m2, m3, m4, m5)
    PROVE  /\ {m1, m2, m3, m4, m5} \subseteq 1 .. Len(t)
           /\ LineEnd(t, 3) = m3 /\ LineEnd(t, 4) = m4 /\ LineEnd(t, 5) = m5
           /\ \A e \in Breaks(t) \cup {Len(t) + 1} :
                m5 < e /\ (\A b \in Breaks(t) : m5 < b => e <= b) => LineEnd(t, 6) = e
<1>1. /\ Breaks(t) \in SUBSET Nat /\ Breaks(t) \subseteq 1 .. Len(t) /\ Len(t) \in Nat
    BY BreaksAreNumbers
<1>2. /\ {m1, m2, m3, m4, m5} \subseteq Breaks(t)
      /\ 0 < m1 /\ m1 < m2 /\ m2 < m3 /\ m3 < m4 /\ m4 < m5
      /\ \A b \in Breaks(t) : b \in {m1, m2, m3, m4, m5} \/ m5 < b
    BY DEF FirstBreaks
<1>3. /\ m1 \in Nat /\ m2 \in Nat /\ m3 \in Nat /\ m4 \in Nat /\ m5 \in Nat
      /\ m1 \in Breaks(t) /\ m2 \in Breaks(t) /\ m3 \in Breaks(t)
      /\ m4 \in Breaks(t) /\ m5 \in Breaks(t)
    BY <1>1, <1>2
<1> DEFINE depth(i) == Cardinality(Before(t, i))
<1>4. depth(0) = 0
    BY NoneBefore
<1>5. depth(m1) = depth(0) + 1
    BY <1>1, <1>2, <1>3, OneLineMore
<1>6. depth(m2) = depth(m1) + 1
    BY <1>1, <1>2, <1>3, OneLineMore
<1>7. depth(m3) = depth(m2) + 1
    BY <1>1, <1>2, <1>3, OneLineMore
<1>8. depth(m4) = depth(m3) + 1
    BY <1>1, <1>2, <1>3, OneLineMore
<1>9. depth(m5) = depth(m4) + 1
    BY <1>1, <1>2, <1>3, OneLineMore
<1> HIDE DEF depth
<1>10. depth(m3) = 3 /\ depth(m4) = 4 /\ depth(m5) = 5
    BY <1>4, <1>5, <1>6, <1>7, <1>8, <1>9
<1>11. \A k \in Nat, e \in Breaks(t) \cup {0, Len(t) + 1} : depth(e) = k => LineEnd(t, k) = e
    BY LineEndIs DEF depth, Before
<1>12. LineEnd(t, 3) = m3 /\ LineEnd(t, 4) = m4 /\ LineEnd(t, 5) = m5
    BY <1>3, <1>10, <1>11
<1>13. ASSUME NEW e \in Breaks(t) \cup {Len(t) + 1}, m5 < e,
              \A b \in Breaks(t) : m5 < b => e <= b
       PROVE  LineEnd(t, 6) = e
  <2>1. e \in Nat
      BY <1>1
  <2>2. \A b \in Breaks(t) : ~(m5 < b /\ b < e)
      BY <1>1, <1>13, <2>1
  <2>3. depth(e) = depth(m5) + 1
      BY <1>3, <1>13, <2>1, <2>2, OneLineMore DEF depth
  <2>4. depth(e) = 6
      BY <1>10, <2>3
  <2> QED
      BY <1>11, <2>4
<1> QED
    BY <1>1, <1>2, <1>12, <1>13

\* trim leaves what stands between the first and the last mark that is not
\* white.
LEMMA TrimIs ==
    ASSUME NEW M, NEW t \in Seq(M), Trim(t) # <<>>
    PROVE  \E a, z \in 1 .. Len(t) :
             /\ a <= z /\ ~White(t[a]) /\ ~White(t[z])
             /\ \A i \in 1 .. Len(t) : ~White(t[i]) => a <= i /\ i <= z
             /\ Trim(t) = SubSeq(t, a, z)
<1> DEFINE ink == {i \in DOMAIN t : ~White(t[i])}
           Least(i) == \A j \in ink : i <= j
           Greatest(i) == \A j \in ink : j <= i
           a == CHOOSE i \in ink : Least(i)
           z == CHOOSE i \in ink : Greatest(i)
<1>1. ink # {} /\ Trim(t) = SubSeq(t, a, z)
    BY DEF Trim
<1>2. /\ Len(t) \in Nat /\ ink \in SUBSET Nat /\ ink \in SUBSET (1 .. Len(t))
      /\ \A i \in 1 .. Len(t) : i \in ink <=> ~White(t[i])
    OBVIOUS
<1> HIDE DEF ink
<1>3. \E i \in ink : Least(i)
    BY <1>1, <1>2, LeastNat
<1>4. \E i \in ink : Greatest(i)
    BY <1>1, <1>2, GreatestNat
<1> HIDE DEF Least, Greatest
<1>5. a \in ink /\ Least(a)
    BY <1>3
<1>6. z \in ink /\ Greatest(z)
    BY <1>4
<1> HIDE DEF a, z
<1>7. a \in 1 .. Len(t) /\ z \in 1 .. Len(t) /\ ~White(t[a]) /\ ~White(t[z])
    BY <1>2, <1>5, <1>6
<1>8. a <= z
    BY <1>5, <1>6 DEF Least
<1>9. \A i \in 1 .. Len(t) : ~White(t[i]) => a <= i /\ i <= z
    BY <1>2, <1>5, <1>6 DEF Least, Greatest
<1> QED
    BY <1>1, <1>7, <1>8, <1>9

-----------------------------------------------------------------------------
(***************************************************************************)
(* Resume files.                                                           *)
(***************************************************************************)
Field(s, k) ==
    CASE k = 1 -> s.sourcePath [] k = 2 -> s.archivePath [] k = 3 -> <<s.backend>>
      [] k = 4 -> <<Digits(s.total)>> [] k = 5 -> <<Digits(s.processed)>>
      [] k = 6 -> s.checksum [] k = 7 -> s.hint [] OTHER -> <<s.created>>

\* The marks of a state.
Marks(s) ==
    {Break} \cup UNION {{Field(s, k)[i] : i \in DOMAIN Field(s, k)} : k \in 1 .. 8}

\* Where the breaks are: the k-th field stands behind p[k - 1], the break behind
\* it at p[k].
Places(s, p) ==
    /\ p \in [0 .. 8 -> Nat] /\ p[0] = 0
    /\ \A k \in 1 .. 8 : p[k] = p[k - 1] + Len(Field(s, k)) + 1

\* The first n lines of a resume file.
LinesOf(s, t, p, n) ==
    /\ t \in Seq(Marks(s)) /\ Len(t) = p[n]
    /\ \A k \in 1 .. n :
         /\ p[k] <= Len(t) /\ t[p[k]] = Break
         /\ \A i \in 1 .. Len(Field(s, k)) : t[p[k - 1] + i] = Field(s, k)[i]

LEMMA FieldsAreTexts ==
    ASSUME NEW s, IsResumeState(s), NEW k \in 1 .. 8
    PROVE  Field(s, k) \in Seq(Marks(s))
<1>1. IsText(Field(s, k))
  <2>1. \A e : IsText(<<e>>)
    <3> SUFFICES ASSUME NEW e PROVE <<e>> \in Seq({<<e>>[i] : i \in DOMAIN <<e>>})
        BY DEF IsText
    <3>1. <<e>> \in Seq({e}) /\ DOMAIN <<e>> = {1} /\ <<e>>[1] = e
        OBVIOUS
    <3>2. {<<e>>[i] : i \in DOMAIN <<e>>} = {e}
        BY <3>1
    <3> QED
        BY <3>1, <3>2
  <2> QED
      BY <2>1 DEF Field, IsResumeState
<1> DEFINE f == Field(s, k)
<1>2. {f[i] : i \in DOMAIN f} \subseteq Marks(s)
    BY DEF Marks
<1>3. f \in Seq({f[i] : i \in DOMAIN f})
    BY <1>1 DEF IsText
<1> HIDE DEF f
<1>4. f \in Seq(Marks(s))
    BY <1>2, <1>3, SeqMonotonic
<1> QED
    BY <1>4 DEF f

\* r is t with the line f behind it.
LineBehind(r, t, f) ==
    /\ Len(r) = Len(t) + Len(f) + 1 /\ Len(t) \in Nat /\ Len(f) \in Nat
    /\ \A i \in 1 .. Len(t) : r[i] = t[i]
    /\ \A i \in 1 .. Len(f) : r[Len(t) + i] = f[i]
    /\ r[Len(t) + Len(f) + 1] = Break

LEMMA OneMoreLine ==
    ASSUME NEW M, Break \in M, NEW t \in Seq(M), NEW f \in Seq(M)
    PROVE  t \o Line(f) \in Seq(M) /\ LineBehind(t \o Line(f), t, f)
<1> DEFINE r == t \o Line(f)
<1>1. Len(t) \in Nat /\ Len(f) \in Nat
    OBVIOUS
<1> DEFINE l == Line(f)
<1>2. l \in Seq(M) /\ Len(l) = Len(f) + 1 /\ l[Len(f) + 1] = Break
      /\ \A i \in 1 .. Len(f) : l[i] = f[i]
    BY AppendProperties DEF Line
<1> HIDE DEF l
<1>3. /\ r \in Seq(M) /\ Len(r) = Len(t) + Len(l)
      /\ \A i \in 1 .. Len(t) : r[i] = t[i]
      /\ \A i \in 1 .. Len(l) : r[Len(t) + i] = l[i]
  <2>1. r = t \o l
      BY DEF l
  <2> HIDE DEF r
  <2>2. t \o l \in Seq(M) /\ Len(t \o l) = Len(t) + Len(l)
      BY <1>2, ConcatProperties
  <2>3. \A i \in 1 .. Len(t) : (t \o l)[i] = t[i]
      BY <1>2
  <2>4. \A i \in 1 .. Len(l) : (t \o l)[Len(t) + i] = l[i]
      BY <1>2
  <2> QED
      BY <2>1, <2>2, <2>3, <2>4
<1> HIDE DEF r
<1>4. r[Len(t) + (Len(f) + 1)] = Break
    BY <1>1, <1>2, <1>3
<1>5. Len(t) + (Len(f) + 1) = Len(t) + Len(f) + 1
    BY <1>1
<1>6. r \in Seq(M) /\ LineBehind(r, t, f)
    BY <1>1, <1>2, <1>3, <1>4, <1>5 DEF LineBehind
<1> QED
    BY <1>6 DEF r

LEMMA NextLine ==
    ASSUME NEW s, IsResumeState(s), NEW p, Places(s, p), NEW n \in 0 .. 7, NEW m, m = n + 1,
           NEW t, LinesOf(s, t, p, n), NEW r, r = t \o Line(Field(s, m))
    PROVE  LinesOf(s, r, p, m)
<1> DEFINE f == Field(s, m)
<1>1. m \in 1 .. 8 /\ m - 1 = n /\ f \in Seq(Marks(s)) /\ t \in Seq(Marks(s)) /\ Break \in Marks(s)
  <2>1. m \in 1 .. 8 /\ m - 1 = n
      OBVIOUS
  <2>2. f \in Seq(Marks(s))
      BY <2>1, FieldsAreTexts
  <2>3. Break \in Marks(s)
      BY DEF Marks
  <2> QED
      BY <2>1, <2>2, <2>3 DEF LinesOf
<1>2. Len(t) = p[n] /\ p[m] = p[n] + Len(f) + 1
    BY <1>1 DEF LinesOf, Places
<1> HIDE DEF f
<1>3. /\ r \in Seq(Marks(s)) /\ Len(r) = Len(t) + Len(f) + 1 /\ Len(t) \in Nat /\ Len(f) \in Nat
      /\ \A i \in 1 .. Len(t) : r[i] = t[i]
      /\ \A i \in 1 .. Len(f) : r[Len(t) + i] = f[i]
      /\ r[Len(t) + Len(f) + 1] = Break
  <2>1. r = t \o Line(f)
      BY DEF f
  <2>2. t \o Line(f) \in Seq(Marks(s)) /\ LineBehind(t \o Line(f), t, f)
      BY <1>1, OneMoreLine
  <2> QED
      BY <2>1, <2>2 DEF LineBehind
<1>4. Len(r) = p[m] /\ r[p[m]] = Break /\ \A i \in 1 .. Len(f) : r[p[m - 1] + i] = f[i]
    BY <1>1, <1>2, <1>3
<1>5. ASSUME NEW k \in 1 .. n
      PROVE  /\ p[k] <= Len(r) /\ r[p[k]] = Break
             /\ \A i \in 1 .. Len(Field(s, k)) : r[p[k - 1] + i] = Field(s, k)[i]
  <2>1. /\ p[k] <= Len(t) /\ t[p[k]] = Break
        /\ \A i \in 1 .. Len(Field(s, k)) : t[p[k - 1] + i] = Field(s, k)[i]
      BY DEF LinesOf
  <2>2. k \in 1 .. 8 /\ k - 1 \in 0 .. 8 /\ k \in 0 .. 8
      OBVIOUS
  <2>3. /\ p[k] \in Nat /\ p[k - 1] \in Nat /\ Len(Field(s, k)) \in Nat
        /\ p[k] = p[k - 1] + Len(Field(s, k)) + 1
    <3>1. Field(s, k) \in Seq(Marks(s))
        BY <2>2, FieldsAreTexts
    <3>2. Len(Field(s, k)) \in Nat
        BY <3>1
    <3> QED
        BY <2>2, <3>2 DEF Places
  <2>4. p[k] \in 1 .. Len(t)
      BY <1>3, <2>1, <2>3
  <2>5. ASSUME NEW i \in 1 .. Len(Field(s, k)) PROVE p[k - 1] + i \in 1 .. Len(t)
    <3> DEFINE w == Len(Field(s, k))
               x == p[k]
               y == p[k - 1]
    <3>1. x \in Nat /\ y \in Nat /\ w \in Nat /\ x = y + w + 1 /\ i \in 1 .. w /\ x <= Len(t)
        BY <2>1, <2>3
    <3> HIDE DEF w, x, y
    <3>2. y + i \in 1 .. Len(t)
        BY <1>3, <3>1
    <3> QED
        BY <3>2 DEF y
  <2> QED
      BY <1>3, <2>1, <2>4, <2>5
<1>6. \A k \in 1 .. m : k \in 1 .. n \/ k = m
    BY <1>1
<1>7. p[m] <= Len(r)
    BY <1>1, <1>3, <1>4 DEF Places
<1> QED
    BY <1>3, <1>4, <1>5, <1>6, <1>7 DEF LinesOf, f

LEMMA EightLines ==
    ASSUME NEW s, IsResumeState(s), NEW p, Places(s, p),
           NEW t1, t1 = Line(Field(s, 1)), NEW t2, t2 = t1 \o Line(Field(s, 2)),
           NEW t3, t3 = t2 \o Line(Field(s, 3)), NEW t4, t4 = t3 \o Line(Field(s, 4)),
           NEW t5, t5 = t4 \o Line(Field(s, 5)), NEW t6, t6 = t5 \o Line(Field(s, 6)),
           NEW t7, t7 = t6 \o Line(Field(s, 7)), NEW t8, t8 = t7 \o Line(Field(s, 8))
    PROVE  LinesOf(s, t8, p, 8)
<1> DEFINE Next(n, m) == n \in 0 .. 7 /\ m = n + 1
<1> DEFINE has(t, n) == LinesOf(s, t, p, n)
           add(t, n) == t \o Line(Field(s, n))
<1>1. \A n, m, t : Next(n, m) /\ has(t, n) => has(add(t, m), m)
    BY NextLine
<1>2. /\ Next(0, 1) /\ Next(1, 2) /\ Next(2, 3) /\ Next(3, 4)
      /\ Next(4, 5) /\ Next(5, 6) /\ Next(6, 7) /\ Next(7, 8)
    OBVIOUS
<1>3. has(<<>>, 0)
    BY DEF LinesOf, Places
<1>4. /\ t2 = add(t1, 2) /\ t3 = add(t2, 3) /\ t4 = add(t3, 4) /\ t5 = add(t4, 5)
      /\ t6 = add(t5, 6) /\ t7 = add(t6, 7) /\ t8 = add(t7, 8)
    OBVIOUS
<1>5. has(t1, 1)
  <2>1. Line(Field(s, 1)) \in Seq(Marks(s))
    <3>1. Field(s, 1) \in Seq(Marks(s))
        BY FieldsAreTexts
    <3>2. Break \in Marks(s)
        BY DEF Marks
    <3> QED
        BY <3>1, <3>2 DEF Line
  <2>2. t1 = add(<<>>, 1)
      BY <2>1, ConcatEmptySeq
  <2> HIDE DEF Next, has, add
  <2> QED
      BY <1>1, <1>2, <1>3, <2>2
<1> HIDE DEF Next, has, add
<1>6. has(t2, 2)
    BY <1>1, <1>2, <1>4, <1>5
<1>7. has(t3, 3)
    BY <1>1, <1>2, <1>4, <1>6
<1>8. has(t4, 4)
    BY <1>1, <1>2, <1>4, <1>7
<1>9. has(t5, 5)
    BY <1>1, <1>2, <1>4, <1>8
<1>10. has(t6, 6)
    BY <1>1, <1>2, <1>4, <1>9
<1>11. has(t7, 7)
    BY <1>1, <1>2, <1>4, <1>10
<1>12. has(t8, 8)
    BY <1>1, <1>2, <1>4, <1>11
<1> QED
    BY <1>12 DEF has

LEMMA RenderLayout ==
    ASSUME NEW s, IsResumeState(s)
    PROVE  \E p : Places(s, p) /\ LinesOf(s, Render(s), p, 8)
<1> DEFINE l(k) == Len(Field(s, k)) + 1
           p == [k \in 0 .. 8 |->
                   CASE k = 0 -> 0 [] k = 1 -> l(1) [] k = 2 -> l(1) + l(2)
                     [] k = 3 -> l(1) + l(2) + l(3) [] k = 4 -> l(1) + l(2) + l(3) + l(4)
                     [] k = 5 -> l(1) + l(2) + l(3) + l(4) + l(5)
                     [] k = 6 -> l(1) + l(2) + l(3) + l(4) + l(5) + l(6)
                     [] k = 7 -> l(1) + l(2) + l(3) + l(4) + l(5) + l(6) + l(7)
                     [] OTHER -> l(1) + l(2) + l(3) + l(4) + l(5) + l(6) + l(7) + l(8)]
<1>1. \A k \in 1 .. 8 : l(k) \in Nat /\ Len(Field(s, k)) \in Nat
    BY FieldsAreTexts
<1>2. Places(s, p)
  <2>1. \A k \in 1 .. 8 : l(k) = Len(Field(s, k)) + 1
      OBVIOUS
  <2> HIDE DEF l
  <2>2. /\ p[0] = 0 /\ p[1] = p[0] + l(1) /\ p[2] = p[1] + l(2) /\ p[3] = p[2] + l(3)
        /\ p[4] = p[3] + l(4) /\ p[5] = p[4] + l(5) /\ p[6] = p[5] + l(6)
        /\ p[7] = p[6] + l(7) /\ p[8] = p[7] + l(8) /\ p = [k \in 0 .. 8 |-> p[k]]
      BY <1>1
  <2> HIDE DEF p
  <2>3. \A k \in 1 .. 8 : p[k] = p[k - 1] + l(k)
      BY <2>2
  <2>4. \A k \in 0 .. 8 : p[k] \in Nat
    <3>1. /\ l(1) \in Nat /\ l(2) \in Nat /\ l(3) \in Nat /\ l(4) \in Nat
          /\ l(5) \in Nat /\ l(6) \in Nat /\ l(7) \in Nat /\ l(8) \in Nat
        BY <1>1
    <3>2. /\ p[0] \in Nat /\ p[1] \in Nat /\ p[2] \in Nat /\ p[3] \in Nat /\ p[4] \in Nat
          /\ p[5] \in Nat /\ p[6] \in Nat /\ p[7] \in Nat /\ p[8] \in Nat
        BY <2>2, <3>1
    <3> QED
        BY <3>2
  <2>5. p \in [0 .. 8 -> Nat]
      BY <2>2, <2>4
  <2>6. ASSUME NEW k \in 1 .. 8 PROVE p[k] = p[k - 1] + Len(Field(s, k)) + 1
    <3>0. k - 1 \in 0 .. 8
        OBVIOUS
    <3>1. p[k - 1] \in Nat /\ Len(Field(s, k)) \in Nat
        BY <1>1, <2>4, <3>0
    <3>2. p[k] = p[k - 1] + (Len(Field(s, k)) + 1)
        BY <2>1, <2>3
    <3> QED
        BY <3>1, <3>2
  <2> QED
      BY <2>2, <2>5, <2>6 DEF Places
<1> HIDE DEF p
<1> DEFINE t1 == Line(Field(s, 1))
           t2 == t1 \o Line(Field(s, 2))
           t3 == t2 \o Line(Field(s, 3))
           t4 == t3 \o Line(Field(s, 4))
           t5 == t4 \o Line(Field(s, 5))
           t6 == t5 \o Line(Field(s, 6))
           t7 == t6 \o Line(Field(s, 7))
<1>3. Render(s) = t7 \o Line(Field(s, 8))
    BY DEF Render, Field
<1>4. LinesOf(s, Render(s), p, 8)
    BY <1>2, <1>3, EightLines
<1> QED
    BY <1>2, <1>4

\* The marks of r behind x and before y.
Says(l, r, x, y) ==
    /\ Len(l) \in Nat /\ Len(l) = y - x - 1
    /\ \A i \in 1 .. Len(l) : l[i] = r[x + i]

LEMMA PartSays ==
    ASSUME NEW M, NEW r \in Seq(M), NEW a \in 1 .. Len(r), NEW z \in 1 .. Len(r), a <= z
    PROVE  /\ SubSeq(r, a, z) \in Seq(M) /\ Len(SubSeq(r, a, z)) = z - a + 1
           /\ \A j \in 1 .. Len(SubSeq(r, a, z)) : SubSeq(r, a, z)[j] = r[a - 1 + j]
<1> DEFINE t == SubSeq(r, a, z)
<1>1. a \in Nat /\ z \in Nat /\ Len(r) \in Nat
    OBVIOUS
<1>2. t \in Seq(M) /\ Len(t) = z - a + 1 /\ \A j \in 1 .. z - a + 1 : t[j] = r[a + j - 1]
  <2>1. \A i \in a .. z : i \in 1 .. Len(r)
      BY <1>1
  <2>2. \A i \in a .. z : r[i] \in M
      BY <2>1
  <2> QED
      BY <1>1, <2>2, SubSeqProperties
<1>3. \A j \in 1 .. z - a + 1 : j \in Nat /\ a + j - 1 = a - 1 + j
    BY <1>1
<1> QED
    BY <1>2, <1>3

LEMMA LineSays ==
    ASSUME NEW M, NEW t \in Seq(M), NEW r, NEW a \in Nat \ {0},
           \A j \in 1 .. Len(t) : t[j] = r[a - 1 + j],
           NEW x \in 1 .. Len(t), NEW y \in 1 .. Len(t) + 1, x < y,
           NEW l, l = SubSeq(t, x + 1, y - 1)
    PROVE  l \in Seq(M) /\ Says(l, r, a - 1 + x, a - 1 + y)
<1>1. Len(t) \in Nat /\ x \in Nat /\ y \in Nat /\ a \in Nat
    OBVIOUS
<1>2. CASE y = x + 1
  <2>1. l = <<>>
      BY <1>1, <1>2
  <2> QED
      BY <1>1, <1>2, <2>1 DEF Says
<1>3. CASE y # x + 1
  <2>1. x + 1 \in 1 .. Len(t) /\ y - 1 \in 1 .. Len(t) /\ x + 1 <= y - 1
      BY <1>1, <1>3
  <2>2. /\ l \in Seq(M) /\ Len(l) = (y - 1) - (x + 1) + 1
        /\ \A j \in 1 .. Len(l) : l[j] = t[(x + 1) - 1 + j]
      BY <2>1, PartSays
  <2>3. Len(l) \in Nat /\ Len(l) = (a - 1 + y) - (a - 1 + x) - 1 /\ Len(l) = y - x - 1
      BY <1>1, <2>1, <2>2
  <2>4. ASSUME NEW j \in 1 .. Len(l) PROVE l[j] = r[a - 1 + x + j]
    <3> DEFINE n == Len(l)
               w == Len(t)
    <3>1. n \in Nat /\ w \in Nat /\ n = y - x - 1 /\ j \in 1 .. n /\ y \in 1 .. w + 1
        BY <1>1, <2>3
    <3> HIDE DEF n, w
    <3>2. x + j \in 1 .. w /\ (x + 1) - 1 + j = x + j /\ a - 1 + (x + j) = a - 1 + x + j
        BY <1>1, <3>1
    <3>3. l[j] = t[x + j]
        BY <2>2, <3>2
    <3>4. t[x + j] = r[a - 1 + (x + j)]
        BY <3>2 DEF w
    <3> QED
        BY <3>2, <3>3, <3>4
  <2> QED
      BY <2>2, <2>3, <2>4 DEF Says
<1> QED
    BY <1>2, <1>3

\* The part of r from a to z, whose text is t, has six lines: its first five
\* breaks are d1 to d5, its sixth line ends before e.
SixLinesOf(r, a, z, t, d1, d2, d3, d4, d5, e) ==
    /\ {d1, d2, d3, d4, d5, e} \subseteq Nat
    /\ a <= d1 /\ d1 < d2 /\ d2 < d3 /\ d3 < d4 /\ d4 < d5 /\ d5 < e /\ e <= z + 1
    /\ \A d \in {d1, d2, d3, d4, d5} : r[d] = Break
    /\ \A b \in a .. z : r[b] = Break => b \in {d1, d2, d3, d4, d5} \/ e <= b
    /\ e = z + 1 \/ r[e] = Break
    /\ Says(LineAt(t, 4), r, d3, d4) /\ Says(LineAt(t, 5), r, d4, d5)
    /\ Says(LineAt(t, 6), r, d5, e)

LEMMA SixLinesFound ==
    ASSUME NEW M, NEW r \in Seq(M), NEW a \in 1 .. Len(r), NEW z \in 1 .. Len(r), a <= z,
           NEW t, t = SubSeq(r, a, z), LineCount(t) >= 6
    PROVE  /\ \E d1, d2, d3, d4, d5, e : SixLinesOf(r, a, z, t, d1, d2, d3, d4, d5, e)
           /\ LineAt(t, 6) \in Seq(M)
<1>1. /\ t \in Seq(M) /\ Len(t) = z - a + 1 /\ \A j \in 1 .. Len(t) : t[j] = r[a - 1 + j]
    BY PartSays
<1>2. PICK m1, m2, m3, m4, m5 : FirstBreaks(t, m1, m2, m3, m4, m5)
    BY <1>1, SixLines
<1>3. /\ {m1, m2, m3, m4, m5} \subseteq 1 .. Len(t)
      /\ LineEnd(t, 3) = m3 /\ LineEnd(t, 4) = m4 /\ LineEnd(t, 5) = m5
      /\ \A e \in Breaks(t) \cup {Len(t) + 1} :
           m5 < e /\ (\A b \in Breaks(t) : m5 < b => e <= b) => LineEnd(t, 6) = e
    BY <1>1, <1>2, LinesAre
<1>4. /\ {m1, m2, m3, m4, m5} \subseteq Breaks(t)
      /\ 0 < m1 /\ m1 < m2 /\ m2 < m3 /\ m3 < m4 /\ m4 < m5
      /\ \A b \in Breaks(t) : b \in {m1, m2, m3, m4, m5} \/ m5 < b
    BY <1>2 DEF FirstBreaks
<1>5. Breaks(t) \in SUBSET Nat /\ Breaks(t) \subseteq 1 .. Len(t) /\ Len(t) \in Nat
    BY <1>1, BreaksAreNumbers
<1>6. a \in Nat /\ z \in Nat /\ a >= 1 /\ \A j \in 1 .. Len(t) : j \in Breaks(t) <=> r[a - 1 + j] = Break
    BY <1>1 DEF Breaks
<1> DEFINE w == Len(t)
           B == Breaks(t)
           later == {b \in B : m5 < b} \cup {w + 1}
<1>7. PICK f \in later : \A b \in later : f <= b
  <2>1. later \in SUBSET Nat /\ w + 1 \in later
      BY <1>5
  <2> HIDE DEF later
  <2> QED
      BY <2>1, LeastNat
<1>8. /\ f \in B \cup {w + 1} /\ m5 < f /\ f \in 1 .. w + 1
      /\ \A b \in B : m5 < b => f <= b
  <2>1. m5 \in 1 .. w
      BY <1>3
  <2>2. m5 < w + 1
      BY <1>5, <2>1
  <2> QED
      BY <1>5, <1>7, <2>2
<1>9. LineEnd(t, 6) = f
    BY <1>3, <1>8
<1>10. /\ LineAt(t, 4) = SubSeq(t, m3 + 1, m4 - 1) /\ LineAt(t, 5) = SubSeq(t, m4 + 1, m5 - 1)
       /\ LineAt(t, 6) = SubSeq(t, m5 + 1, f - 1)
  <2>1. 4 - 1 = 3 /\ 5 - 1 = 4 /\ 6 - 1 = 5
      OBVIOUS
  <2> QED
      BY <1>3, <1>9, <2>1 DEF LineAt
<1>11. m1 \in 1 .. w /\ m2 \in 1 .. w /\ m3 \in 1 .. w /\ m4 \in 1 .. w /\ m5 \in 1 .. w
       /\ w \in Nat /\ w = z - a + 1
    BY <1>1, <1>3, <1>5
<1> DEFINE at(m) == a - 1 + m
<1>12. /\ Says(LineAt(t, 4), r, at(m3), at(m4)) /\ Says(LineAt(t, 5), r, at(m4), at(m5))
       /\ Says(LineAt(t, 6), r, at(m5), at(f)) /\ LineAt(t, 6) \in Seq(M)
  <2>1. m4 \in 1 .. w + 1 /\ m5 \in 1 .. w + 1 /\ a \in Nat \ {0}
      BY <1>6, <1>11
  <2>2. ASSUME NEW x \in 1 .. Len(t), NEW y \in 1 .. Len(t) + 1, x < y
        PROVE  SubSeq(t, x + 1, y - 1) \in Seq(M) /\ Says(SubSeq(t, x + 1, y - 1), r, at(x), at(y))
      BY <1>1, <2>1, <2>2, LineSays
  <2> HIDE DEF at
  <2>3. Says(LineAt(t, 4), r, at(m3), at(m4))
      BY <1>4, <1>10, <1>11, <2>1, <2>2
  <2>4. Says(LineAt(t, 5), r, at(m4), at(m5))
      BY <1>4, <1>10, <1>11, <2>1, <2>2
  <2>5. Says(LineAt(t, 6), r, at(m5), at(f)) /\ LineAt(t, 6) \in Seq(M)
      BY <1>8, <1>10, <1>11, <2>1, <2>2
  <2> QED
      BY <2>3, <2>4, <2>5
<1>13. ASSUME NEW b \in a .. z, r[b] = Break
       PROVE  b \in {at(m1), at(m2), at(m3), at(m4), at(m5)} \/ at(f) <= b
  <2> DEFINE j == b - a + 1
  <2>1. j \in 1 .. w /\ b = a - 1 + j
      BY <1>6, <1>11
  <2> HIDE DEF j, w
  <2>2. j \in B
      BY <1>6, <1>13, <2>1 DEF w
  <2> HIDE DEF B
  <2>3. j \in {m1, m2, m3, m4, m5} \/ f <= j
      BY <1>4, <1>8, <2>2 DEF B
  <2>4. f <= j => at(f) <= b
      BY <1>6, <1>8, <1>11, <2>1
  <2> QED
      BY <2>1, <2>3, <2>4
<1>14. /\ r[at(m1)] = Break /\ r[at(m2)] = Break /\ r[at(m3)] = Break /\ r[at(m4)] = Break
       /\ r[at(m5)] = Break /\ (f = w + 1 \/ r[at(f)] = Break)
    BY <1>4, <1>5, <1>6, <1>8, <1>11
<1>15. /\ at(m1) \in Nat /\ at(m2) \in Nat /\ at(m3) \in Nat /\ at(m4) \in Nat
       /\ at(m5) \in Nat /\ at(f) \in Nat /\ a <= at(m1) /\ at(m1) < at(m2) /\ at(m2) < at(m3)
       /\ at(m3) < at(m4) /\ at(m4) < at(m5) /\ at(m5) < at(f) /\ at(f) <= z + 1
       /\ (f = w + 1 => at(f) = z + 1)
  <2> HIDE DEF w, B
  <2> QED
      BY <1>4, <1>6, <1>8, <1>11
<1> HIDE DEF at
<1>16. SixLinesOf(r, a, z, t, at(m1), at(m2), at(m3), at(m4), at(m5), at(f))
    BY <1>12, <1>13, <1>14, <1>15 DEF SixLinesOf
<1> QED
    BY <1>12, <1>16

\* Every place of a text before its n-th break is in one of its fields or at
\* the break behind it.
LEMMA InAField ==
    ASSUME NEW s, NEW p, Places(s, p), NEW n \in 1 .. 8, NEW x \in Nat, x < p[n]
    PROVE  \E k \in 1 .. n : p[k - 1] <= x /\ x < p[k]
<1> DEFINE past == {k \in 1 .. n : x < p[k]}
<1>1. PICK k \in past : \A j \in past : k <= j
  <2>1. past \in SUBSET Nat /\ n \in past
      OBVIOUS
  <2> HIDE DEF past
  <2> QED
      BY <2>1, LeastNat
<1>2. k \in 1 .. n /\ x < p[k] /\ k - 1 \notin past
    BY <1>1
<1>3. CASE k = 1
    BY <1>2, <1>3 DEF Places
<1>4. CASE k # 1
  <2>1. k - 1 \in 1 .. n /\ k - 1 \in 0 .. 8
      BY <1>2, <1>4
  <2>2. ~(x < p[k - 1])
      BY <1>2, <2>1
  <2>3. p[k - 1] \in Nat
      BY <2>1 DEF Places
  <2> QED
      BY <1>2, <2>2, <2>3
<1> QED
    BY <1>3, <1>4

\* What the layout says of one field.
FieldStands(s, r, p, k) ==
    /\ p[k] \in Nat /\ p[k - 1] \in Nat /\ Len(Field(s, k)) \in Nat
    /\ p[k] = p[k - 1] + Len(Field(s, k)) + 1 /\ p[k] <= Len(r) /\ r[p[k]] = Break
    /\ \A i \in 1 .. Len(Field(s, k)) : r[p[k - 1] + i] = Field(s, k)[i]

LEMMA FieldOf ==
    ASSUME NEW s, IsResumeState(s), NEW p, Places(s, p), NEW r, LinesOf(s, r, p, 8),
           NEW k \in 1 .. 8
    PROVE  FieldStands(s, r, p, k)
<1>1. k \in 0 .. 8 /\ k - 1 \in 0 .. 8
    OBVIOUS
<1>2. Field(s, k) \in Seq(Marks(s))
    BY FieldsAreTexts
<1>3. Len(Field(s, k)) \in Nat
    BY <1>2
<1> QED
    BY <1>1, <1>3 DEF Places, LinesOf, FieldStands

LEMMA NumbersAreNoBreaks ==
    \A n : Digits(n) # Break /\ Digits(n).mark = "number" /\ Digits(n).n = n
<1> SUFFICES ASSUME NEW n PROVE Digits(n) # Break /\ Digits(n).mark = "number" /\ Digits(n).n = n
    OBVIOUS
<1>1. Digits(n).mark = "number" /\ Digits(n).n = n
    BY DEF Digits
<1>2. Break.mark = "break"
    BY DEF Break
<1> QED
    BY <1>1, <1>2

\* Where the two numbers are.
LEMMA NumbersAt ==
    ASSUME NEW s, IsResumeState(s), NEW p, Places(s, p), NEW r, LinesOf(s, r, p, 8)
    PROVE  /\ p[3] \in Nat /\ p[4] = p[3] + 2 /\ p[5] = p[4] + 2
           /\ r[p[3]] = Break /\ r[p[4]] = Break /\ r[p[5]] = Break
           /\ r[p[3] + 1] = Digits(s.total) /\ r[p[4] + 1] = Digits(s.processed)
<1>1. 3 \in 1 .. 8 /\ 4 \in 1 .. 8 /\ 5 \in 1 .. 8 /\ 4 - 1 = 3 /\ 5 - 1 = 4
    OBVIOUS
<1>2. Field(s, 4) = <<Digits(s.total)>> /\ Field(s, 5) = <<Digits(s.processed)>>
    BY DEF Field
<1>3. /\ Len(Field(s, 4)) = 1 /\ Len(Field(s, 5)) = 1
      /\ Field(s, 4)[1] = Digits(s.total) /\ Field(s, 5)[1] = Digits(s.processed)
    BY <1>2
<1>4. p[3] \in Nat /\ r[p[3]] = Break
    BY <1>1, FieldOf DEF FieldStands
<1>5. p[4] = p[3] + 1 + 1 /\ r[p[4]] = Break /\ r[p[3] + 1] = Digits(s.total)
  <2>1. /\ p[4] = p[4 - 1] + Len(Field(s, 4)) + 1 /\ r[p[4]] = Break
        /\ \A i \in 1 .. Len(Field(s, 4)) : r[p[4 - 1] + i] = Field(s, 4)[i]
      BY <1>1, FieldOf DEF FieldStands
  <2> QED
      BY <1>1, <1>3, <2>1
<1>6. p[5] = p[4] + 1 + 1 /\ r[p[5]] = Break /\ r[p[4] + 1] = Digits(s.processed)
  <2>1. /\ p[5] = p[5 - 1] + Len(Field(s, 5)) + 1 /\ r[p[5]] = Break
        /\ \A i \in 1 .. Len(Field(s, 5)) : r[p[5 - 1] + i] = Field(s, 5)[i]
      BY <1>1, FieldOf DEF FieldStands
  <2> QED
      BY <1>1, <1>3, <2>1
<1> QED
    BY <1>4, <1>5, <1>6

\* Whoever counts the same fifth break as the writer reads the numbers.
LEMMA NumbersRead ==
    ASSUME NEW s, IsResumeState(s), NEW p, Places(s, p), NEW r, LinesOf(s, r, p, 8),
           NEW a \in Nat, NEW z \in Nat, NEW t,
           NEW d1, NEW d2, NEW d3, NEW d4, NEW d5, NEW e,
           SixLinesOf(r, a, z, t, d1, d2, d3, d4, d5, e), d5 = p[5]
    PROVE  ParseNumber(LineAt(t, 4)) = s.total /\ ParseNumber(LineAt(t, 5)) = s.processed
<1>1. /\ p[3] \in Nat /\ p[4] = p[3] + 2 /\ p[5] = p[4] + 2
      /\ r[p[3]] = Break /\ r[p[4]] = Break /\ r[p[5]] = Break
      /\ r[p[3] + 1] = Digits(s.total) /\ r[p[4] + 1] = Digits(s.processed)
    BY NumbersAt
<1>2. r[p[3] + 1] # Break /\ r[p[4] + 1] # Break
    BY <1>1, NumbersAreNoBreaks
<1>3. /\ d1 \in Nat /\ d2 \in Nat /\ d3 \in Nat /\ d4 \in Nat /\ d5 \in Nat /\ e \in Nat
      /\ a <= d1 /\ d1 < d2 /\ d2 < d3 /\ d3 < d4 /\ d4 < d5 /\ d5 < e /\ e <= z + 1
      /\ r[d3] = Break /\ r[d4] = Break
      /\ \A b \in a .. z : r[b] = Break => b \in {d1, d2, d3, d4, d5} \/ e <= b
    BY DEF SixLinesOf
<1> DEFINE x3 == p[3]
           x4 == p[4]
           x5 == p[5]
<1>4. x3 \in Nat /\ x4 = x3 + 2 /\ x5 = x4 + 2 /\ d5 = x5 /\ x4 \in Nat
    BY <1>1
<1>5. /\ r[x3] = Break /\ r[x4] = Break /\ r[x3 + 1] # Break /\ r[x4 + 1] # Break
    BY <1>1, <1>2
<1> HIDE DEF x3, x4, x5
<1>6. d4 = x4
  <2>1. d4 # x4 + 1
      BY <1>3, <1>5
  <2>2. x4 \in a .. z
      BY <1>3, <1>4, <2>1
  <2> QED
      BY <1>3, <1>4, <1>5, <2>1, <2>2
<1>7. d3 = x3
  <2>1. d3 # x3 + 1
      BY <1>3, <1>5
  <2>2. x3 \in a .. z
      BY <1>3, <1>4, <1>6, <2>1
  <2> QED
      BY <1>3, <1>4, <1>5, <1>6, <2>1, <2>2
<1>8. Len(LineAt(t, 4)) = 1 /\ LineAt(t, 4)[1] = r[x3 + 1]
  <2>1. Says(LineAt(t, 4), r, d3, d4)
      BY DEF SixLinesOf
  <2> QED
      BY <1>4, <1>6, <1>7, <2>1 DEF Says
<1>9. Len(LineAt(t, 5)) = 1 /\ LineAt(t, 5)[1] = r[x4 + 1]
  <2>1. Says(LineAt(t, 5), r, d4, d5)
      BY DEF SixLinesOf
  <2> QED
      BY <1>4, <1>6, <2>1 DEF Says
<1>10. LineAt(t, 4)[1] = Digits(s.total) /\ LineAt(t, 5)[1] = Digits(s.processed)
    BY <1>1, <1>8, <1>9 DEF x3, x4
<1> QED
    BY <1>8, <1>9, <1>10, NumbersAreNoBreaks DEF ParseNumber

\* With paths of one line no field but the hint can hold a break.
LEMMA HeadFields ==
    ASSUME NEW s, IsResumeState(s), OneLine(s.sourcePath), OneLine(s.archivePath),
           NEW k \in 1 .. 6, NEW i \in 1 .. Len(Field(s, k))
    PROVE  Field(s, k)[i] # Break
<1>1. Field(s, k) \in Seq(Marks(s))
  <2>1. k \in 1 .. 8
      OBVIOUS
  <2> QED
      BY <2>1, FieldsAreTexts
<1>2. CASE k = 1
  <2>1. Field(s, k) = s.sourcePath
      BY <1>2 DEF Field
  <2> QED
      BY <1>1, <2>1 DEF OneLine, Breaks
<1>3. CASE k = 2
  <2>1. Field(s, k) = s.archivePath
      BY <1>3 DEF Field
  <2> QED
      BY <1>1, <2>1 DEF OneLine, Breaks
<1>4. CASE k = 3
  <2>1. Field(s, k) = <<s.backend>>
      BY <1>4 DEF Field
  <2>2. i = 1
      BY <2>1
  <2>3. Field(s, k)[i] = s.backend
      BY <2>1, <2>2
  <2> QED
      BY <2>3 DEF IsResumeState, White
<1>5. CASE k = 4
  <2>1. Field(s, k) = <<Digits(s.total)>>
      BY <1>5 DEF Field
  <2>2. i = 1
      BY <2>1
  <2>3. Field(s, k)[i] = Digits(s.total)
      BY <2>1, <2>2
  <2> QED
      BY <2>3, NumbersAreNoBreaks
<1>6. CASE k = 5
  <2>1. Field(s, k) = <<Digits(s.processed)>>
      BY <1>6 DEF Field
  <2>2. i = 1
      BY <2>1
  <2>3. Field(s, k)[i] = Digits(s.processed)
      BY <2>1, <2>2
  <2> QED
      BY <2>3, NumbersAreNoBreaks
<1>7. CASE k = 6
  <2>1. Field(s, k) = s.checksum
      BY <1>7 DEF Field
  <2>2. i \in DOMAIN s.checksum
      BY <1>1, <2>1
  <2> QED
      BY <2>1, <2>2 DEF IsResumeState, White
<1> QED
    BY <1>2, <1>3, <1>4, <1>5, <1>6, <1>7

LEMMA HeadBreaks ==
    ASSUME NEW s, IsResumeState(s), OneLine(s.sourcePath), OneLine(s.archivePath),
           NEW p, Places(s, p), NEW r, LinesOf(s, r, p, 8), NEW n \in 1 .. 6,
           NEW b \in Nat \ {0}, b <= p[n], r[b] = Break
    PROVE  \E k \in 1 .. n : b = p[k]
<1>1. p[n] \in Nat /\ n \in 1 .. 8
  <2>1. n \in 1 .. 8
      OBVIOUS
  <2> QED
      BY <2>1, FieldOf DEF FieldStands
<1>2. b - 1 \in Nat /\ b - 1 < p[n]
    BY <1>1
<1>3. PICK k \in 1 .. n : p[k - 1] <= b - 1 /\ b - 1 < p[k]
    BY <1>1, <1>2, InAField
<1>4. k \in 1 .. 8 /\ k \in 1 .. 6
    OBVIOUS
<1> DEFINE w == Len(Field(s, k))
           x == p[k]
           y == p[k - 1]
<1>5. /\ x \in Nat /\ y \in Nat /\ w \in Nat /\ x = y + w + 1
      /\ \A i \in 1 .. w : r[y + i] = Field(s, k)[i] /\ Field(s, k)[i] # Break
  <2>1. FieldStands(s, r, p, k)
      BY <1>4, FieldOf
  <2>2. \A i \in 1 .. Len(Field(s, k)) : Field(s, k)[i] # Break
      BY <1>4, HeadFields
  <2> QED
      BY <2>1, <2>2 DEF FieldStands
<1>6. y <= b - 1 /\ b - 1 < x
    BY <1>3
<1> HIDE DEF w, x, y
<1>7. CASE b = x
    BY <1>7 DEF x
<1>8. CASE b # x
  <2>1. b - y \in 1 .. w /\ y + (b - y) = b
      BY <1>5, <1>6, <1>8
  <2> QED
      BY <1>5, <2>1
<1> QED
    BY <1>7, <1>8

\* A text whose marks start with the source path reads it as its first line.
LEMMA HeadIsRead ==
    ASSUME NEW s, IsResumeState(s), OneLine(s.sourcePath), OneLine(s.archivePath),
           NEW p, Places(s, p), NEW r, LinesOf(s, r, p, 8),
           NEW a \in Nat \ {0}, NEW z \in Nat, a <= p[1], NEW t,
           NEW d1, NEW d2, NEW d3, NEW d4, NEW d5, NEW e,
           SixLinesOf(r, a, z, t, d1, d2, d3, d4, d5, e)
    PROVE  d5 = p[5]
<1>1. /\ d1 \in Nat /\ d2 \in Nat /\ d3 \in Nat /\ d4 \in Nat /\ d5 \in Nat /\ e \in Nat
      /\ a <= d1 /\ d1 < d2 /\ d2 < d3 /\ d3 < d4 /\ d4 < d5 /\ d5 < e /\ e <= z + 1
      /\ r[d1] = Break /\ r[d2] = Break /\ r[d3] = Break /\ r[d4] = Break /\ r[d5] = Break
      /\ \A b \in a .. z : r[b] = Break => b \in {d1, d2, d3, d4, d5} \/ e <= b
    BY DEF SixLinesOf
<1> DEFINE x1 == p[1]
           x2 == p[2]
           x3 == p[3]
           x4 == p[4]
           x5 == p[5]
<1>2. /\ x1 \in Nat /\ x2 \in Nat /\ x3 \in Nat /\ x4 \in Nat /\ x5 \in Nat
      /\ x1 < x2 /\ x2 < x3 /\ x3 < x4 /\ x4 < x5
      /\ r[x1] = Break /\ r[x2] = Break /\ r[x3] = Break /\ r[x4] = Break /\ r[x5] = Break
  <2>1. ASSUME NEW k \in 1 .. 8 PROVE p[k] \in Nat /\ r[p[k]] = Break /\ p[k - 1] < p[k]
    <3>1. FieldStands(s, r, p, k)
        BY FieldOf
    <3> QED
        BY <3>1 DEF FieldStands
  <2>2. p[1] < p[2] /\ p[2] < p[3] /\ p[3] < p[4] /\ p[4] < p[5]
    <3>1. p[2 - 1] < p[2] /\ p[3 - 1] < p[3] /\ p[4 - 1] < p[4] /\ p[5 - 1] < p[5]
        BY <2>1
    <3> QED
        BY <3>1
  <2> QED
      BY <2>1, <2>2
<1>3. \A b \in Nat \ {0} : r[b] = Break /\ b <= x5 => b \in {x1, x2, x3, x4, x5}
  <2> SUFFICES ASSUME NEW b \in Nat \ {0}, r[b] = Break, b <= x5 PROVE b \in {x1, x2, x3, x4, x5}
      OBVIOUS
  <2>1. 5 \in 1 .. 6
      OBVIOUS
  <2>2. PICK k \in 1 .. 5 : b = p[k]
      BY <2>1, HeadBreaks
  <2> QED
      BY <2>2
<1>4. a <= x1
    OBVIOUS
<1> HIDE DEF x1, x2, x3, x4, x5
<1>5. ~(d5 < x5)
  <2>1. SUFFICES ASSUME d5 < x5 PROVE FALSE
      OBVIOUS
  <2>2. /\ d1 \in {x1, x2, x3, x4, x5} /\ d2 \in {x1, x2, x3, x4, x5}
        /\ d3 \in {x1, x2, x3, x4, x5} /\ d4 \in {x1, x2, x3, x4, x5}
        /\ d5 \in {x1, x2, x3, x4, x5}
      BY <1>1, <1>2, <1>3, <2>1
  <2> QED
      BY <1>1, <1>2, <2>1, <2>2
<1>6. ~(x5 < d5)
  <2>1. SUFFICES ASSUME x5 < d5 PROVE FALSE
      OBVIOUS
  <2>2. /\ x1 \in {d1, d2, d3, d4, d5} /\ x2 \in {d1, d2, d3, d4, d5}
        /\ x3 \in {d1, d2, d3, d4, d5} /\ x4 \in {d1, d2, d3, d4, d5}
        /\ x5 \in {d1, d2, d3, d4, d5}
    <3>1. x1 \in a .. z /\ x2 \in a .. z /\ x3 \in a .. z /\ x4 \in a .. z /\ x5 \in a .. z
        BY <1>1, <1>2, <1>4, <2>1
    <3>2. ~(e <= x1) /\ ~(e <= x2) /\ ~(e <= x3) /\ ~(e <= x4) /\ ~(e <= x5)
        BY <1>1, <1>2, <2>1
    <3> QED
        BY <1>1, <1>2, <3>1, <3>2
  <2> QED
      BY <1>1, <1>2, <2>1, <2>2
<1>7. d5 = x5
    BY <1>1, <1>2, <1>5, <1>6
<1> QED
    BY <1>7 DEF x5

\* The checksum of the source occurs in the line of the checksum alone: whoever
\* reads it reads it there.
LEMMA ChecksumIsRead ==
    ASSUME NEW s, IsResumeState(s), NEW p, Places(s, p), NEW r, LinesOf(s, r, p, 8),
           \A other \in {s.sourcePath, s.archivePath, <<s.backend>>, <<Digits(s.total)>>,
                         <<Digits(s.processed)>>, s.hint, <<s.created>>} :
             ~Within(s.checksum, other),
           NEW a \in Nat \ {0}, NEW z \in Nat, z <= Len(r), NEW t,
           NEW d1, NEW d2, NEW d3, NEW d4, NEW d5, NEW e,
           SixLinesOf(r, a, z, t, d1, d2, d3, d4, d5, e),
           LineAt(t, 6) = s.checksum
    PROVE  d5 = p[5]
<1> DEFINE n == Len(s.checksum)
<1>1. /\ n \in Nat /\ n # 0 /\ s.checksum \in Seq(Marks(s))
      /\ \A i \in 1 .. n : s.checksum[i] # Break
  <2>1. s.checksum = Field(s, 6) /\ 6 \in 1 .. 8
      BY DEF Field
  <2>2. s.checksum \in Seq(Marks(s))
      BY <2>1, FieldsAreTexts
  <2> QED
      BY <2>2 DEF IsResumeState, White
<1>2. /\ d5 \in Nat /\ e \in Nat /\ d5 < e /\ e <= z + 1 /\ n = e - d5 - 1
      /\ \A i \in 1 .. n : s.checksum[i] = r[d5 + i]
    BY DEF SixLinesOf, Says
<1>3. Len(r) = p[8] /\ p[8] \in Nat /\ 8 \in 1 .. 8
  <2>1. 8 \in 1 .. 8 /\ Len(r) = p[8]
      BY DEF LinesOf
  <2> QED
      BY <2>1, FieldOf
<1> HIDE DEF n
<1>4. d5 < p[8]
    BY <1>1, <1>2, <1>3
<1>5. PICK k \in 1 .. 8 : p[k - 1] <= d5 /\ d5 < p[k]
    BY <1>2, <1>3, <1>4, InAField
<1> DEFINE w == Len(Field(s, k))
           x == p[k]
           y == p[k - 1]
<1>6. /\ x \in Nat /\ y \in Nat /\ w \in Nat /\ x = y + w + 1 /\ r[x] = Break
      /\ y <= d5 /\ d5 < x /\ \A i \in 1 .. w : r[y + i] = Field(s, k)[i]
  <2>1. FieldStands(s, r, p, k)
      BY FieldOf
  <2> QED
      BY <1>5, <2>1 DEF FieldStands
<1> HIDE DEF w, x, y
<1>7. d5 + n < x
  <2>1. SUFFICES ASSUME x <= d5 + n PROVE FALSE
      BY <1>1, <1>2, <1>6
  <2>2. x - d5 \in 1 .. n /\ d5 + (x - d5) = x
      BY <1>1, <1>2, <1>6, <2>1
  <2> QED
      BY <1>1, <1>2, <1>6, <2>2
<1>8. d5 - y \in 0 .. w - n
    BY <1>1, <1>2, <1>6, <1>7
<1>9. ASSUME NEW i \in 1 .. n PROVE Field(s, k)[d5 - y + i] = s.checksum[i]
  <2>1. d5 - y + i \in 1 .. w /\ y + (d5 - y + i) = d5 + i
      BY <1>1, <1>2, <1>6, <1>7
  <2> QED
      BY <1>2, <1>6, <2>1
<1>10. Within(s.checksum, Field(s, k))
  <2>1. DOMAIN s.checksum = 1 .. n
      BY <1>1 DEF n
  <2>2. \A i \in DOMAIN s.checksum : Field(s, k)[(d5 - y) + i] = s.checksum[i]
      BY <1>9, <2>1
  <2>3. d5 - y \in 0 .. Len(Field(s, k)) - Len(s.checksum)
      BY <1>8 DEF w, n
  <2> QED
      BY <2>2, <2>3 DEF Within
<1>11. k = 6
    BY <1>10 DEF Field
<1>12. w = n /\ y = p[5]
  <2>1. 6 - 1 = 5 /\ Field(s, 6) = s.checksum
      BY DEF Field
  <2> QED
      BY <1>11, <2>1 DEF w, n, y
<1>13. d5 = y
    BY <1>1, <1>2, <1>6, <1>8, <1>12
<1> QED
    BY <1>12, <1>13

\* Of six lines there is something to read.
LEMMA NothingIsOneLine == LineCount(<<>>) = 1
<1>1. Breaks(<<>>) = {}
    BY DEF Breaks
<1>2. Cardinality(Breaks(<<>>)) = 0
    BY <1>1, FS_EmptySet
<1> QED
    BY <1>2 DEF LineCount

\* What load_resume_state looks at in a cut text is a part of the whole one that
\* starts where its first mark that is not white stands.
LEMMA CutText ==
    ASSUME NEW M, NEW r \in Seq(M), NEW cut \in 0 .. Len(r),
           NEW t, t = Trim(SubSeq(r, 1, cut)), LineCount(t) >= 6
    PROVE  \E a, z \in 1 .. Len(r) :
             a <= z /\ t = SubSeq(r, a, z) /\ \A i \in 1 .. a - 1 : White(r[i])
<1> DEFINE c == SubSeq(r, 1, cut)
<1>1. t # <<>>
    BY NothingIsOneLine
<1>2. cut # 0
  <2>1. SUFFICES ASSUME cut = 0 PROVE FALSE
      OBVIOUS
  <2>2. c = <<>>
      BY <2>1
  <2>3. Trim(<<>>) = <<>>
      BY DEF Trim
  <2> QED
      BY <1>1, <2>2, <2>3
<1>3. c \in Seq(M) /\ Len(c) = cut /\ \A j \in 1 .. cut : c[j] = r[j]
  <2>1. cut \in 1 .. Len(r) /\ 1 \in 1 .. Len(r) /\ 1 <= cut
      BY <1>2
  <2>2. /\ c \in Seq(M) /\ Len(c) = cut - 1 + 1
        /\ \A j \in 1 .. Len(c) : c[j] = r[1 - 1 + j]
      BY <2>1, PartSays
  <2>3. cut - 1 + 1 = cut /\ \A j \in 1 .. cut : 1 - 1 + j = j
      OBVIOUS
  <2> QED
      BY <2>2, <2>3
<1>4. t = Trim(c)
    OBVIOUS
<1> HIDE DEF c
<1>5. PICK a, z \in 1 .. Len(c) :
        /\ a <= z /\ ~White(c[a]) /\ ~White(c[z])
        /\ \A i \in 1 .. Len(c) : ~White(c[i]) => a <= i /\ i <= z
        /\ Trim(c) = SubSeq(c, a, z)
    BY <1>1, <1>3, <1>4, TrimIs
<1>6. a \in 1 .. Len(r) /\ z \in 1 .. Len(r) /\ a \in 1 .. cut /\ z \in 1 .. cut /\ Len(r) \in Nat
    BY <1>3, <1>5
<1>7. t = SubSeq(r, a, z)
  <2> DEFINE u == SubSeq(r, a, z)
             n == z - a + 1
  <2>1. t \in Seq(M) /\ Len(t) = n /\ \A j \in 1 .. n : t[j] = c[a - 1 + j]
    <3> DEFINE v == SubSeq(c, a, z)
    <3>1. v \in Seq(M) /\ Len(v) = n /\ \A j \in 1 .. Len(v) : v[j] = c[a - 1 + j]
        BY <1>3, <1>5, PartSays
    <3>2. t = v
        BY <1>4, <1>5
    <3> HIDE DEF v, n
    <3> QED
        BY <3>1, <3>2
  <2>2. u \in Seq(M) /\ Len(u) = n /\ \A j \in 1 .. n : u[j] = r[a - 1 + j]
      BY <1>5, <1>6, PartSays
  <2>3. \A j \in 1 .. n : a - 1 + j \in 1 .. cut
      BY <1>6
  <2> HIDE DEF u, n
  <2>4. \A j \in 1 .. n : t[j] = u[j]
      BY <1>3, <2>1, <2>2, <2>3
  <2>5. t = u
      BY <2>1, <2>2, <2>4, SeqEqual
  <2> QED
      BY <2>5 DEF u
<1>8. ASSUME NEW i \in 1 .. a - 1 PROVE White(r[i])
  <2>1. i \in 1 .. cut /\ ~(a <= i)
      BY <1>6
  <2> QED
      BY <1>3, <1>5, <2>1
<1> QED
    BY <1>5, <1>6, <1>7, <1>8

\* What starts no later than the first mark of the source path.
LEMMA StartsWithThePath ==
    ASSUME NEW s, IsResumeState(s), OneLine(s.sourcePath), NEW p, Places(s, p),
           NEW r, LinesOf(s, r, p, 8), NEW a \in Nat, \A i \in 1 .. a - 1 : White(r[i])
    PROVE  a <= p[1]
<1>1. FieldStands(s, r, p, 1) /\ p[1 - 1] = 0
  <2>1. FieldStands(s, r, p, 1)
      BY FieldOf
  <2> QED
      BY <2>1 DEF Places
<1>2. Field(s, 1) = s.sourcePath
    BY DEF Field
<1>3. s.sourcePath \in Seq(Marks(s))
    BY <1>2, FieldsAreTexts
<1>4. PICK i \in DOMAIN s.sourcePath : ~White(s.sourcePath[i])
    BY DEF OneLine, Trim
<1>5. i \in 1 .. Len(s.sourcePath)
    BY <1>3
<1>6. /\ p[1] \in Nat /\ Len(s.sourcePath) \in Nat /\ p[1] = Len(s.sourcePath) + 1
      /\ r[0 + i] = s.sourcePath[i]
    BY <1>1, <1>2, <1>5 DEF FieldStands
<1>7. ~White(r[i])
    BY <1>4, <1>5, <1>6
<1>8. ~(i <= a - 1)
    BY <1>5, <1>7
<1> QED
    BY <1>5, <1>6, <1>8

\* A resume file that was cut anywhere is rejected, or tells another checksum,
\* or tells the numbers it was given (load_resume_state after a kill).
THEOREM CutsSafe ==
    ASSUME NEW s, IsResumeState(s)
    PROVE  CutsAreSafe(s)
<1> DEFINE r == Render(s)
<1>1. PICK p : Places(s, p) /\ LinesOf(s, r, p, 8)
    BY RenderLayout
<1>2. r \in Seq(Marks(s)) /\ Len(r) \in Nat
    BY <1>1 DEF LinesOf
<1> HIDE DEF r
<1>3. SUFFICES ASSUME NEW cut \in 0 .. Len(r)
               PROVE  LET found == Load(SubSeq(r, 1, cut))
                      IN  \/ found.kind = "corrupted"
                          \/ found.checksum # s.checksum
                          \/ found.total = s.total /\ found.processed = s.processed
    BY DEF CutsAreSafe, r
<1> DEFINE t == Trim(SubSeq(r, 1, cut))
           found == Load(SubSeq(r, 1, cut))
<1>4. CASE LineCount(t) < 6
  <2>1. found = Corrupted
      BY <1>4 DEF Load
  <2> QED
      BY <2>1 DEF Corrupted
<1>5. CASE ~(LineCount(t) < 6)
  <2>1. LineCount(t) >= 6
    <3>1. LineCount(t) \in Int
      <4>1. SubSeq(r, 1, cut) \in Seq(Marks(s))
        <5>1. \A i \in 1 .. cut : i \in 1 .. Len(r)
            BY <1>2
        <5>2. \A i \in 1 .. cut : r[i] \in Marks(s)
            BY <1>2, <5>1
        <5> QED
            BY <5>2, SubSeqProperties
      <4>2. t = <<>> \/ t \in Seq(Marks(s))
        <5>1. CASE t # <<>>
          <6>1. PICK a, z \in 1 .. Len(SubSeq(r, 1, cut)) :
                  a <= z /\ t = SubSeq(SubSeq(r, 1, cut), a, z)
              BY <4>1, <5>1, TrimIs
          <6> QED
              BY <4>1, <6>1, PartSays
        <5> QED
            BY <5>1
      <4>3. t \in Seq(Marks(s))
          BY <4>2, EmptySeq
      <4> HIDE DEF t
      <4>4. Cardinality(Breaks(t)) \in Nat
          BY <4>3, BreaksAreNumbers, FS_CardinalityType
      <4> QED
          BY <4>4 DEF LineCount
    <3> QED
        BY <1>5, <3>1
  <2>2. found = [kind |-> "saved", total |-> ParseNumber(LineAt(t, 4)),
                 processed |-> ParseNumber(LineAt(t, 5)), checksum |-> LineAt(t, 6)]
      BY <1>5 DEF Load
  <2>3. /\ found.total = ParseNumber(LineAt(t, 4)) /\ found.checksum = LineAt(t, 6)
        /\ found.processed = ParseNumber(LineAt(t, 5))
      BY <2>2
  <2>4. PICK a, z \in 1 .. Len(r) :
          a <= z /\ t = SubSeq(r, a, z) /\ \A i \in 1 .. a - 1 : White(r[i])
      BY <1>2, <2>1, CutText
  <2> HIDE DEF t, found
  <2>5. PICK d1, d2, d3, d4, d5, e : SixLinesOf(r, a, z, t, d1, d2, d3, d4, d5, e)
      BY <1>2, <2>1, <2>4, SixLinesFound
  <2>6. a \in Nat \ {0} /\ a \in Nat /\ z \in Nat /\ z <= Len(r)
      BY <1>2
  <2>7. ASSUME d5 = p[5] PROVE found.total = s.total /\ found.processed = s.processed
      BY <1>1, <2>3, <2>5, <2>6, <2>7, NumbersRead
  <2>8. CASE OneLine(s.sourcePath) /\ OneLine(s.archivePath)
    <3>1. a <= p[1]
        BY <1>1, <2>4, <2>6, <2>8, StartsWithThePath
    <3>2. d5 = p[5]
        BY <1>1, <2>5, <2>6, <2>8, <3>1, HeadIsRead
    <3> QED
        BY <2>7, <3>2 DEF found
  <2>9. CASE \A other \in {s.sourcePath, s.archivePath, <<s.backend>>, <<Digits(s.total)>>,
                           <<Digits(s.processed)>>, s.hint, <<s.created>>} :
               ~Within(s.checksum, other)
    <3>1. CASE found.checksum = s.checksum
      <4>1. LineAt(t, 6) = s.checksum
          BY <2>3, <3>1
      <4>2. d5 = p[5]
          BY <1>1, <2>5, <2>6, <2>9, <4>1, ChecksumIsRead
      <4> QED
          BY <2>7, <4>2 DEF found
    <3> QED
        BY <3>1 DEF found
  <2> QED
      BY <2>8, <2>9 DEF IsResumeState
<1> QED
    BY <1>4, <1>5

LEMMA FiveBreaks ==
    ASSUME NEW M, NEW t \in Seq(M),
           NEW m1 \in Breaks(t), NEW m2 \in Breaks(t), NEW m3 \in Breaks(t),
           NEW m4 \in Breaks(t), NEW m5 \in Breaks(t), m1 < m2, m2 < m3, m3 < m4, m4 < m5
    PROVE  LineCount(t) >= 6
<1>1. Breaks(t) \in SUBSET Nat /\ IsFiniteSet(Breaks(t))
    BY BreaksAreNumbers
<1>2. m1 \in Nat /\ m2 \in Nat /\ m3 \in Nat /\ m4 \in Nat /\ m5 \in Nat
    BY <1>1
<1>3. ASSUME NEW S, NEW x, IsFiniteSet(S), x \notin S
      PROVE  IsFiniteSet(S \cup {x}) /\ Cardinality(S \cup {x}) = Cardinality(S) + 1
    BY <1>3, FS_AddElement
<1>4. IsFiniteSet({m1}) /\ Cardinality({m1}) = 1
    BY FS_Singleton
<1>5. IsFiniteSet({m1, m2}) /\ Cardinality({m1, m2}) = 2
  <2>1. m2 \notin {m1} /\ {m1} \cup {m2} = {m1, m2}
      BY <1>2
  <2> DEFINE S == {m1}
  <2>2. IsFiniteSet(S) /\ m2 \notin S /\ Cardinality(S) = 1
      BY <1>4, <2>1
  <2> HIDE DEF S
  <2>3. IsFiniteSet(S \cup {m2}) /\ Cardinality(S \cup {m2}) = 2
      BY <1>3, <2>2
  <2> QED
      BY <2>1, <2>3 DEF S
<1>6. IsFiniteSet({m1, m2, m3}) /\ Cardinality({m1, m2, m3}) = 3
  <2>1. m3 \notin {m1, m2} /\ {m1, m2} \cup {m3} = {m1, m2, m3}
      BY <1>2
  <2> DEFINE S == {m1, m2}
  <2>2. IsFiniteSet(S) /\ m3 \notin S /\ Cardinality(S) = 2
      BY <1>5, <2>1
  <2> HIDE DEF S
  <2>3. IsFiniteSet(S \cup {m3}) /\ Cardinality(S \cup {m3}) = 3
      BY <1>3, <2>2
  <2> QED
      BY <2>1, <2>3 DEF S
<1>7. IsFiniteSet({m1, m2, m3, m4}) /\ Cardinality({m1, m2, m3, m4}) = 4
  <2>1. m4 \notin {m1, m2, m3} /\ {m1, m2, m3} \cup {m4} = {m1, m2, m3, m4}
      BY <1>2
  <2> DEFINE S == {m1, m2, m3}
  <2>2. IsFiniteSet(S) /\ m4 \notin S /\ Cardinality(S) = 3
      BY <1>6, <2>1
  <2> HIDE DEF S
  <2>3. IsFiniteSet(S \cup {m4}) /\ Cardinality(S \cup {m4}) = 4
      BY <1>3, <2>2
  <2> QED
      BY <2>1, <2>3 DEF S
<1> DEFINE five == {m1, m2, m3, m4, m5}
<1>8. Cardinality(five) = 5
  <2>1. m5 \notin {m1, m2, m3, m4} /\ {m1, m2, m3, m4} \cup {m5} = five
      BY <1>2
  <2> DEFINE S == {m1, m2, m3, m4}
  <2>2. IsFiniteSet(S) /\ m5 \notin S /\ Cardinality(S) = 4
      BY <1>7, <2>1
  <2> HIDE DEF S
  <2>3. IsFiniteSet(S \cup {m5}) /\ Cardinality(S \cup {m5}) = 5
      BY <1>3, <2>2
  <2> QED
      BY <2>1, <2>3 DEF S
<1>9. five \in SUBSET Breaks(t)
    OBVIOUS
<1> HIDE DEF five
<1>10. 5 <= Cardinality(Breaks(t)) /\ Cardinality(Breaks(t)) \in Nat
    BY <1>1, <1>8, <1>9, FS_Subset, FS_CardinalityType
<1> QED
    BY <1>10 DEF LineCount

\* trim leaves a whole resume file without its last line break.
LEMMA WholeText ==
    ASSUME NEW s, IsResumeState(s), NEW p, Places(s, p),
           NEW r, LinesOf(s, r, p, 8)
    PROVE  /\ p[7] \in Nat /\ p[8] = p[7] + 2 /\ Len(r) = p[8]
           /\ \E a \in 1 .. Len(r) :
                /\ a <= p[7] + 1 /\ Trim(r) = SubSeq(r, a, p[7] + 1)
                /\ \A i \in 1 .. a - 1 : White(r[i])
<1>1. FieldStands(s, r, p, 8) /\ 8 - 1 = 7
    BY FieldOf
<1>2. Field(s, 8) = <<s.created>>
    BY DEF Field
<1>3. Len(Field(s, 8)) = 1 /\ Field(s, 8)[1] = s.created
    BY <1>2
<1>4. /\ p[7] \in Nat /\ p[8] = p[7] + 1 + 1 /\ r[p[7] + 1] = s.created /\ r[p[8]] = Break
      /\ Len(r) = p[8] /\ r \in Seq(Marks(s))
  <2>1. Len(r) = p[8] /\ r \in Seq(Marks(s))
      BY DEF LinesOf
  <2>2. /\ p[8 - 1] \in Nat /\ p[8] = p[8 - 1] + 1 + 1 /\ r[p[8]] = Break
        /\ \A i \in 1 .. 1 : r[p[8 - 1] + i] = Field(s, 8)[i]
      BY <1>1, <1>3 DEF FieldStands
  <2> QED
      BY <1>1, <1>3, <2>1, <2>2
<1> DEFINE x == p[7]
           w == Len(r)
<1>5. x \in Nat /\ w = x + 2 /\ ~White(r[x + 1]) /\ White(r[x + 2])
  <2>1. p[8] = x + 2 /\ x + 2 = w
      BY <1>4
  <2> QED
      BY <1>4, <2>1 DEF IsResumeState, White
<1> HIDE DEF x, w
<1>6. x + 1 \in 1 .. w /\ x + 1 \in DOMAIN r
    BY <1>4, <1>5 DEF w
<1>7. Trim(r) # <<>>
  <2> DEFINE ink == {i \in DOMAIN r : ~White(r[i])}
  <2>1. ink # {} /\ ink \in SUBSET Nat
    <3>1. x + 1 \in ink
        BY <1>5, <1>6
    <3>2. DOMAIN r = 1 .. w
        BY <1>4 DEF w
    <3>3. ink \in SUBSET Nat
        BY <3>2
    <3> HIDE DEF ink
    <3> QED
        BY <3>1, <3>3
  <2> DEFINE a == CHOOSE i \in ink : \A j \in ink : i <= j
             z == CHOOSE i \in ink : \A j \in ink : j <= i
  <2>2. Trim(r) = SubSeq(r, a, z)
      BY <2>1 DEF Trim
  <2>3. \A i \in ink : i \in 1 .. w
      BY <1>4 DEF w
  <2> HIDE DEF ink
  <2>4. \E i \in ink : \A j \in ink : i <= j
      BY <2>1, LeastNat
  <2>5. \E i \in ink : \A j \in ink : j <= i
    <3>1. ink \in SUBSET (1 .. w) /\ w \in Nat
        BY <1>5, <2>3
    <3> QED
        BY <2>1, <3>1, GreatestNat
  <2>6. a \in ink /\ \A j \in ink : a <= j
      BY <2>4
  <2>7. z \in ink
      BY <2>5
  <2> HIDE DEF a, z
  <2>8. a \in 1 .. Len(r) /\ z \in 1 .. Len(r) /\ a <= z
      BY <2>3, <2>6, <2>7 DEF w
  <2>9. Len(SubSeq(r, a, z)) = z - a + 1
      BY <1>4, <2>8, PartSays
  <2>10. Len(<<>>) = 0
      OBVIOUS
  <2> QED
      BY <2>2, <2>8, <2>9, <2>10
<1>8. PICK a, z \in 1 .. Len(r) :
        /\ a <= z /\ ~White(r[a]) /\ ~White(r[z])
        /\ \A i \in 1 .. Len(r) : ~White(r[i]) => a <= i /\ i <= z
        /\ Trim(r) = SubSeq(r, a, z)
    BY <1>4, <1>7, TrimIs
<1>9. z = x + 1
  <2>1. x + 1 <= z /\ z \in 1 .. x + 2 /\ z # x + 2
      BY <1>5, <1>6, <1>8 DEF w
  <2> QED
      BY <1>5, <2>1
<1>10. ASSUME NEW i \in 1 .. a - 1 PROVE White(r[i])
  <2>1. i \in 1 .. Len(r) /\ ~(a <= i)
      BY <1>5 DEF w
  <2> QED
      BY <1>8, <2>1
<1>11. a <= p[7] + 1 /\ Trim(r) = SubSeq(r, a, p[7] + 1)
    BY <1>8, <1>9 DEF x
<1>12. p[8] = p[7] + 2
    BY <1>4
<1> QED
    BY <1>4, <1>8, <1>10, <1>11, <1>12

\* A resume file that was written to its end is read as it was saved
\* (save_resume_state, then load_resume_state).
THEOREM ReadsBack ==
    ASSUME NEW s, IsResumeState(s)
    PROVE  RoundTrip(s)
<1> SUFFICES ASSUME OneLine(s.sourcePath), OneLine(s.archivePath)
             PROVE  Load(Render(s)) =
                      [kind |-> "saved", total |-> s.total, processed |-> s.processed,
                       checksum |-> s.checksum]
    BY DEF RoundTrip
<1> DEFINE r == Render(s)
<1>1. PICK p : Places(s, p) /\ LinesOf(s, r, p, 8)
    BY RenderLayout
<1>2. r \in Seq(Marks(s)) /\ Len(r) \in Nat
    BY <1>1 DEF LinesOf
<1> HIDE DEF r
<1> DEFINE t == Trim(r)
           z == p[7] + 1
<1>3. p[7] \in Nat /\ p[8] = p[7] + 2 /\ Len(r) = p[8]
    BY <1>1, WholeText
<1>4. PICK a \in 1 .. Len(r) : a <= z /\ t = SubSeq(r, a, z) /\ \A i \in 1 .. a - 1 : White(r[i])
    BY <1>1, WholeText
<1>5. a \in Nat \ {0} /\ a \in Nat /\ z \in Nat /\ z \in 1 .. Len(r) /\ a <= p[1]
  <2>1. a \in Nat /\ z \in 1 .. Len(r) /\ z \in Nat
      BY <1>3
  <2>2. a <= p[1]
      BY <1>1, <1>4, <2>1, StartsWithThePath
  <2> QED
      BY <2>1, <2>2
<1> HIDE DEF t
<1>6. /\ t \in Seq(Marks(s)) /\ Len(t) = z - a + 1
      /\ \A j \in 1 .. Len(t) : t[j] = r[a - 1 + j]
    BY <1>2, <1>4, <1>5, PartSays
<1>7. ASSUME NEW k \in 1 .. 6
      PROVE  p[k] \in Nat /\ r[p[k]] = Break /\ p[k - 1] < p[k]
  <2>1. k \in 1 .. 8
      OBVIOUS
  <2>2. FieldStands(s, r, p, k)
      BY <1>1, <2>1, FieldOf
  <2> QED
      BY <2>2 DEF FieldStands
<1> DEFINE x1 == p[1]
           x2 == p[2]
           x3 == p[3]
           x4 == p[4]
           x5 == p[5]
           x6 == p[6]
<1>8. /\ x1 \in Nat /\ x2 \in Nat /\ x3 \in Nat /\ x4 \in Nat /\ x5 \in Nat /\ x6 \in Nat
      /\ x1 < x2 /\ x2 < x3 /\ x3 < x4 /\ x4 < x5 /\ x5 < x6 /\ x6 < z /\ a <= x1
      /\ r[x1] = Break /\ r[x2] = Break /\ r[x3] = Break /\ r[x4] = Break /\ r[x5] = Break
      /\ r[x6] = Break
  <2>1. /\ p[2 - 1] < p[2] /\ p[3 - 1] < p[3] /\ p[4 - 1] < p[4] /\ p[5 - 1] < p[5]
        /\ p[6 - 1] < p[6]
      BY <1>7
  <2>2. p[1] < p[2] /\ p[2] < p[3] /\ p[3] < p[4] /\ p[4] < p[5] /\ p[5] < p[6]
      BY <2>1
  <2>3. p[6] < z
    <3>1. FieldStands(s, r, p, 7) /\ 7 - 1 = 6
        BY <1>1, FieldOf
    <3> QED
        BY <3>1 DEF FieldStands
  <2> QED
      BY <1>5, <1>7, <2>2, <2>3
<1>9. ASSUME NEW b \in Nat \ {0}, r[b] = Break, b <= x6
      PROVE  b \in {x1, x2, x3, x4, x5, x6}
  <2>1. 6 \in 1 .. 6
      OBVIOUS
  <2>2. PICK k \in 1 .. 6 : b = p[k]
      BY <1>1, <1>9, <2>1, HeadBreaks
  <2> QED
      BY <2>2
<1> HIDE DEF x1, x2, x3, x4, x5, x6, z
<1>10. LineCount(t) >= 6
  <2> DEFINE at(x) == x - a + 1
             n == Len(t)
  <2>1. ASSUME NEW x \in Nat, a <= x, x <= z, r[x] = Break PROVE at(x) \in Breaks(t)
    <3>1. at(x) \in 1 .. n /\ a - 1 + at(x) = x
        BY <1>5, <1>6, <2>1
    <3> HIDE DEF at, n
    <3>2. t[at(x)] = Break
        BY <1>6, <2>1, <3>1 DEF n
    <3> QED
        BY <1>6, <3>1, <3>2 DEF Breaks, n
  <2>2. /\ at(x1) < at(x2) /\ at(x2) < at(x3) /\ at(x3) < at(x4) /\ at(x4) < at(x5)
      BY <1>5, <1>8
  <2> HIDE DEF at
  <2>3. /\ at(x1) \in Breaks(t) /\ at(x2) \in Breaks(t) /\ at(x3) \in Breaks(t)
        /\ at(x4) \in Breaks(t) /\ at(x5) \in Breaks(t)
      BY <1>5, <1>8, <2>1
  <2> QED
      BY <1>6, <2>2, <2>3, FiveBreaks
<1>11. PICK d1, d2, d3, d4, d5, e : SixLinesOf(r, a, z, t, d1, d2, d3, d4, d5, e)
    BY <1>2, <1>4, <1>5, <1>10, SixLinesFound
<1>12. LineAt(t, 6) \in Seq(Marks(s))
    BY <1>2, <1>4, <1>5, <1>10, SixLinesFound
<1>13. d5 = p[5]
    BY <1>1, <1>5, <1>11, HeadIsRead
<1>14. ParseNumber(LineAt(t, 4)) = s.total /\ ParseNumber(LineAt(t, 5)) = s.processed
    BY <1>1, <1>5, <1>11, <1>13, NumbersRead
<1>15. e = x6
  <2>1. /\ d1 \in Nat /\ d2 \in Nat /\ d3 \in Nat /\ d4 \in Nat /\ d5 \in Nat /\ e \in Nat
        /\ d1 < d2 /\ d2 < d3 /\ d3 < d4 /\ d4 < d5 /\ d5 < e /\ e <= z + 1
        /\ (e = z + 1 \/ r[e] = Break)
        /\ \A b \in a .. z : r[b] = Break => b \in {d1, d2, d3, d4, d5} \/ e <= b
      BY <1>11 DEF SixLinesOf
  <2>2. d5 = x5
      BY <1>13 DEF x5
  <2>3. e <= x6
    <3>1. x6 \in a .. z
        BY <1>5, <1>8
    <3>2. x6 \in {d1, d2, d3, d4, d5} \/ e <= x6
        BY <1>8, <2>1, <3>1
    <3> QED
        BY <1>8, <2>1, <2>2, <3>2
  <2>4. e \in {x1, x2, x3, x4, x5, x6}
      BY <1>5, <1>8, <1>9, <2>1, <2>3
  <2> QED
      BY <1>8, <2>1, <2>2, <2>4
<1>16. LineAt(t, 6) = s.checksum
  <2>1. Says(LineAt(t, 6), r, d5, e)
      BY <1>11 DEF SixLinesOf
  <2>2. FieldStands(s, r, p, 6) /\ Field(s, 6) = s.checksum /\ 6 - 1 = 5
      BY <1>1, FieldOf DEF Field
  <2>3. s.checksum \in Seq(Marks(s))
      BY <2>2, FieldsAreTexts
  <2>4. /\ Len(s.checksum) \in Nat /\ x6 = x5 + Len(s.checksum) + 1 /\ d5 = x5
        /\ \A i \in 1 .. Len(s.checksum) : r[x5 + i] = s.checksum[i]
      BY <1>13, <2>2 DEF FieldStands, x5, x6
  <2>5. Len(LineAt(t, 6)) = Len(s.checksum)
      BY <1>8, <1>15, <2>1, <2>4 DEF Says
  <2>6. \A i \in 1 .. Len(s.checksum) : LineAt(t, 6)[i] = s.checksum[i]
      BY <2>1, <2>4, <2>5 DEF Says
  <2> QED
      BY <1>12, <2>3, <2>5, <2>6, SeqEqual
<1>17. ~(LineCount(t) < 6)
  <2>1. LineCount(t) \in Int
    <3>1. Cardinality(Breaks(t)) \in Nat
        BY <1>6, BreaksAreNumbers, FS_CardinalityType
    <3> QED
        BY <3>1 DEF LineCount
  <2> QED
      BY <1>10, <2>1
<1>18. Load(r) = [kind |-> "saved", total |-> ParseNumber(LineAt(t, 4)),
                  processed |-> ParseNumber(LineAt(t, 5)), checksum |-> LineAt(t, 6)]
    BY <1>17 DEF Load, t
<1> QED
    BY <1>14, <1>16, <1>18 DEF r
=============================================================================
