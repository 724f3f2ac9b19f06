----------------------------- MODULE StateFile ------------------------------
(***************************************************************************)
(* The text of a resume file: save_resume_state prints eight lines,        *)
(* load_resume_state splits what it finds (core/src/resume.rs).  A text is *)
(* a sequence of marks; a line break is one of them, a number is one mark. *)
(* A cut text is what a kill leaves of the file.                           *)
(***************************************************************************)
EXTENDS Integers, Sequences, FiniteSets

Break == [mark |-> "break"]
Blank == [mark |-> "blank"]
Digits(n) == [mark |-> "number", n |-> n]
Word(w) == [mark |-> "word", w |-> w]

Line(marks) == Append(marks, Break)

\* Mutant: the checksum comes before the two numbers.
ChecksumFirst(s) ==
    Line(s.sourcePath) \o Line(s.archivePath) \o Line(<<s.backend>>)
        \o Line(s.checksum) \o Line(<<Digits(s.total)>>) \o Line(<<Digits(s.processed)>>)
        \o Line(s.hint) \o Line(<<s.created>>)

Render(s) ==
    Line(s.sourcePath) \o Line(s.archivePath) \o Line(<<s.backend>>)
        \o Line(<<Digits(s.total)>>) \o Line(<<Digits(s.processed)>>) \o Line(s.checksum)
        \o Line(s.hint) \o Line(<<s.created>>)

White(m) == m \in {Break, Blank}

\* str::trim: from the first mark that is not white to the last.
Trim(t) ==
    LET ink == {i \in DOMAIN t : ~White(t[i])}
    IN  IF ink = {} THEN <<>>
        ELSE SubSeq(t, CHOOSE i \in ink : \A j \in ink : i <= j,
                       CHOOSE i \in ink : \A j \in ink : j <= i)

\* split('\n'): the k-th line stands between the breaks before and after it.
Breaks(t) == {i \in DOMAIN t : t[i] = Break}
LineCount(t) == Cardinality(Breaks(t)) + 1
LineEnd(t, k) ==
    CHOOSE i \in Breaks(t) \cup {0, Len(t) + 1} :
        Cardinality({j \in Breaks(t) \cup {0} : j < i}) = k
LineAt(t, k) == SubSeq(t, LineEnd(t, k - 1) + 1, LineEnd(t, k) - 1)

\* parse().unwrap_or(0)
ParseNumber(l) == IF Len(l) = 1 /\ l[1].mark = "number" THEN l[1].n ELSE 0

Corrupted == [kind |-> "corrupted"]

Load(text) ==
    LET t == Trim(text)
    IN  IF LineCount(t) < 6 THEN Corrupted
        ELSE [kind |-> "saved", total |-> ParseNumber(LineAt(t, 4)),
              processed |-> ParseNumber(LineAt(t, 5)), checksum |-> LineAt(t, 6)]

-----------------------------------------------------------------------------

\* What save_resume_state is given.  The checksum and the backend hold no blank;
\* the time does ("SystemTime { .. }"), but it is a text on one line that begins
\* and ends with ink, and one mark stands for it.
\* Paths may hold anything; but where one spreads over several lines or is blank,
\* no line but the checksum's spells out the checksum (64 hexadecimal digits).
IsText(marks) == marks \in Seq({marks[i] : i \in DOMAIN marks})
Within(part, marks) ==
    \E skipped \in 0 .. Len(marks) - Len(part) :
        \A i \in DOMAIN part : marks[skipped + i] = part[i]
OneLine(marks) == Breaks(marks) = {} /\ Trim(marks) # <<>>

IsResumeState(s) ==
    /\ IsText(s.sourcePath) /\ IsText(s.archivePath) /\ IsText(s.checksum) /\ IsText(s.hint)
    /\ ~White(s.backend) /\ ~White(s.created)
    /\ s.checksum # <<>> /\ \A i \in DOMAIN s.checksum : ~White(s.checksum[i])
    /\ \/ OneLine(s.sourcePath) /\ OneLine(s.archivePath)
       \/ \A other \in {s.sourcePath, s.archivePath, <<s.backend>>, <<Digits(s.total)>>,
                        <<Digits(s.processed)>>, s.hint, <<s.created>>} :
            ~Within(s.checksum, other)

\* What is left of a resume file that was cut anywhere is rejected as corrupted
\* or as a changed source, or it says what the whole file says; and a path with
\* a line break in it, or of blanks alone, makes it unusable, never wrong.
CutsAreSafe(s) ==
    \A cut \in 0 .. Len(Render(s)) :
        LET found == Load(SubSeq(Render(s), 1, cut))
        IN  \/ found.kind = "corrupted"
            \/ found.checksum # s.checksum
            \/ found.total = s.total /\ found.processed = s.processed

\* A resume file that was written to its end is read as it was saved.
RoundTrip(s) ==
    OneLine(s.sourcePath) /\ OneLine(s.archivePath) =>
        Load(Render(s)) =
            [kind |-> "saved", total |-> s.total, processed |-> s.processed,
             checksum |-> s.checksum]
=============================================================================
