-------------------------- MODULE SevenZPipeProofs --------------------------
(***************************************************************************)
(* Proofs about SevenZPipe: the safety of the two pipes between ramz and   *)
(* its 7z child, for pipes of every size and children of any talkativeness.*)
(***************************************************************************)
EXTENDS SevenZPipe, TLAPS

\* The parent leaves its first loop, and so closes the pipe, only when the child
\* is over or has written what is not UTF-8.
ReaderStays == parent # "read stdout" => garbled \/ HasExited

\* A write that has begun is within the child's allowance.
RoomToSpeak ==
    /\ child.at = "stdout" => outs < MaxOut
    /\ child.at = "stderr" => Len(said) < MaxErr

Typed == TypeOK /\ RoomToSpeak

\* The exit status is the child's word that the archive is made.
StatusIsTrue == HasExited /\ child.code = "success" => archived

\* The result is the status.
ResultIsStatus == result = "ok" => HasExited /\ child.code = "success"

\* What was said is what has been read, and then what is in the pipe; what has
\* been read is reported.  The pipe is empty when its loop is over, and nothing
\* is said any more.
ReadSoFar(n) ==
    /\ Len(errPipe) = Len(said) - n
    /\ \A i \in 1 .. Len(errPipe) : errPipe[i] = said[n + i]
    /\ Reports(kept, said, n)
Faithful ==
    ~garbled =>
        /\ \E n \in 0 .. Len(said) : ReadSoFar(n)
        /\ parent \in {"wait", "returned"} => errPipe = <<>>

\* No message is read before the progress has ended.
Unread == parent = "read stdout" => errPipe = said

\* The result is given last.
ResultIsLast == result # "none" => parent = "returned"

IInv ==
    /\ Typed
    /\ ReaderStays
    /\ StatusIsTrue
    /\ ResultIsStatus
    /\ ResultIsLast
    /\ Faithful
    /\ Unread
    /\ ChildOutlivesPipes

-----------------------------------------------------------------------------

\* A queue that loses its head is shorter by one, and the rest moves up.
LEMMA RestOfPipe ==
    ASSUME NEW S, NEW s \in Seq(S), s # <<>>
    PROVE  /\ Len(s) \in Nat \ {0} /\ Len(Tail(s)) = Len(s) - 1
           /\ \A i \in 1 .. Len(Tail(s)) : i + 1 \in 1 .. Len(s) /\ Tail(s)[i] = s[i + 1]
    OBVIOUS

\* A queue loses its head and nothing else.
LEMMA TailOfPipe ==
    ASSUME NEW S, NEW s \in Seq(S), s # <<>>, NEW cap \in Nat, Len(s) <= cap
    PROVE  /\ Head(s) \in S
           /\ Tail(s) \in Seq(S)
           /\ Len(Tail(s)) <= cap
    OBVIOUS

\* What the child is doing is told by its field "at".
LEMMA Shapes ==
    /\ Working \in Children /\ Working.at = "working"
    /\ \A l \in OutLines : Writing("stdout", l) \in Children
    /\ \A l \in ErrLines : Writing("stderr", l) \in Children
    /\ \A p, l : Writing(p, l).at = p
    /\ \A c \in {"success", "failure", "broken pipe"} : Exited(c) \in Children
    /\ \A c : Exited(c).at = "exited" /\ Exited(c).code = c
    BY DEF Working, Writing, Exited, Children

LEMMA AppendIsSeq ==
    ASSUME NEW S, NEW s \in Seq(S), NEW e \in S
    PROVE  Append(s, e) \in Seq(S)
    OBVIOUS

LEMMA CountUp ==
    ASSUME NEW max \in Nat, NEW n \in 0 .. max
    PROVE  n < max => n + 1 \in 0 .. max
    OBVIOUS

LEMMA AddToPipe ==
    ASSUME NEW S, NEW s \in Seq(S), NEW e \in S, NEW cap \in Nat, Len(s) < cap
    PROVE  Append(s, e) \in Seq(S) /\ Len(Append(s, e)) <= cap
    OBVIOUS

\* A line that is written is one of the lines of its pipe.
LEMMA LineOf ==
    ASSUME child \in Children
    PROVE  /\ child.at = "stdout" => child.line \in OutLines
           /\ child.at = "stderr" => child.line \in ErrLines
<1>1. CASE child = Working
    BY <1>1 DEF Working
<1>2. CASE child \in [at : {"stdout"}, line : OutLines]
    BY <1>2
<1>3. CASE child \in [at : {"stderr"}, line : ErrLines]
    BY <1>3
<1>4. CASE child \in [at : {"exited"}, code : {"success", "failure", "broken pipe"}]
    BY <1>4
<1> QED
    BY <1>1, <1>2, <1>3, <1>4 DEF Children

LEMMA EmptyPipe ==
    ASSUME NEW S, NEW n \in Nat
    PROVE  <<>> \in Seq(S) /\ Len(<<>>) <= n
    OBVIOUS

\* The capacities are numbers.
LEMMA Capacities ==
    ASSUME PipeAssumption
    PROVE  OutCap \in Nat /\ ErrCap \in Nat /\ MaxOut \in Nat /\ MaxErr \in Nat
    BY DEF PipeAssumption

-----------------------------------------------------------------------------
(***************************************************************************)
(* Types.                                                                  *)
(***************************************************************************)
LEMMA InitType == PipeAssumption /\ Init => Typed
<1> SUFFICES ASSUME PipeAssumption, Init PROVE Typed
    OBVIOUS
<1>1. child \in Children
    BY Shapes DEF Init
<1>2. outPipe \in Seq(OutLines) /\ Len(outPipe) <= OutCap
    BY EmptyPipe, Capacities DEF Init
<1>3. errPipe \in Seq(ErrLines) /\ Len(errPipe) <= ErrCap
    BY EmptyPipe, Capacities DEF Init
<1>4. said \in Seq(ErrLines) /\ Len(said) <= MaxErr /\ kept \in Seq({"message"})
    BY EmptyPipe, Capacities DEF Init
<1>5. RoomToSpeak
    BY Shapes DEF Init, RoomToSpeak
<1>6. outs \in 0 .. MaxOut
  <2>1. outs = 0 /\ MaxOut \in Nat
      BY Capacities DEF Init
  <2> QED
      BY <2>1
<1> QED
    BY <1>1, <1>2, <1>3, <1>4, <1>5, <1>6 DEF Init, Typed, TypeOK

LEMMA ChildType == PipeAssumption /\ Typed /\ Child => Typed'
<1> SUFFICES ASSUME PipeAssumption, Typed, Child PROVE Typed'
    OBVIOUS
<1> USE DEF Typed, RoomToSpeak, TypeOK, parentVars
<1>1. CASE MakeArchive
    BY <1>1 DEF MakeArchive
<1>2. CASE BeginWrite
  <2>1. child' \in Children
      BY <1>2, Shapes DEF BeginWrite
  <2>2. RoomToSpeak'
    <3>1. CASE outs < MaxOut /\ child'.at = "stdout"
        BY <1>2, <3>1 DEF BeginWrite
    <3>2. CASE Len(said) < MaxErr /\ child'.at = "stderr"
        BY <1>2, <3>2 DEF BeginWrite
    <3> QED
        BY <1>2, <3>1, <3>2, Shapes DEF BeginWrite
  <2> QED
      BY <1>2, <2>1, <2>2 DEF BeginWrite
<1>3. CASE WriteOut
  <2>1. outPipe' \in Seq(OutLines) /\ Len(outPipe') <= OutCap
    <3>1. child.line \in OutLines /\ Len(outPipe) < OutCap
        BY <1>3, LineOf DEF WriteOut
    <3> QED
        BY <1>3, <3>1, AddToPipe, Capacities DEF WriteOut
  <2>2. child' \in Children
      BY <1>3, Shapes DEF WriteOut
  <2>3. outs' \in 0 .. MaxOut
    <3>1. outs \in 0 .. MaxOut /\ outs < MaxOut
        BY <1>3 DEF WriteOut
    <3> QED
        BY <1>3, <3>1, CountUp, Capacities DEF WriteOut
  <2>4. RoomToSpeak'
      BY <1>3, Shapes DEF WriteOut
  <2> QED
      BY <1>3, <2>1, <2>2, <2>3, <2>4 DEF WriteOut
<1>4. CASE WriteErr
  <2>1. errPipe' \in Seq(ErrLines) /\ Len(errPipe') <= ErrCap
    <3>1. child.line \in ErrLines /\ Len(errPipe) < ErrCap
        BY <1>4, LineOf DEF WriteErr
    <3> QED
        BY <1>4, <3>1, AddToPipe, Capacities DEF WriteErr
  <2>2. said' \in Seq(ErrLines) /\ Len(said') <= MaxErr
    <3>1. child.line \in ErrLines /\ Len(said) < MaxErr
        BY <1>4, LineOf DEF WriteErr
    <3> QED
        BY <1>4, <3>1, AddToPipe, Capacities DEF WriteErr
  <2>3. child' \in Children
      BY <1>4, Shapes DEF WriteErr
  <2>4. RoomToSpeak'
      BY <1>4, Shapes DEF WriteErr
  <2> QED
      BY <1>4, <2>1, <2>2, <2>3, <2>4 DEF WriteErr
<1>5. CASE BrokenPipe
  <2>1. child' \in Children
      BY <1>5, Shapes DEF BrokenPipe
  <2>2. RoomToSpeak'
      BY <1>5, Shapes DEF BrokenPipe
  <2> QED
      BY <1>5, <2>1, <2>2 DEF BrokenPipe
<1>6. CASE Exit
  <2>1. child' \in Children
      BY <1>6, Shapes DEF Exit
  <2>2. RoomToSpeak'
      BY <1>6, Shapes DEF Exit
  <2> QED
      BY <1>6, <2>1, <2>2 DEF Exit
<1> QED
    BY <1>1, <1>2, <1>3, <1>4, <1>5, <1>6 DEF Child

LEMMA ParentType == PipeAssumption /\ Typed /\ Parent => Typed'
<1> SUFFICES ASSUME PipeAssumption, Typed, Parent PROVE Typed'
    OBVIOUS
<1> USE DEF Typed, RoomToSpeak, TypeOK, childVars
<1>1. CASE ReadOut
  <2>1. outPipe' \in Seq(OutLines) /\ Len(outPipe') <= OutCap
      BY <1>1, TailOfPipe, EmptyPipe, Capacities DEF ReadOut
  <2> QED
      BY <1>1, <2>1 DEF ReadOut
<1>2. CASE EndOfOut
    BY <1>2 DEF EndOfOut
<1>3. CASE ReadErr
  <2>1. errPipe' \in Seq(ErrLines) /\ Len(errPipe') <= ErrCap
      BY <1>3, TailOfPipe, EmptyPipe, Capacities DEF ReadErr
  <2>2. Head(errPipe) \in ErrLines
      BY <1>3, TailOfPipe, Capacities DEF ReadErr
  <2>3. kept' \in Seq({"message"})
    <3>1. CASE Head(errPipe) = "message"
      <4>1. Append(kept, "message") \in Seq({"message"})
        <5>1. kept \in Seq({"message"}) /\ "message" \in {"message"}
            OBVIOUS
        <5> HIDE DEF TypeOK
        <5> QED
            BY <5>1, AppendIsSeq
      <4> QED
          BY <1>3, <3>1, <4>1 DEF ReadErr, Keep
    <3>2. CASE Head(errPipe) # "message"
        BY <1>3, <2>2, <3>2 DEF ReadErr, Keep, ErrLines
    <3> QED
        BY <3>1, <3>2
  <2> QED
      BY <1>3, <2>1, <2>3 DEF ReadErr
<1>4. CASE EndOfErr
    BY <1>4 DEF EndOfErr
<1>5. CASE Wait
    BY <1>5 DEF Wait
<1> QED
    BY <1>1, <1>2, <1>3, <1>4, <1>5 DEF Parent

LEMMA NextType == PipeAssumption /\ Typed /\ [Next]_vars => Typed'
<1>1. Typed /\ UNCHANGED vars => Typed'
    BY DEF Typed, RoomToSpeak, TypeOK, vars, childVars, parentVars
<1> QED
    BY <1>1, ChildType, ParentType DEF Next

-----------------------------------------------------------------------------
(***************************************************************************)
(* What is reported.                                                       *)
(***************************************************************************)
\* Nothing is reported of nothing.
LEMMA ReportOfNothing ==
    ASSUME NEW text
    PROVE  Reports(<<>>, text, 0)
<1> DEFINE place == [i \in DOMAIN <<>> |-> 0]
<1>1. place \in [DOMAIN <<>> -> 1 .. 0]
    OBVIOUS
<1>2. \A i \in DOMAIN <<>> : FALSE
    OBVIOUS
<1>3. \A n \in 1 .. 0 : FALSE
    OBVIOUS
<1> QED
    BY <1>1, <1>2, <1>3 DEF Reports

\* A report looks no further than it says.
LEMMA ReportStays ==
    ASSUME NEW S, NEW text \in Seq(S), NEW e \in S, NEW upto \in 0 .. Len(text), NEW lines,
           Reports(lines, text, upto)
    PROVE  Reports(lines, Append(text, e), upto)
<1>1. \A n \in 1 .. upto : Append(text, e)[n] = text[n]
    OBVIOUS
<1>2. PICK place \in [DOMAIN lines -> 1 .. upto] :
          /\ \A i, j \in DOMAIN lines : i < j => place[i] < place[j]
          /\ \A i \in DOMAIN lines : lines[i] = text[place[i]]
          /\ \A n \in 1 .. upto : Meant(text[n]) <=> \E i \in DOMAIN lines : place[i] = n
    BY DEF Reports
<1>3. \A i \in DOMAIN lines : lines[i] = Append(text, e)[place[i]]
    BY <1>1, <1>2
<1>4. \A n \in 1 .. upto : Meant(Append(text, e)[n]) <=> \E i \in DOMAIN lines : place[i] = n
    BY <1>1, <1>2
<1> QED
    BY <1>2, <1>3, <1>4 DEF Reports

\* A blank line that is read adds nothing.
LEMMA ReportSkips ==
    ASSUME NEW text, NEW upto \in Nat, NEW lines, Reports(lines, text, upto),
           ~Meant(text[upto + 1])
    PROVE  Reports(lines, text, upto + 1)
<1>1. PICK place \in [DOMAIN lines -> 1 .. upto] :
          /\ \A i, j \in DOMAIN lines : i < j => place[i] < place[j]
          /\ \A i \in DOMAIN lines : lines[i] = text[place[i]]
          /\ \A n \in 1 .. upto : Meant(text[n]) <=> \E i \in DOMAIN lines : place[i] = n
    BY DEF Reports
<1>2. place \in [DOMAIN lines -> 1 .. upto + 1]
    BY <1>1
<1>3. ASSUME NEW n \in 1 .. upto + 1
      PROVE  Meant(text[n]) <=> \E i \in DOMAIN lines : place[i] = n
  <2>1. CASE n = upto + 1
    <3>1. \A i \in DOMAIN lines : place[i] # n
        BY <1>1, <2>1
    <3> QED
        BY <2>1, <3>1
  <2>2. CASE n \in 1 .. upto
      BY <1>1, <2>2
  <2> QED
      BY <2>1, <2>2
<1> QED
    BY <1>1, <1>2, <1>3 DEF Reports

\* A line that is meant is added at its place.
LEMMA ReportAdds ==
    ASSUME NEW S, NEW lines \in Seq(S), NEW text, NEW upto \in Nat,
           Reports(lines, text, upto), text[upto + 1] \in S, Meant(text[upto + 1])
    PROVE  Reports(Append(lines, text[upto + 1]), text, upto + 1)
<1>1. PICK place \in [DOMAIN lines -> 1 .. upto] :
          /\ \A i, j \in DOMAIN lines : i < j => place[i] < place[j]
          /\ \A i \in DOMAIN lines : lines[i] = text[place[i]]
          /\ \A n \in 1 .. upto : Meant(text[n]) <=> \E i \in DOMAIN lines : place[i] = n
    BY DEF Reports
<1> DEFINE more == Append(lines, text[upto + 1])
           last == Len(lines) + 1
           where == [i \in DOMAIN more |-> IF i = last THEN upto + 1 ELSE place[i]]
<1>2. /\ DOMAIN lines = 1 .. Len(lines) /\ DOMAIN more = 1 .. last /\ last \in DOMAIN more
      /\ \A i \in DOMAIN lines : more[i] = lines[i] /\ i \in DOMAIN more /\ i # last
      /\ \A i \in DOMAIN more : i = last \/ i \in DOMAIN lines
      /\ more[last] = text[upto + 1]
    OBVIOUS
<1>3. /\ \A i \in DOMAIN lines : where[i] = place[i] /\ place[i] \in 1 .. upto
      /\ where[last] = upto + 1
    BY <1>1, <1>2
<1>4. where \in [DOMAIN more -> 1 .. upto + 1]
  <2>1. \A i \in DOMAIN more : where[i] \in 1 .. upto + 1
      BY <1>2, <1>3
  <2> QED
      BY <2>1
<1> HIDE DEF where
<1>5. ASSUME NEW i \in DOMAIN more, NEW j \in DOMAIN more, i < j
      PROVE  where[i] < where[j]
  <2>1. i \in DOMAIN lines
      BY <1>2, <1>5
  <2>2. CASE j \in DOMAIN lines
      BY <1>1, <1>3, <1>5, <2>1, <2>2
  <2>3. CASE j = last
      BY <1>3, <2>1, <2>3
  <2> QED
      BY <1>2, <2>2, <2>3
<1>6. \A i \in DOMAIN more : more[i] = text[where[i]]
    BY <1>1, <1>2, <1>3
<1>7. ASSUME NEW n \in 1 .. upto + 1
      PROVE  Meant(text[n]) <=> \E i \in DOMAIN more : where[i] = n
  <2>1. CASE n = upto + 1
      BY <1>2, <1>3, <2>1
  <2>2. CASE n \in 1 .. upto
    <3>1. (\E i \in DOMAIN more : where[i] = n) <=> (\E i \in DOMAIN lines : place[i] = n)
        BY <1>2, <1>3, <2>2
    <3> QED
        BY <1>1, <2>2, <3>1
  <2> QED
      BY <2>1, <2>2
<1> QED
    BY <1>4, <1>5, <1>6, <1>7 DEF Reports

LEMMA InitFaithful == Init => Faithful
<1> SUFFICES ASSUME Init PROVE Faithful
    OBVIOUS
<1>1. said = <<>> /\ errPipe = <<>> /\ kept = <<>>
    BY DEF Init
<1>2. Len(said) = 0 /\ Len(errPipe) = 0
    BY <1>1
<1>3. ReadSoFar(0)
    BY <1>1, <1>2, ReportOfNothing DEF ReadSoFar
<1> QED
    BY <1>1, <1>2, <1>3 DEF Faithful

\* What the child does: a line that it says is at the end of both, and it says
\* nothing to a pipe that is closed.
LEMMA ChildFaithful == PipeAssumption /\ Typed /\ Faithful /\ Child => Faithful'
<1> SUFFICES ASSUME PipeAssumption, Typed, Faithful, Child, ~garbled' PROVE Faithful'
    BY DEF Faithful
<1>1. ~garbled /\ UNCHANGED <<kept, parent>>
  <2>1. UNCHANGED parentVars
      BY DEF Child, MakeArchive, BeginWrite, WriteOut, WriteErr, BrokenPipe, Exit
  <2> QED
      BY <2>1 DEF parentVars
<1>2. PICK n \in 0 .. Len(said) : ReadSoFar(n)
    BY <1>1 DEF Faithful
<1>3. CASE WriteErr
  <2>1. /\ said \in Seq(ErrLines) /\ errPipe \in Seq(ErrLines) /\ child.line \in ErrLines
        /\ said' = Append(said, child.line) /\ errPipe' = Append(errPipe, child.line)
      BY <1>3, LineOf DEF WriteErr, Typed, TypeOK
  <2>2. Reports(kept, said', n)
      BY <1>2, <2>1, ReportStays DEF ReadSoFar
  <2>3. /\ Len(errPipe') = Len(said') - n
        /\ \A i \in 1 .. Len(errPipe') : errPipe'[i] = said'[n + i]
        /\ n \in 0 .. Len(said')
    <3>1. /\ Len(errPipe) = Len(said) - n
          /\ \A i \in 1 .. Len(errPipe) : errPipe[i] = said[n + i]
        BY <1>2 DEF ReadSoFar
    <3>2. Len(errPipe') = Len(errPipe) + 1 /\ Len(said') = Len(said) + 1
        BY <2>1
    <3>3. ASSUME NEW i \in 1 .. Len(errPipe') PROVE errPipe'[i] = said'[n + i]
      <4>1. CASE i = Len(errPipe) + 1
        <5>1. n + i = Len(said) + 1
            BY <3>1, <4>1, <2>1
        <5> QED
            BY <2>1, <4>1, <5>1
      <4>2. CASE i \in 1 .. Len(errPipe)
        <5>1. n + i \in 1 .. Len(said)
            BY <3>1, <4>2, <2>1
        <5> QED
            BY <2>1, <3>1, <4>2, <5>1
      <4>3. i = Len(errPipe) + 1 \/ i \in 1 .. Len(errPipe)
        <5>1. Len(errPipe) \in Nat
            BY <2>1
        <5> QED
            BY <3>2, <5>1
      <4> QED
          BY <4>1, <4>2, <4>3
    <3>4. n \in 0 .. Len(said') /\ Len(errPipe') = Len(said') - n
      <4>1. Len(errPipe) \in Nat /\ Len(said) \in Nat
          BY <2>1
      <4> QED
          BY <3>1, <3>2, <4>1
    <3> QED
        BY <3>3, <3>4
  <2>4. parent \notin {"wait", "returned"}
      BY <1>3 DEF WriteErr, ErrOpen
  <2> QED
      BY <1>1, <2>2, <2>3, <2>4 DEF Faithful, ReadSoFar
<1>4. CASE ~WriteErr
  <2>1. UNCHANGED <<said, errPipe, kept, parent, garbled>>
      BY <1>4 DEF Child, MakeArchive, BeginWrite, WriteOut, BrokenPipe, Exit, parentVars
  <2> QED
      BY <2>1 DEF Faithful, ReadSoFar
<1> QED
    BY <1>3, <1>4

\* What the parent does: it moves a line from the pipe to the report, and leaves
\* the loop with an empty pipe.
LEMMA ParentFaithful == PipeAssumption /\ Typed /\ Faithful /\ Parent => Faithful'
<1> SUFFICES ASSUME PipeAssumption, Typed, Faithful, Parent, ~garbled' PROVE Faithful'
    BY DEF Faithful
<1>1. ~garbled /\ UNCHANGED said
    BY DEF Parent, ReadOut, EndOfOut, ReadErr, EndOfErr, Wait, childVars, Typed, TypeOK
<1>2. PICK n \in 0 .. Len(said) : ReadSoFar(n)
    BY <1>1 DEF Faithful
<1>3. CASE ReadErr
  <2>1. /\ said \in Seq(ErrLines) /\ errPipe \in Seq(ErrLines) /\ errPipe # <<>>
        /\ kept \in Seq({"message"})
      BY <1>3 DEF ReadErr, Typed, TypeOK
  <2>2. /\ errPipe' = Tail(errPipe) /\ kept' = Keep(kept, Head(errPipe))
        /\ Head(errPipe) # "undecodable" /\ parent' = "read stderr"
      BY <1>3 DEF ReadErr
  <2>3. /\ Len(errPipe) = Len(said) - n
        /\ \A i \in 1 .. Len(errPipe) : errPipe[i] = said[n + i]
        /\ Reports(kept, said, n)
      BY <1>2 DEF ReadSoFar
  <2>4. Head(errPipe) = said[n + 1] /\ Head(errPipe) \in ErrLines
      BY <2>1, <2>3
  <2>5. n + 1 \in 0 .. Len(said) /\ Len(errPipe') = Len(said) - (n + 1)
    <3>1. /\ Len(errPipe) \in Nat \ {0} /\ Len(said) \in Nat
          /\ Len(errPipe') = Len(errPipe) - 1
      <4>1. Len(errPipe) \in Nat \ {0} /\ Len(Tail(errPipe)) = Len(errPipe) - 1
          BY <2>1, RestOfPipe
      <4>2. Len(said) \in Nat
          BY <2>1
      <4> QED
          BY <2>2, <4>1, <4>2
    <3> QED
        BY <2>3, <3>1
  <2>6. \A i \in 1 .. Len(errPipe') : errPipe'[i] = said[(n + 1) + i]
    <3> SUFFICES ASSUME NEW i \in 1 .. Len(errPipe') PROVE errPipe'[i] = said[(n + 1) + i]
        OBVIOUS
    <3>1. i + 1 \in 1 .. Len(errPipe) /\ errPipe'[i] = errPipe[i + 1]
        BY <2>1, <2>2, RestOfPipe
    <3>2. PICK k \in 1 .. Len(errPipe) : k = i + 1
        BY <3>1
    <3>3. errPipe[k] = said[n + k]
        BY <2>3
    <3>4. n + k = (n + 1) + i
        BY <3>2
    <3> QED
        BY <3>1, <3>2, <3>3, <3>4
  <2>7. Reports(kept', said, n + 1)
    <3>1. CASE Head(errPipe) = "blank"
      <4>1. kept' = kept /\ ~Meant(said[n + 1])
          BY <2>2, <2>4, <3>1 DEF Keep, Meant
      <4> QED
          BY <2>3, <4>1, ReportSkips
    <3>2. CASE Head(errPipe) = "message"
      <4>1. kept' = Append(kept, said[n + 1]) /\ Meant(said[n + 1])
          BY <2>2, <2>4, <3>2 DEF Keep, Meant
      <4>2. said[n + 1] \in {"message"} /\ n \in Nat
          BY <2>4, <3>2
      <4> QED
          BY <2>1, <2>3, <4>1, <4>2, ReportAdds
    <3> QED
        BY <2>2, <2>4, <3>1, <3>2 DEF ErrLines
  <2> QED
      BY <1>1, <2>2, <2>5, <2>6, <2>7 DEF Faithful, ReadSoFar
<1>4. CASE ~ReadErr
  <2>1. UNCHANGED <<said, errPipe, kept, garbled>>
      BY <1>1, <1>4 DEF Parent, ReadOut, EndOfOut, EndOfErr, Wait, childVars
  <2>2. parent' \in {"wait", "returned"} => errPipe = <<>>
      BY <1>1, <1>4 DEF Parent, ReadOut, EndOfOut, EndOfErr, Wait, AtEnd, Faithful
  <2> QED
      BY <1>1, <1>2, <2>1, <2>2 DEF Faithful, ReadSoFar
<1> QED
    BY <1>3, <1>4

-----------------------------------------------------------------------------
(***************************************************************************)
(* The inductive invariant.                                                *)
(***************************************************************************)
LEMMA InitInv == PipeAssumption /\ Init => IInv
<1> SUFFICES ASSUME PipeAssumption, Init PROVE IInv
    OBVIOUS
<1>1. Typed
    BY InitType
<1>2. ~HasExited
    BY Shapes DEF Init, HasExited
<1>3. child # Exited("broken pipe")
    BY <1>2, Shapes DEF HasExited
<1> QED
    BY <1>1, <1>2, <1>3, InitFaithful DEF Init, IInv, ReaderStays, StatusIsTrue, ResultIsStatus,
       ResultIsLast, Unread, ChildOutlivesPipes

\* The child: every action but BrokenPipe leaves garbled and the reading side
\* alone, and BrokenPipe needs a closed pipe.
LEMMA ChildKeeps == PipeAssumption /\ IInv /\ Child => IInv'
<1> SUFFICES ASSUME PipeAssumption, IInv, Child PROVE IInv'
    OBVIOUS
<1> USE DEF IInv, ReaderStays, StatusIsTrue, ResultIsStatus, ResultIsLast,
            Unread, ChildOutlivesPipes, HasExited,
            parentVars
<1>0. Typed' /\ Faithful'
    BY ChildType, ChildFaithful
<1>1. CASE MakeArchive
    BY <1>0, <1>1, Shapes DEF MakeArchive
<1>2. CASE BeginWrite
  <2>1. child.at = "working" /\ child'.at \in {"stdout", "stderr"}
      BY <1>2, Shapes DEF BeginWrite
  <2> QED
      BY <1>0, <1>2, <2>1, Shapes DEF BeginWrite
<1>3. CASE WriteOut
    BY <1>0, <1>3, Shapes DEF WriteOut, OutOpen
<1>4. CASE WriteErr
    BY <1>0, <1>4, Shapes DEF WriteErr, ErrOpen
<1>5. CASE BrokenPipe
  <2>1. garbled
      BY <1>5 DEF BrokenPipe, OutOpen, ErrOpen
  <2> QED
      BY <1>0, <1>5, <2>1, Shapes DEF BrokenPipe
<1>6. CASE Exit
  <2>1. child.at = "working" /\ child'.at = "exited" /\ child' # Exited("broken pipe")
    <3>1. child' = Exited("success") \/ child' = Exited("failure")
        BY <1>6 DEF Exit
    <3>2. child'.code \in {"success", "failure"} /\ child'.at = "exited"
        BY <3>1, Shapes
    <3>3. Exited("broken pipe").code = "broken pipe"
        BY Shapes
    <3>4. child.at = "working"
        BY <1>6, Shapes DEF Exit
    <3> QED
        BY <3>2, <3>3, <3>4
  <2>2. child'.code = "success" => archived'
      BY <1>6, Shapes DEF Exit
  <2> QED
      BY <1>0, <1>6, <2>1, <2>2 DEF Exit
<1> QED
    BY <1>1, <1>2, <1>3, <1>4, <1>5, <1>6 DEF Child

\* The parent: a loop ends at the end of its pipe or at a garbled line.
LEMMA ParentKeeps == PipeAssumption /\ IInv /\ Parent => IInv'
<1> SUFFICES ASSUME PipeAssumption, IInv, Parent PROVE IInv'
    OBVIOUS
<1> USE DEF IInv, ReaderStays, StatusIsTrue, ResultIsStatus, ResultIsLast,
            Unread, ChildOutlivesPipes, HasExited,
            childVars
<1>0. Typed' /\ Faithful'
    BY ParentType, ParentFaithful
<1>1. CASE ReadOut
    BY <1>0, <1>1 DEF ReadOut
<1>2. CASE EndOfOut
    BY <1>0, <1>2 DEF EndOfOut, AtEnd
<1>3. CASE ReadErr
    BY <1>0, <1>3 DEF ReadErr
<1>4. CASE EndOfErr
    BY <1>0, <1>4 DEF EndOfErr, AtEnd
<1>5. CASE Wait
    BY <1>0, <1>5 DEF Wait, StatusIsSuccess
<1> QED
    BY <1>1, <1>2, <1>3, <1>4, <1>5 DEF Parent

LEMMA StepKeeps == PipeAssumption /\ IInv /\ [Next]_vars => IInv'
<1>1. IInv /\ UNCHANGED vars => IInv'
  <2> SUFFICES ASSUME IInv, UNCHANGED vars PROVE IInv'
      OBVIOUS
  <2>1. Typed'
      BY DEF IInv, Typed, RoomToSpeak, TypeOK, vars, childVars, parentVars
  <2>2. Faithful'
      BY DEF IInv, Faithful, ReadSoFar, vars, childVars, parentVars
  <2> QED
      BY <2>1, <2>2 DEF IInv, ReaderStays, StatusIsTrue, ResultIsStatus, ResultIsLast,
         Unread, ChildOutlivesPipes, HasExited, vars, childVars, parentVars
<1> QED
    BY <1>1, ChildKeeps, ParentKeeps DEF Next

\* The inductive invariant of the two pipes.
THEOREM Inductive ==
    ASSUME PipeAssumption
    PROVE  Spec => []IInv
    BY InitInv, StepKeeps, PTL DEF Spec

\* Every variable of the pipes has its type.
THEOREM PipeTypeCorrect ==
    ASSUME PipeAssumption
    PROVE  Spec => []TypeOK
<1>1. IInv => TypeOK
    BY DEF IInv, Typed
<1> QED
    BY <1>1, Inductive, PTL

\* SevenZBackend::pack reports success only of an archive that is made.
THEOREM OkIsArchived ==
    ASSUME PipeAssumption
    PROVE  Spec => []OkMeansArchived
<1>1. IInv => OkMeansArchived
    BY DEF IInv, OkMeansArchived, StatusIsTrue, ResultIsStatus
<1> QED
    BY <1>1, Inductive, PTL

\* The child dies of a closed pipe only after a line that is not UTF-8.
THEOREM ChildSurvives ==
    ASSUME PipeAssumption
    PROVE  Spec => []ChildOutlivesPipes
<1>1. IInv => ChildOutlivesPipes
    BY DEF IInv
<1> QED
    BY <1>1, Inductive, PTL

\* A parent that waits has emptied the pipe it reads, so the child waits at the
\* other one; the messages there are all that it has said.
LEMMA InvBlocks == PipeAssumption /\ IInv => BlocksAtOverflow
<1> SUFFICES ASSUME PipeAssumption, IInv, ParentWaits, ChildWaits PROVE Len(said) = ErrCap
    BY DEF BlocksAtOverflow
<1>1. ~HasExited /\ OutCap # 0 /\ ErrCap # 0 /\ Len(<<>>) = 0
    BY DEF ParentWaits, ChildWaits, HasExited, PipeAssumption
<1>2. parent = "read stdout" /\ Len(errPipe) = ErrCap
    BY <1>1 DEF ParentWaits, ChildWaits, OutOpen, ErrOpen
<1> QED
    BY <1>2 DEF IInv, Unread

\* Parent and child block each other only at the first message for which the
\* stderr pipe has no room, however large the pipes are and however much progress
\* is written.
THEOREM BlockedAtOverflow ==
    ASSUME PipeAssumption
    PROVE  Spec => []BlocksAtOverflow
    BY InvBlocks, Inductive, PTL

\* A failure is known only when the second loop has left an empty pipe.
LEMMA InvExplains == IInv => FailureIsExplained
<1> SUFFICES ASSUME IInv, result = "failed", ~garbled PROVE Reports(kept, said, Len(said))
    BY DEF FailureIsExplained
<1>1. errPipe = <<>> /\ said \in Seq(ErrLines)
    BY DEF IInv, Faithful, ResultIsLast, Typed, TypeOK
<1>2. PICK n \in 0 .. Len(said) : ReadSoFar(n)
    BY DEF IInv, Faithful
<1>3. n = Len(said)
    BY <1>1, <1>2 DEF ReadSoFar
<1> QED
    BY <1>2, <1>3 DEF ReadSoFar

\* When the child fails, the parent has all of its messages, in their order,
\* whatever the pipes hold at a time: it leaves the second loop with an empty pipe
\* and a child that is over.
THEOREM FailureExplained ==
    ASSUME PipeAssumption
    PROVE  Spec => []FailureIsExplained
    BY InvExplains, Inductive, PTL
=============================================================================
