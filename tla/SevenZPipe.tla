----------------------------- MODULE SevenZPipe -----------------------------
(***************************************************************************)
(* SevenZBackend::pack (backends-7z/src/lib.rs) and the child it runs:     *)
(* `7z a` writes progress to its standard output and messages to its       *)
(* standard error, both pipes of bounded size; the parent reads the one to *)
(* its end, then the other, then waits for the child.                      *)
(*                                                                         *)
(* The child is external: it does its work, writes lines to either pipe    *)
(* whenever it likes and exits as it likes, with success only when the     *)
(* archive is made.  It does not run for ever.                             *)
(***************************************************************************)
EXTENDS Naturals, Sequences

CONSTANTS
    OutCap, ErrCap,  \* lines that fit into a pipe
    MaxOut, MaxErr   \* lines the child writes in all

PipeAssumption ==
    /\ OutCap \in Nat \ {0}
    /\ ErrCap \in Nat \ {0}
    /\ MaxOut \in Nat
    /\ MaxErr \in Nat

\* "undecodable": not UTF-8, such as the name of a file.
OutLines == {"progress", "undecodable"}
ErrLines == {"message", "blank", "undecodable"}

VARIABLES
    outPipe, errPipe,  \* lines written and not read
    child,     \* what the child is doing, or how it ended
    outs,      \* lines it wrote to outPipe
    said,      \* lines it wrote to errPipe
    archived,  \* the archive is made
    parent,    \* what the parent is doing
    kept,      \* stderr_lines
    garbled,   \* the parent met an undecodable line
    result

childVars == <<child, outs, said, archived>>
parentVars == <<parent, kept, garbled, result>>
vars == <<outPipe, errPipe, childVars, parentVars>>

Working == [at |-> "working"]
Writing(pipe, l) == [at |-> pipe, line |-> l]
Exited(c) == [at |-> "exited", code |-> c]

Init ==
    /\ outPipe = <<>>
    /\ errPipe = <<>>
    /\ child = Working
    /\ outs = 0
    /\ said = <<>>
    /\ archived = FALSE
    /\ parent = "read stdout"
    /\ kept = <<>>
    /\ garbled = FALSE
    /\ result = "none"

HasExited == child.at = "exited"

\* Mutant: the reader of the first loop lives as long as the function.
ReaderLives == parent # "returned"

\* The loops own their readers: leaving a loop closes the read end.
OutOpen == parent = "read stdout"
ErrOpen == parent \in {"read stdout", "read stderr"}

(***************************************************************************)
(* The child.                                                              *)
(***************************************************************************)
MakeArchive ==
    /\ child = Working /\ ~archived
    /\ archived' = TRUE
    /\ UNCHANGED <<outPipe, errPipe, child, outs, said, parentVars>>

BeginWrite ==
    /\ child = Working
    /\ \/ outs < MaxOut /\ \E l \in OutLines : child' = Writing("stdout", l)
       \/ Len(said) < MaxErr /\ \E l \in ErrLines : child' = Writing("stderr", l)
    /\ UNCHANGED <<outPipe, errPipe, outs, said, archived, parentVars>>

\* A write waits for room; without a reader it kills the writer.
WriteOut ==
    /\ child.at = "stdout" /\ OutOpen
    /\ Len(outPipe) < OutCap
    /\ outPipe' = Append(outPipe, child.line)
    /\ outs' = outs + 1
    /\ child' = Working
    /\ UNCHANGED <<errPipe, said, archived, parentVars>>

WriteErr ==
    /\ child.at = "stderr" /\ ErrOpen
    /\ Len(errPipe) < ErrCap
    /\ errPipe' = Append(errPipe, child.line)
    /\ said' = Append(said, child.line)
    /\ child' = Working
    /\ UNCHANGED <<outPipe, outs, archived, parentVars>>

BrokenPipe ==
    /\ \/ child.at = "stdout" /\ ~OutOpen
       \/ child.at = "stderr" /\ ~ErrOpen
    /\ child' = Exited("broken pipe")
    /\ UNCHANGED <<outPipe, errPipe, outs, said, archived, parentVars>>

Exit ==
    /\ child = Working
    /\ \/ archived /\ child' = Exited("success")
       \/ child' = Exited("failure")
    /\ UNCHANGED <<outPipe, errPipe, outs, said, archived, parentVars>>

Child == MakeArchive \/ BeginWrite \/ WriteOut \/ WriteErr \/ BrokenPipe \/ Exit

(***************************************************************************)
(* The parent.  A loop ends with its pipe, or with the first line that is  *)
(* not UTF-8: lines().map_while(|l| l.ok()).                               *)
(***************************************************************************)
ReadOut ==
    /\ parent = "read stdout" /\ outPipe # <<>>
    /\ IF Head(outPipe) = "undecodable"
         THEN outPipe' = <<>> /\ parent' = "read stderr" /\ garbled' = TRUE
         ELSE outPipe' = Tail(outPipe) /\ UNCHANGED <<parent, garbled>>
    /\ UNCHANGED <<errPipe, childVars, kept, result>>

\* Mutant: an empty pipe is taken for its end.
NothingToRead(pipe) == pipe = <<>>

AtEnd(pipe) == pipe = <<>> /\ HasExited

EndOfOut ==
    /\ parent = "read stdout" /\ AtEnd(outPipe)
    /\ parent' = "read stderr"
    /\ UNCHANGED <<outPipe, errPipe, childVars, kept, garbled, result>>

\* Mutant: blank lines are reported, messages are not.
BlankKept(lines, l) == IF l = "message" THEN lines ELSE Append(lines, l)

Keep(lines, l) == IF l = "blank" THEN lines ELSE Append(lines, l)

ReadErr ==
    /\ parent = "read stderr" /\ errPipe # <<>>
    /\ IF Head(errPipe) = "undecodable"
         THEN errPipe' = <<>> /\ parent' = "wait" /\ garbled' = TRUE /\ UNCHANGED kept
         ELSE /\ errPipe' = Tail(errPipe)
              /\ kept' = Keep(kept, Head(errPipe))
              /\ UNCHANGED <<parent, garbled>>
    /\ UNCHANGED <<outPipe, childVars, result>>

EndOfErr ==
    /\ parent = "read stderr" /\ AtEnd(errPipe)
    /\ parent' = "wait"
    /\ UNCHANGED <<outPipe, errPipe, childVars, kept, garbled, result>>

\* Mutant: a child that said nothing is taken for a success.
SilenceIsSuccess == kept = <<>>

StatusIsSuccess == child.code = "success"

Wait ==
    /\ parent = "wait" /\ HasExited
    /\ parent' = "returned"
    /\ result' = IF StatusIsSuccess THEN "ok" ELSE "failed"
    /\ UNCHANGED <<outPipe, errPipe, childVars, kept, garbled>>

Parent == ReadOut \/ EndOfOut \/ ReadErr \/ EndOfErr \/ Wait

Next == Child \/ Parent

Spec == Init /\ [][Next]_vars

-----------------------------------------------------------------------------

Children ==
    {Working}
        \cup [at : {"stdout"}, line : OutLines]
        \cup [at : {"stderr"}, line : ErrLines]
        \cup [at : {"exited"}, code : {"success", "failure", "broken pipe"}]

TypeOK ==
    /\ outPipe \in Seq(OutLines) /\ Len(outPipe) <= OutCap
    /\ errPipe \in Seq(ErrLines) /\ Len(errPipe) <= ErrCap
    /\ child \in Children
    /\ outs \in 0 .. MaxOut
    /\ said \in Seq(ErrLines) /\ Len(said) <= MaxErr
    /\ archived \in BOOLEAN
    /\ parent \in {"read stdout", "read stderr", "wait", "returned"}
    /\ kept \in Seq({"message"})
    /\ garbled \in BOOLEAN
    /\ result \in {"none", "ok", "failed"}

ParentWaits ==
    \/ parent = "read stdout" /\ outPipe = <<>> /\ ~HasExited
    \/ parent = "read stderr" /\ errPipe = <<>> /\ ~HasExited
    \/ parent = "wait" /\ ~HasExited

ChildWaits ==
    \/ child.at = "stdout" /\ OutOpen /\ Len(outPipe) = OutCap
    \/ child.at = "stderr" /\ ErrOpen /\ Len(errPipe) = ErrCap

\* The messages filled their pipe while the parent still reads the progress.
Jammed ==
    /\ parent = "read stdout"
    /\ child.at = "stderr"
    /\ Len(errPipe) = ErrCap

\* Parent and child block each other only at the first message that finds no room
\* in the stderr pipe, with nothing read from it yet: a child that says no more
\* than the pipe holds gets through, however much progress it writes (the order
\* of the two read loops in SevenZBackend::pack).
BlocksAtOverflow == ParentWaits /\ ChildWaits => Len(said) = ErrCap

\* pack reports success only of an archive that is made, whatever was written to
\* the pipes, read from them or left in them.
OkMeansArchived == result = "ok" => archived

\* The parent kills no child that it can read: the child dies of a closed pipe
\* only after a line that is not UTF-8 (map_while drops the reader there).
ChildOutlivesPipes == child = Exited("broken pipe") => garbled

\* A failure is reported with every message of the child, in the order it said
\* them, although they are read only after its progress has ended and it may be
\* gone by then: each line kept has a place of its own in what was said.
Meant(l) == l # "blank"
Reports(lines, text, upto) ==
    \E place \in [DOMAIN lines -> 1 .. upto] :
        /\ \A i, j \in DOMAIN lines : i < j => place[i] < place[j]
        /\ \A i \in DOMAIN lines : lines[i] = text[place[i]]
        /\ \A n \in 1 .. upto : Meant(text[n]) <=> \E i \in DOMAIN lines : place[i] = n
FailureIsExplained ==
    result = "failed" /\ ~garbled => Reports(kept, said, Len(said))
=============================================================================
