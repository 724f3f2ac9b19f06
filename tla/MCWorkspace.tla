----------------------------- MODULE MCWorkspace ----------------------------
(***************************************************************************)
(* Values for model checking Workspace: two files that share a stem and    *)
(* one whose extension is that of a resume file.                           *)
(***************************************************************************)
EXTENDS Workspace

MCParts == {"", "a", "x", "txt", "csv", "age", "tar", "zst", "7z", "resume"}
MCLossy == [p \in MCParts |-> p]
MCSources == {<<"a", "txt">>, <<"a", "csv">>, <<"x", "resume">>}
=============================================================================
