---------------------------- MODULE MCConcurrent ----------------------------
(***************************************************************************)
(* Values for model checking Concurrent: one tree, what is left of it when *)
(* its deletion is under way, and a pack that deletes the source.          *)
(***************************************************************************)
EXTENDS Concurrent

CONSTANTS tree, rest, blank, p1

MCSizeOf == [c \in Docs \cup Wrecks |-> IF c = tree THEN 2 ELSE 1]
MCChecksumOf ==
    [c \in Docs \cup Wrecks \cup {Gone} |->
        IF c = tree THEN "c1" ELSE IF c = Gone THEN "c3" ELSE "c2"]
MCOptions ==
    {[pw |-> p1, recipient |-> FALSE, hybrid |-> FALSE, force |-> FALSE,
      resume |-> FALSE, delete |-> TRUE, secure |-> FALSE, dry |-> FALSE]}
=============================================================================
