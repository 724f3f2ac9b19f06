------------------------------ MODULE MCFormats -----------------------------
(***************************************************************************)
(* Values for model checking FileFormats: the ways an archive is damaged,  *)
(* and bounded inputs for the names of the files and the text of a resume  *)
(* file.                                                                   *)
(***************************************************************************)
EXTENDS FileFormats

Junk == [t |-> "junk"]

\* Cut short, one token more, or one token changed.
Changes(token) ==
    CASE token.t = "flags" -> {Flags(fs) : fs \in SUBSET FlagBits}
      [] token.t = "u32" -> {Number(n) : n \in U32}
      [] OTHER -> {Junk}
MCDamaged(f) ==
    {SubSeq(f, 1, n) : n \in 0 .. Len(f)}
        \cup {Append(f, Junk)}
        \cup UNION {{[f EXCEPT ![i] = c] : c \in Changes(f[i])} : i \in DOMAIN f}

-----------------------------------------------------------------------------
MCParts == {"", "a", "b", "bytes", "?", "age", "tar", "zst", "7z", "resume"}
MCLossy == [p \in MCParts |-> IF p = "bytes" THEN "?" ELSE p]

\* Every name of one or two parts, and the longer ones that ramz makes itself.
MCNames ==
    LET short == {<<p>> : p \in MCParts} \cup {<<p, q>> : p, q \in MCParts}
    IN  short
        \cup {ArchiveName(n, b) : n \in {<<"a">>, <<"bytes", "7z">>}, b \in {"age", "7z"}}
        \cup {StateName(ArchiveName(<<"a">>, "age"))}

-----------------------------------------------------------------------------
Texts ==
    LET w == Word("w")
    IN  {<<w>>, <<w, Break, w>>, <<Break, w>>,
         <<Blank, w>>, <<Blank>>, <<Digits(2)>>,
         <<w, Break, Digits(2)>>}
MCStates ==
    [sourcePath : Texts, archivePath : Texts, backend : {Word("age")},
     total : {0, 2}, processed : {0, 2},
     checksum : {<<Word("c"), Word("d")>>},
     hint : {<<>>, <<Word("w")>>}, created : {Word("t")}]
=============================================================================
