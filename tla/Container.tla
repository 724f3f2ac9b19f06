------------------------------ MODULE Container -----------------------------
(***************************************************************************)
(* The formats of an archive and the commands that read one: what          *)
(* pack_custom_container writes, decrypt_archive_to_tar and                *)
(* decrypt_custom_container (backends-age/src/lib.rs), and the Verify and  *)
(* Extract arms of run().                                                  *)
(*                                                                         *)
(* A file is a sequence of tokens, one for each field of fixed length and  *)
(* several for one of variable length.  Cryptography is symbolic: a key is *)
(* a record of what it was derived from, and sealed text opens under the   *)
(* key and nonce it was sealed with, whole and unchanged.  The archive may *)
(* have been cut or changed since it was made.                             *)
(***************************************************************************)
EXTENDS Naturals, Sequences

CONSTANTS
    Passwords, NoPassword,
    Identities, NoIdentity,  \* the key pairs of recipients
    Payload,                 \* what is packed, compressed
    Damaged(_),              \* file -> the files it may have become
    CtLen, SealLen,          \* tokens of a KEM ciphertext, of a sealed text
    U32, UsizeMax            \* values of a length field; the largest usize

Formats == {"age", "argon2", "mlkem", "recipient", "7z"}

ASSUME CredentialAssumption ==
    /\ NoPassword \notin Passwords
    /\ NoIdentity \notin Identities
ASSUME SizeAssumption ==
    /\ CtLen \in U32 \ {0} /\ SealLen \in U32 \ {0, 1}
    /\ U32 \subseteq Nat
    /\ UsizeMax \in Nat

-----------------------------------------------------------------------------
(***************************************************************************)
(* Tokens and keys.                                                        *)
(***************************************************************************)
Magic == [t |-> "magic"]
Flags(fs) == [t |-> "flags", fs |-> fs]
Number(n) == [t |-> "u32", n |-> n]
Salt == [t |-> "salt"]
Nonce(use) == [t |-> "nonce", use |-> use]
KemPart(k, i) == [t |-> "kem", to |-> k, i |-> i]
SealedPart(key, nonce, of, i) ==
    [t |-> "sealed", key |-> key, nonce |-> nonce, of |-> of, i |-> i]

Encapsulated(k) == [i \in 1 .. CtLen |-> KemPart(k, i)]
Seal(key, nonce, text) == [i \in 1 .. SealLen |-> SealedPart(key, nonce, text, i)]

\* derive_key, decapsulate (which refuses no ciphertext of the right length)
\* and combine_secrets.
ArgonKey(pw, salt, params) == [k |-> "argon", pw |-> pw, salt |-> salt, params |-> params]
SharedSecret(dk, ct) == [k |-> "shared", dk |-> dk, ct |-> ct]
Combined(a, s) == [k |-> "both", a |-> a, s |-> s]

\* The scrypt key of the age format, and the key of a 7z archive.
PassphraseKey(pw) == [k |-> "passphrase", pw |-> pw]

(***************************************************************************)
(* pack_custom_container, and the two formats of other programs.           *)
(***************************************************************************)
Params == <<0, 1, 2>>  \* stands for the three Argon2 parameters
MadeArgonKey(pw) == ArgonKey(pw, <<Salt>>, Params)
FreshPair == [pair |-> "fresh"]  \* generate_keypair of an --mlkem archive

Header(fs) ==
    <<Magic, Flags({"argon2"} \cup fs), Number(Params[1]), Number(Params[2]),
      Number(Params[3]), Salt>>

\* Mutant: the wrapped key comes before its nonce.
NonceAfterWrap(pw) ==
    <<Number(CtLen)>> \o Encapsulated(FreshPair) \o <<Number(SealLen)>>
        \o Seal(MadeArgonKey(pw), <<Nonce("wrap")>>, FreshPair) \o <<Nonce("wrap")>>

WrapPart(pw) ==
    <<Number(CtLen)>> \o Encapsulated(FreshPair) \o <<Nonce("wrap"), Number(SealLen)>>
        \o Seal(MadeArgonKey(pw), <<Nonce("wrap")>>, FreshPair)

FinalKey(format, pw, id) ==
    CASE format = "recipient" -> SharedSecret(id, Encapsulated(id))
      [] format = "mlkem" ->
           Combined(MadeArgonKey(pw), SharedSecret(FreshPair, Encapsulated(FreshPair)))
      [] format = "argon2" -> MadeArgonKey(pw)
      [] OTHER -> PassphraseKey(pw)

SealedPayload(format, pw, id) ==
    <<Nonce("payload")>> \o Seal(FinalKey(format, pw, id), <<Nonce("payload")>>, Payload)

Encode(format, pw, id) ==
    (CASE format = "recipient" ->
            Header({"recipient"}) \o <<Number(CtLen)>> \o Encapsulated(id)
       [] format = "mlkem" -> Header({"mlkem"}) \o WrapPart(pw)
       [] format = "argon2" -> Header({})
       [] OTHER -> <<[t |-> format]>>)
    \o SealedPayload(format, pw, id)

-----------------------------------------------------------------------------
VARIABLES
    made,    \* how the archive was made
    file,    \* the archive now, and its extension
    command, \* verify or extract, with what the user gave
    pc,
    pos,     \* cursor into the file
    plan,    \* fields still to be read
    flags, number, slice,  \* what was read
    opened,  \* the text that was decrypted
    outdir,  \* the output directory of extract
    outcome

inputs == <<made, file, command>>
cursor == <<pos, plan, flags, number, slice>>
vars == <<inputs, pc, cursor, opened, outdir, outcome>>

Nothing == [nothing |-> TRUE]

Lengths == {"memory", "iterations", "parallelism", "ct len", "dk len"}
Slices == {"salt", "ct", "dk nonce", "dk", "nonce"}

Makings == [format : Formats, pw : Passwords, id : Identities]

FlagBits == {"argon2", "mlkem", "recipient"}

WellFormed(f) ==
    /\ f \in Seq({f[i] : i \in DOMAIN f})
    /\ \A i \in DOMAIN f :
         /\ f[i].t = "u32" => f[i].n \in U32
         /\ f[i].t = "flags" => f[i].fs \subseteq FlagBits

\* A damaged file is a file, and nobody who changes it can make sealed tokens of
\* the archive's keys.
ASSUME DamageAssumption ==
    \A m \in Makings :
        LET original == Encode(m.format, m.pw, m.id)
        IN  \A changed \in Damaged(original) :
              /\ WellFormed(changed)
              /\ \A i \in DOMAIN changed :
                   changed[i].t = "sealed" =>
                       \E j \in DOMAIN original : changed[i] = original[j]
ASSUME PayloadAssumption == Payload # FreshPair
\* An archive is read into memory as a whole: its length is a usize.
ASSUME MemoryAssumption ==
    \A m \in Makings : Len(Encode(m.format, m.pw, m.id)) <= UsizeMax

Init ==
    /\ made \in Makings
    /\ file \in [tokens : Damaged(Encode(made.format, made.pw, made.id)),
                 extension : {"zst", "7z"}]
    /\ command \in [name : {"verify", "extract"}, pw : Passwords \cup {NoPassword},
                    id : Identities \cup {NoIdentity}]
    /\ command.id = NoIdentity => command.pw # NoPassword
    /\ pc = "start"
    /\ pos = 0
    /\ plan = <<>>
    /\ flags = {}
    /\ number = [f \in Lengths |-> 0]
    /\ slice = [f \in Slices |-> <<>>]
    /\ opened = Nothing
    /\ outdir = "absent"
    /\ outcome = "none"

Goto(l) == pc' = l /\ UNCHANGED outcome
Return(r) == pc' = "end" /\ outcome' = r

Tokens == file.tokens
Rest == SubSeq(Tokens, pos + 1, Len(Tokens))

\* verify_with_identity passes no password on; extract_to_dir does.
Password ==
    IF command.name = "verify" /\ command.id # NoIdentity THEN NoPassword ELSE command.pw

\* Mutant: the cursor starts behind the flags.
AfterFlags == 2

AfterMagic == 1

\* Mutant: whatever has no identity goes to 7z.
NoIdentityGiven == command.id = NoIdentity

\* The extension chooses the backend, but --identity is for age.
Uses7z == file.extension = "7z" /\ command.id = NoIdentity

\* extract makes the output directory before it looks at anything.
Start ==
    /\ pc = "start"
    /\ outdir' = IF command.name = "extract" THEN "empty" ELSE outdir
    /\ Goto(IF Uses7z THEN "7z" ELSE "dispatch")
    /\ UNCHANGED <<inputs, cursor, opened>>

\* A file of another program, which opens as a whole.
OpensWith(format, pw) ==
    Tokens = <<[t |-> format], Nonce("payload")>>
                 \o Seal(PassphraseKey(pw), <<Nonce("payload")>>, Payload)

\* `7z t` and `7z x`: 7z writes files as it goes.
Run7z ==
    /\ pc = "7z"
    /\ IF OpensWith("7z", command.pw)
         THEN opened' = Payload /\ Goto("unpack") /\ UNCHANGED outdir
         ELSE /\ outdir' \in {outdir, IF command.name = "extract" THEN "partial" ELSE outdir}
              /\ Return("failed")
              /\ UNCHANGED opened
    /\ UNCHANGED <<inputs, cursor>>

(***************************************************************************)
(* decrypt_archive_to_tar: what has no magic is taken for age's own format *)
(***************************************************************************)
Dispatch ==
    /\ pc = "dispatch"
    /\ IF Tokens # <<>> /\ Tokens[1] = Magic
         THEN pos' = AfterMagic /\ Goto("flags") /\ UNCHANGED opened
         ELSE /\ UNCHANGED pos
              /\ \/ /\ Password # NoPassword /\ OpensWith("age", Password)
                    /\ opened' = Payload
                    /\ Goto("unpack")
                 \/ /\ Password = NoPassword \/ ~OpensWith("age", Password)
                    /\ Return("failed")
                    /\ UNCHANGED opened
    /\ UNCHANGED <<inputs, plan, flags, number, slice, outdir>>

(***************************************************************************)
(* decrypt_custom_container.  A field that is read where another one was   *)
(* written has that one's bytes: some flags, some number.                  *)
(***************************************************************************)
FlagsIn(token) ==
    IF token.t = "flags" THEN {token.fs} ELSE SUBSET FlagBits
NumbersIn(token) == IF token.t = "u32" THEN {token.n} ELSE U32

ReadFlags ==
    /\ pc = "flags"
    /\ IF pos < Len(Tokens)
         THEN /\ flags' \in FlagsIn(Tokens[pos + 1])
              /\ pos' = pos + 1
              /\ plan' = <<"memory", "iterations", "parallelism", "salt">>
              /\ Goto("header")
         ELSE Return("failed") /\ UNCHANGED <<pos, plan, flags>>
    /\ UNCHANGED <<inputs, number, slice, opened, outdir>>

WidthOf(f) ==
    CASE f = "ct" -> number["ct len"] [] f = "dk" -> number["dk len"] [] OTHER -> 1

\* checked_add, then get() on the range.
InFile(end) == end <= UsizeMax /\ end <= Len(Tokens)

\* read_u32 or read_slice of the next field of the plan.
Read ==
    /\ plan # <<>> /\ pc # "end"
    /\ LET f == Head(plan)
           end == pos + WidthOf(f)
       IN  IF ~InFile(end)
             THEN Return("failed") /\ UNCHANGED cursor
             ELSE /\ pos' = end
                  /\ plan' = Tail(plan)
                  /\ IF f \in Lengths
                       THEN /\ \E n \in NumbersIn(Tokens[pos + 1]) :
                                 number' = [number EXCEPT ![f] = n]
                            /\ UNCHANGED slice
                       ELSE /\ slice' = [slice EXCEPT ![f] = SubSeq(Tokens, pos + 1, end)]
                            /\ UNCHANGED number
                  /\ UNCHANGED <<flags, pc, outcome>>
    /\ UNCHANGED <<inputs, opened, outdir>>

ParamsRead == <<number["memory"], number["iterations"], number["parallelism"]>>
DerivedKey == ArgonKey(Password, slice["salt"], ParamsRead)

\* The recipient flag goes first; argon2 may refuse parameters it was not given.
Branch ==
    /\ pc = "header" /\ plan = <<>>
    /\ \/ /\ "recipient" \in flags /\ command.id # NoIdentity
          /\ plan' = <<"ct len", "ct">>
          /\ Goto("encapsulated")
       \/ /\ "recipient" \notin flags /\ Password # NoPassword
          /\ plan' = IF "mlkem" \in flags
                       THEN <<"ct len", "ct", "dk nonce", "dk len", "dk">>
                       ELSE <<"nonce">>
          /\ Goto(IF "mlkem" \in flags THEN "wrapped" ELSE "payload")
       \/ /\ \/ "recipient" \in flags /\ command.id = NoIdentity
             \/ "recipient" \notin flags /\ Password = NoPassword
             \/ "recipient" \notin flags /\ ParamsRead # Params
          /\ Return("failed")
          /\ UNCHANGED plan
    /\ UNCHANGED <<inputs, pos, flags, number, slice, opened, outdir>>

\* An --mlkem archive carries its own decapsulation key, wrapped.
Unwraps == slice["dk"] = Seal(DerivedKey, slice["dk nonce"], FreshPair)

Decapsulate ==
    /\ pc \in {"encapsulated", "wrapped"} /\ plan = <<>>
    /\ IF Len(slice["ct"]) = CtLen /\ (pc = "wrapped" => Unwraps)
         THEN plan' = <<"nonce">> /\ Goto("payload")
         ELSE Return("failed") /\ UNCHANGED plan
    /\ UNCHANGED <<inputs, pos, flags, number, slice, opened, outdir>>

KeyRead ==
    IF "recipient" \in flags THEN SharedSecret(command.id, slice["ct"])
    ELSE IF "mlkem" \in flags THEN Combined(DerivedKey, SharedSecret(FreshPair, slice["ct"]))
    ELSE DerivedKey

\* Mutant: the tag is not looked at.
SomeTextIsLeft == Rest # <<>>

\* What opens to something else than a compressed payload does not decompress.
PayloadOpens == Rest = Seal(KeyRead, slice["nonce"], Payload)

OpenPayload ==
    /\ pc = "payload" /\ plan = <<>>
    /\ IF PayloadOpens
         THEN opened' = Payload /\ Goto("unpack")
         ELSE Return("failed") /\ UNCHANGED opened
    /\ UNCHANGED <<inputs, cursor, outdir>>

\* verify reads the entries, extract writes them, which may fail half-way.
Unpack ==
    /\ pc = "unpack"
    /\ \/ /\ outdir' = IF command.name = "extract" THEN "full" ELSE outdir
          /\ Return("ok")
       \/ /\ command.name = "extract"
          /\ outdir' = "partial"
          /\ Return("failed")
    /\ UNCHANGED <<inputs, cursor, opened>>

Next ==
    \/ Start \/ Run7z \/ Dispatch \/ ReadFlags \/ Read \/ Branch
    \/ Decapsulate \/ OpenPayload \/ Unpack

Spec == Init /\ [][Next]_vars

-----------------------------------------------------------------------------

\* The cursor never leaves the file, whatever its length fields say.
TypeOK ==
    /\ made \in Makings
    /\ pc \in {"start", "7z", "dispatch", "flags", "header", "encapsulated", "wrapped",
               "payload", "unpack", "end"}
    /\ pos \in 0 .. Len(Tokens)
    /\ plan \in Seq(Lengths \cup Slices)
    /\ flags \subseteq FlagBits
    /\ number \in [Lengths -> Nat]
    /\ DOMAIN slice = Slices
    /\ opened \in {Nothing, Payload}
    /\ outdir \in {"absent", "empty", "partial", "full"}
    /\ outcome \in {"none", "ok", "failed"}

\* What the user gave, whatever the command does with it.
RightCredential ==
    IF made.format = "recipient" THEN command.id = made.id ELSE command.pw = made.pw

\* verify_with_identity drops the password, which only a recipient's archive can
\* do without.
PasswordDropped ==
    command.name = "verify" /\ command.id # NoIdentity /\ made.format # "recipient"

\* Nothing of an archive is believed but under the credential it was made for,
\* however its header was changed: flags, parameters and lengths are not
\* authenticated, only what is derived from them is.
OnlyRightKeyOpens == outcome = "ok" \/ opened # Nothing => RightCredential

\* An archive as pack_custom_container, age or 7z made it opens with its
\* credential, through whichever branch its flags and its extension choose:
\* encoder and decoder agree on every field.  The one exception: `verify` with an
\* identity calls an archive of a password bad, also with that password.
Unchanged ==
    /\ file.tokens = Encode(made.format, made.pw, made.id)
    /\ Uses7z <=> made.format = "7z"
IntactOpens ==
    Unchanged /\ RightCredential =>
        IF PasswordDropped THEN outcome # "ok" ELSE outcome = "failed" => opened = Payload

\* extract puts nothing of an age archive into the directory before the whole
\* archive was decrypted and authenticated (extract_to_dir decrypts to memory).
UnpackedIsOpened ==
    file.extension # "7z" /\ outdir \in {"partial", "full"} => opened = Payload
=============================================================================
