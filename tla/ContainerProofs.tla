-------------------------- MODULE ContainerProofs ---------------------------
(***************************************************************************)
(* Proofs about Container: no damage makes an archive open under another   *)
(* credential than its own, for any number of passwords and identities,    *)
(* ciphertexts of any length and every damage that forges no sealed text;  *)
(* and an intact archive opens under its own.                              *)
(***************************************************************************)
EXTENDS FileFormats, TextProofs

KeyOf(m) == FinalKey(m.format, m.pw, m.id)

\* The tokens of an archive: the payload is sealed with one key only.
Safe(m) ==
    {Magic, Salt, Nonce("wrap"), Nonce("payload")}
        \cup {Flags(fs) : fs \in SUBSET FlagBits}
        \cup {Number(n) : n \in Nat}
        \cup {KemPart(k, i) : k \in {m.id, FreshPair}, i \in Nat}
        \cup {[t |-> f] : f \in {"age", "7z"}}
        \cup {SealedPart(MadeArgonKey(m.pw), <<Nonce("wrap")>>, FreshPair, i) : i \in Nat}
        \cup {SealedPart(KeyOf(m), <<Nonce("payload")>>, Payload, i) : i \in Nat}

Inputs ==
    /\ made \in Makings
    /\ Tokens \in Damaged(Encode(made.format, made.pw, made.id))

\* The credential has come to the function that needs it.
PassedOn ==
    IF made.format = "recipient" THEN command.id = made.id ELSE Password = made.pw

\* What is about to be unpacked was opened, and by its credential; 7z is run on
\* its own files.
OpenedRightly ==
    /\ pc = "unpack" => opened = Payload
    /\ opened # Nothing \/ pc = "unpack" \/ outcome = "ok" => PassedOn
    /\ pc = "7z" => Uses7z

(***************************************************************************)
(* The layout of an archive: which fields it has, how many tokens are      *)
(* before each of them, how many it takes and what it says.                *)
(***************************************************************************)
Own == {"recipient", "mlkem", "argon2"}

FieldsOf(format) ==
    {"memory", "iterations", "parallelism", "salt", "nonce"}
        \cup (IF format # "argon2" THEN {"ct len", "ct"} ELSE {})
        \cup (IF format = "mlkem" THEN {"dk nonce", "dk len", "dk"} ELSE {})

Width(f) == CASE f = "ct" -> CtLen [] f = "dk" -> SealLen [] OTHER -> 1

PayloadAt(format) ==
    CASE format = "argon2" -> 6
      [] format = "recipient" -> 7 + CtLen
      [] OTHER -> 9 + CtLen + SealLen

Place(format, f) ==
    CASE f = "memory" -> 2 [] f = "iterations" -> 3 [] f = "parallelism" -> 4
      [] f = "salt" -> 5
      [] f = "ct len" -> 6 [] f = "ct" -> 7
      [] f = "dk nonce" -> 7 + CtLen [] f = "dk len" -> 8 + CtLen [] f = "dk" -> 9 + CtLen
      [] OTHER -> PayloadAt(format)

Whom(m) == IF m.format = "recipient" THEN m.id ELSE FreshPair

Value(m, f) ==
    CASE f = "memory" -> Params[1] [] f = "iterations" -> Params[2]
      [] f = "parallelism" -> Params[3]
      [] f = "salt" -> <<Salt>>
      [] f = "ct len" -> CtLen [] f = "ct" -> Encapsulated(Whom(m))
      [] f = "dk nonce" -> <<Nonce("wrap")>> [] f = "dk len" -> SealLen
      [] f = "dk" -> Seal(MadeArgonKey(m.pw), <<Nonce("wrap")>>, FreshPair)
      [] OTHER -> <<Nonce("payload")>>

\* The tokens that say it.
Written(m, f) == IF f \in Lengths THEN <<Number(Value(m, f))>> ELSE Value(m, f)

FlagsOf(format) == {"argon2"} \cup ({format} \cap {"recipient", "mlkem"})

(***************************************************************************)
(* The decoder is where the encoder was: the fields still to be read lie   *)
(* one behind the other up to the end of this stage, the cursor is at the  *)
(* first of them, and what lies before the cursor was read as written.     *)
(***************************************************************************)
Stages == {"header", "encapsulated", "wrapped", "payload"}

EndOf(format, stage) ==
    CASE stage = "header" -> 6
      [] stage = "payload" -> PayloadAt(format) + 1
      [] OTHER -> PayloadAt(format)

FieldRead(f) == IF f \in Lengths THEN number[f] ELSE slice[f]

Chain(format, fields, stage) ==
    \A i \in DOMAIN fields :
        /\ fields[i] \in FieldsOf(format)
        /\ Place(format, fields[i]) + Width(fields[i]) =
             IF i = Len(fields) THEN EndOf(format, stage) ELSE Place(format, fields[i + 1])
Ahead ==
    /\ Chain(made.format, plan, pc)
    /\ pos = IF plan = <<>> THEN EndOf(made.format, pc) ELSE Place(made.format, plan[1])
Behind ==
    \A f \in FieldsOf(made.format) :
        Place(made.format, f) < pos => FieldRead(f) = Value(made, f)
InStep == flags = FlagsOf(made.format) /\ Ahead /\ Behind

Intact == Unchanged /\ PassedOn

Agreed ==
    /\ pc \in {"start", "7z", "dispatch", "flags", "unpack"} => plan = <<>>
    /\ pc = "dispatch" => ~Uses7z
    /\ pc = "flags" => made.format \in Own /\ pos = 1
    /\ pc \in Stages => made.format \in Own /\ InStep
    /\ pc = "encapsulated" => made.format = "recipient"
    /\ pc = "wrapped" => made.format = "mlkem"
    /\ outcome = "failed" => opened = Payload

IInv == Inputs /\ TypeOK /\ OpenedRightly /\ UnpackedIsOpened /\ (Intact => Agreed)

-----------------------------------------------------------------------------
(***************************************************************************)
(* Tokens.                                                                 *)
(***************************************************************************)
LEMMA TwoTuples ==
    ASSUME NEW S, NEW a \in S, NEW b \in S
    PROVE  <<a>> \o <<b>> = <<a, b>>
<1>1. <<a>> \in Seq(S) /\ <<b>> \in Seq(S) /\ <<a, b>> \in Seq(S)
    OBVIOUS
<1>2. /\ Len(<<a>> \o <<b>>) = 2 /\ Len(<<a, b>>) = 2 /\ <<a>> \o <<b>> \in Seq(S)
    BY <1>1
<1>3. \A i \in 1 .. 2 : (<<a>> \o <<b>>)[i] = <<a, b>>[i]
    BY <1>1
<1> QED
    BY <1>1, <1>2, <1>3, SeqEqual

LEMMA Tuples ==
    ASSUME NEW S, NEW a \in S, NEW b \in S, NEW c \in S, NEW d \in S, NEW e \in S
    PROVE  /\ <<a, b>> \in Seq(S)
           /\ <<a, b, c, d>> \in Seq(S) /\ <<a, b, c, d, e>> \in Seq(S)
<1>2. <<a, b>> \in Seq(S)
    OBVIOUS
<1>3. <<a, b, c, d>> \in Seq(S)
    OBVIOUS
<1>4. <<a, b, c, d, e>> \in Seq(S)
    OBVIOUS
<1> QED
    BY <1>2, <1>3, <1>4

LEMMA EncapsulatedSafe ==
    ASSUME SizeAssumption, NEW m \in Makings, NEW k \in {m.id, FreshPair}
    PROVE  Encapsulated(k) \in Seq(Safe(m))
<1>1. CtLen \in Nat
    BY DEF SizeAssumption
<1>2. \A i \in 1 .. CtLen : KemPart(k, i) \in Safe(m)
    BY <1>1 DEF Safe
<1> QED
    BY <1>1, <1>2 DEF Encapsulated

LEMMA WrapSafe ==
    ASSUME SizeAssumption, NEW m \in Makings
    PROVE  Seal(MadeArgonKey(m.pw), <<Nonce("wrap")>>, FreshPair) \in Seq(Safe(m))
<1>1. SealLen \in Nat
    BY DEF SizeAssumption
<1>2. \A i \in 1 .. SealLen :
        SealedPart(MadeArgonKey(m.pw), <<Nonce("wrap")>>, FreshPair, i) \in Safe(m)
    BY <1>1 DEF Safe
<1> QED
    BY <1>1, <1>2 DEF Seal

LEMMA PayloadSafe ==
    ASSUME SizeAssumption, NEW m \in Makings
    PROVE  SealedPayload(m.format, m.pw, m.id) \in Seq(Safe(m))
<1>1. SealLen \in Nat
    BY DEF SizeAssumption
<1>2. \A i \in 1 .. SealLen :
        SealedPart(KeyOf(m), <<Nonce("payload")>>, Payload, i) \in Safe(m)
    BY <1>1 DEF Safe
<1>3. Seal(KeyOf(m), <<Nonce("payload")>>, Payload) \in Seq(Safe(m))
    BY <1>1, <1>2 DEF Seal
<1>4. <<Nonce("payload")>> \in Seq(Safe(m))
  <2>1. Nonce("payload") \in Safe(m)
      BY DEF Safe
  <2> QED
      BY <2>1
<1> QED
    BY <1>3, <1>4, Join DEF SealedPayload, KeyOf

LEMMA NumberSafe ==
    ASSUME NEW m \in Makings, NEW n \in Nat
    PROVE  <<Number(n)>> \in Seq(Safe(m))
<1>1. Number(n) \in Safe(m)
    BY DEF Safe
<1> QED
    BY <1>1

LEMMA HeaderSafe ==
    ASSUME NEW m \in Makings, NEW fs \in SUBSET {"mlkem", "recipient"}
    PROVE  Header(fs) \in Seq(Safe(m))
<1>1. /\ Magic \in Safe(m) /\ Salt \in Safe(m)
      /\ Flags({"argon2"} \cup fs) \in Safe(m)
  <2>1. {"argon2"} \cup fs \in SUBSET FlagBits
      BY DEF FlagBits
  <2> QED
      BY <2>1 DEF Safe
<1>2. \A n \in Nat : Number(n) \in Safe(m)
    BY DEF Safe
<1>3. Params[1] \in Nat /\ Params[2] \in Nat /\ Params[3] \in Nat
    BY DEF Params
<1> QED
    BY <1>1, <1>2, <1>3 DEF Header

\* The whole archive.
LEMMA EncodeSafe ==
    ASSUME SizeAssumption, NEW m \in Makings
    PROVE  Encode(m.format, m.pw, m.id) \in Seq(Safe(m))
<1> DEFINE payload == SealedPayload(m.format, m.pw, m.id)
<1>0. payload \in Seq(Safe(m)) /\ CtLen \in Nat /\ SealLen \in Nat
    BY PayloadSafe DEF SizeAssumption
<1>1. CASE m.format = "recipient"
  <2>1. Header({"recipient"}) \in Seq(Safe(m)) /\ <<Number(CtLen)>> \in Seq(Safe(m))
        /\ Encapsulated(m.id) \in Seq(Safe(m))
      BY <1>0, HeaderSafe, NumberSafe, EncapsulatedSafe
  <2>2. Header({"recipient"}) \o <<Number(CtLen)>> \o Encapsulated(m.id) \in Seq(Safe(m))
      BY <2>1, Join
  <2> QED
      BY <1>0, <1>1, <2>2, Join DEF Encode
<1>2. CASE m.format = "mlkem"
  <2> DEFINE wrap == Seal(MadeArgonKey(m.pw), <<Nonce("wrap")>>, FreshPair)
  <2>1. /\ Header({"mlkem"}) \in Seq(Safe(m)) /\ <<Number(CtLen)>> \in Seq(Safe(m))
        /\ Encapsulated(FreshPair) \in Seq(Safe(m)) /\ wrap \in Seq(Safe(m))
      BY <1>0, HeaderSafe, NumberSafe, EncapsulatedSafe, WrapSafe
  <2>2. <<Nonce("wrap"), Number(SealLen)>> \in Seq(Safe(m))
    <3>1. Nonce("wrap") \in Safe(m) /\ Number(SealLen) \in Safe(m)
        BY <1>0 DEF Safe
    <3> QED
        BY <3>1
  <2> HIDE DEF wrap
  <2>3. <<Number(CtLen)>> \o Encapsulated(FreshPair) \in Seq(Safe(m))
      BY <2>1, Join
  <2>4. <<Number(CtLen)>> \o Encapsulated(FreshPair)
            \o <<Nonce("wrap"), Number(SealLen)>> \o wrap \in Seq(Safe(m))
      BY <2>1, <2>2, <2>3, Join
  <2>5. WrapPart(m.pw) \in Seq(Safe(m))
      BY <2>4 DEF WrapPart, wrap
  <2> QED
      BY <1>0, <1>2, <2>1, <2>5, Join DEF Encode
<1>3. CASE m.format = "argon2"
  <2>1. Header({}) \in Seq(Safe(m))
      BY HeaderSafe
  <2> QED
      BY <1>0, <1>3, <2>1, Join DEF Encode
<1>4. CASE m.format \in {"age", "7z"}
  <2>1. <<[t |-> m.format]>> \in Seq(Safe(m))
    <3>1. [t |-> m.format] \in Safe(m)
        BY <1>4 DEF Safe
    <3> QED
        BY <3>1
  <2> QED
      BY <1>0, <1>4, <2>1, Join DEF Encode
<1> QED
    BY <1>1, <1>2, <1>3, <1>4 DEF Makings, Formats

\* A token of the file that seals the payload does so with the archive's key.
LEMMA SealedWithKey ==
    ASSUME Inputs, NEW i \in DOMAIN Tokens,
           NEW k, NEW n, NEW j, Tokens[i] = SealedPart(k, n, Payload, j)
    PROVE  k = KeyOf(made)
<1>1. made \in Makings
    BY DEF Inputs
<1> DEFINE original == Encode(made.format, made.pw, made.id)
<1>2. original \in Seq(Safe(made))
    BY <1>1, EncodeSafe, SizeAssumption
<1>3. Tokens[i].t = "sealed"
    BY DEF SealedPart
<1>4. PICK l \in DOMAIN original : Tokens[i] = original[l]
    BY <1>1, <1>3, DamageAssumption DEF Inputs
<1> HIDE DEF original
<1>5. SealedPart(k, n, Payload, j) \in Safe(made)
    BY <1>2, <1>4
<1>6. /\ SealedPart(k, n, Payload, j).t = "sealed"
      /\ SealedPart(k, n, Payload, j).of = Payload
      /\ SealedPart(k, n, Payload, j).key = k
    BY DEF SealedPart
<1>7. PICK x \in Safe(made) : x.t = "sealed" /\ x.of = Payload /\ x.key = k
    BY <1>5, <1>6
<1>8. x \in {SealedPart(MadeArgonKey(made.pw), <<Nonce("wrap")>>, FreshPair, c) : c \in Nat}
        \cup {SealedPart(KeyOf(made), <<Nonce("payload")>>, Payload, c) : c \in Nat}
    BY <1>7 DEF Safe, Magic, Salt, Nonce, Flags, Number, KemPart
<1>9. x \notin {SealedPart(MadeArgonKey(made.pw), <<Nonce("wrap")>>, FreshPair, c) : c \in Nat}
    BY <1>7, PayloadAssumption DEF SealedPart
<1> QED
    BY <1>7, <1>8, <1>9 DEF SealedPart

\* Text that opens begins with a token of that key.
LEMMA OpenedUnder ==
    ASSUME Inputs, NEW k, NEW n, NEW p \in 0 .. Len(Tokens),
           SubSeq(Tokens, p + 1, Len(Tokens)) = Seal(k, n, Payload)
    PROVE  k = KeyOf(made)
<1> DEFINE S == {Tokens[i] : i \in DOMAIN Tokens}
           rest == SubSeq(Tokens, p + 1, Len(Tokens))
<1>1. Tokens \in Seq(S)
    BY DamageAssumption DEF Inputs, WellFormed
<1>2. SealLen \in Nat \ {0}
    BY SizeAssumption DEF SizeAssumption
<1>3. Seal(k, n, Payload)[1] = SealedPart(k, n, Payload, 1) /\ Len(Seal(k, n, Payload)) = SealLen
    BY <1>2 DEF Seal
<1>4. Len(rest) > 0 /\ rest[1] = SealedPart(k, n, Payload, 1)
    BY <1>2, <1>3
<1>5. p + 1 \in DOMAIN Tokens /\ rest[1] = Tokens[p + 1]
    BY <1>1, <1>4
<1> QED
    BY <1>4, <1>5, SealedWithKey

-----------------------------------------------------------------------------
(***************************************************************************)
(* Layout.                                                                 *)
(***************************************************************************)
LEMMA Sizes ==
    /\ CtLen \in Nat \ {0} /\ SealLen \in Nat \ {0}
    /\ \A format : PayloadAt(format) \in Nat /\ PayloadAt(format) >= 6
<1>1. CtLen \in Nat \ {0} /\ SealLen \in Nat \ {0}
    BY SizeAssumption DEF SizeAssumption
<1>2. ASSUME NEW format PROVE PayloadAt(format) \in {6, 7 + CtLen, 9 + CtLen + SealLen}
    BY DEF PayloadAt
<1> QED
    BY <1>1, <1>2

\* The header of an archive of ramz.
LEMMA HeaderLayout ==
    ASSUME NEW fs
    PROVE  LET h == Header(fs)
           IN  /\ Len(h) = 6 /\ h[1] = Magic /\ h[2] = Flags({"argon2"} \cup fs)
               /\ h[3] = Number(Params[1]) /\ h[4] = Number(Params[2])
               /\ h[5] = Number(Params[3]) /\ h[6] = Salt
    BY DEF Header

\* The payload follows its nonce.
LEMMA PayloadLayout ==
    ASSUME NEW m \in Makings
    PROVE  LET p == SealedPayload(m.format, m.pw, m.id)
               sealed == Seal(KeyOf(m), <<Nonce("payload")>>, Payload)
           IN  /\ p \in Seq(Safe(m)) /\ Len(p) = 1 + SealLen
               /\ <<Nonce("payload")>> \in Seq(Safe(m)) /\ sealed \in Seq(Safe(m))
               /\ Len(sealed) = SealLen
               /\ Has(p, 0, <<Nonce("payload")>>) /\ Has(p, 1, sealed)
<1> DEFINE sealed == Seal(KeyOf(m), <<Nonce("payload")>>, Payload)
           nonce == <<Nonce("payload")>>
<1>1. SealLen \in Nat
    BY SizeAssumption DEF SizeAssumption
<1>2. \A i \in 1 .. SealLen :
        SealedPart(KeyOf(m), <<Nonce("payload")>>, Payload, i) \in Safe(m)
    BY <1>1 DEF Safe
<1>3. sealed \in Seq(Safe(m)) /\ Len(sealed) = SealLen
    BY <1>1, <1>2 DEF Seal
<1>4. nonce \in Seq(Safe(m)) /\ Len(nonce) = 1
  <2>1. Nonce("payload") \in Safe(m)
      BY DEF Safe
  <2> QED
      BY <2>1
<1>5. SealedPayload(m.format, m.pw, m.id) = nonce \o sealed
    BY DEF SealedPayload, KeyOf
<1> HIDE DEF nonce, sealed
<1>6. /\ nonce \o sealed \in Seq(Safe(m)) /\ Len(nonce \o sealed) = 1 + SealLen
      /\ Has(nonce \o sealed, 0, nonce) /\ Has(nonce \o sealed, 1, sealed)
    BY <1>3, <1>4, HasParts
<1> QED
    BY <1>3, <1>4, <1>5, <1>6 DEF nonce, sealed

LEMMA KemLayout ==
    ASSUME NEW m \in Makings, NEW k \in {m.id, FreshPair}
    PROVE  /\ Encapsulated(k) \in Seq(Safe(m)) /\ Len(Encapsulated(k)) = CtLen
           /\ <<Number(CtLen)>> \in Seq(Safe(m)) /\ CtLen \in Nat
<1>1. CtLen \in Nat
    BY SizeAssumption DEF SizeAssumption
<1>2. Len(Encapsulated(k)) = CtLen
    BY <1>1 DEF Encapsulated
<1> QED
    BY <1>1, <1>2, EncapsulatedSafe, NumberSafe, SizeAssumption

\* Where each field of an archive is, and the sealed payload behind the last.
Stands(m, t, f) ==
    /\ Written(m, f) \in Seq(Safe(m)) /\ Len(Written(m, f)) = Width(f)
    /\ Has(t, Place(m.format, f), Written(m, f))
Laid(m, t) ==
    /\ t \in Seq(Safe(m)) /\ Len(t) = PayloadAt(m.format) + 1 + SealLen
    /\ t[1] = Magic /\ t[2] = Flags(FlagsOf(m.format))
    /\ \A f \in FieldsOf(m.format) : Stands(m, t, f)
    /\ LET sealed == Seal(KeyOf(m), <<Nonce("payload")>>, Payload)
       IN  sealed \in Seq(Safe(m)) /\ Len(sealed) = SealLen
           /\ Has(t, PayloadAt(m.format) + 1, sealed)

\* What every archive of ramz has: a header of six tokens in front, its payload
\* at the end.
Framed(m, t) ==
    /\ t \in Seq(Safe(m)) /\ Len(t) = PayloadAt(m.format) + 1 + SealLen
    /\ \E fs : {"argon2"} \cup fs = FlagsOf(m.format) /\ Has(t, 0, Header(fs))
    /\ Has(t, PayloadAt(m.format), SealedPayload(m.format, m.pw, m.id))

LEMMA HeaderOf ==
    ASSUME NEW m \in Makings, NEW t, Framed(m, t)
    PROVE  /\ t[1] = Magic /\ t[2] = Flags(FlagsOf(m.format)) /\ t[3] = Number(Params[1])
           /\ t[4] = Number(Params[2]) /\ t[5] = Number(Params[3]) /\ t[6] = Salt
           /\ 6 <= Len(t) /\ Len(t) \in Nat
<1>1. PICK fs : {"argon2"} \cup fs = FlagsOf(m.format) /\ Has(t, 0, Header(fs))
    BY DEF Framed
<1> DEFINE h == Header(fs)
<1>2. /\ Len(h) = 6 /\ h[1] = Magic /\ h[2] = Flags(FlagsOf(m.format))
      /\ h[3] = Number(Params[1]) /\ h[4] = Number(Params[2])
      /\ h[5] = Number(Params[3]) /\ h[6] = Salt
    BY <1>1, HeaderLayout
<1>3. Has(t, 0, h)
    BY <1>1
<1>4. Len(t) \in Nat
    BY DEF Framed
<1> HIDE DEF h
<1>5. 0 + 6 <= Len(t) /\ \A i \in 1 .. 6 : t[0 + i] = h[i]
    BY <1>2, <1>3 DEF Has
<1>6. 6 <= Len(t) /\ \A i \in 1 .. 6 : t[i] = h[i]
    BY <1>4, <1>5
<1> QED
    BY <1>2, <1>4, <1>6

LEMMA FieldsLayout ==
    ASSUME NEW m \in Makings, NEW t, Framed(m, t)
    PROVE  \A f \in {"memory", "iterations", "parallelism", "salt", "nonce"} : Stands(m, t, f)
<1>1. /\ t[3] = Number(Params[1]) /\ t[4] = Number(Params[2]) /\ t[5] = Number(Params[3])
      /\ t[6] = Salt
      /\ 6 <= Len(t) /\ Len(t) \in Nat
    BY HeaderOf
<1>2. ASSUME NEW f \in {"memory", "iterations", "parallelism"} PROVE Stands(m, t, f)
  <2>1. Written(m, f) = <<Number(Value(m, f))>> /\ Value(m, f) \in Nat /\ Width(f) = 1
      BY <1>2 DEF Written, Value, Params, Lengths, Width
  <2>2. \/ f = "memory" /\ Place(m.format, f) = 2 /\ Value(m, f) = Params[1]
        \/ f = "iterations" /\ Place(m.format, f) = 3 /\ Value(m, f) = Params[2]
        \/ f = "parallelism" /\ Place(m.format, f) = 4 /\ Value(m, f) = Params[3]
      BY <1>2 DEF Place, Value
  <2>3. t[Place(m.format, f) + 1] = Number(Value(m, f)) /\ Place(m.format, f) \in 0 .. 5
      BY <1>1, <2>2
  <2>4. <<Number(Value(m, f))>> \in Seq(Safe(m)) /\ Len(<<Number(Value(m, f))>>) = 1
      BY <2>1, NumberSafe
  <2>5. Place(m.format, f) \in Nat /\ Place(m.format, f) + 1 <= Len(t)
      BY <1>1, <2>3
  <2>6. Has(t, Place(m.format, f), <<Number(Value(m, f))>>)
      BY <1>1, <2>3, <2>5, HasOne
  <2> QED
      BY <2>1, <2>4, <2>6 DEF Stands
<1>3. Stands(m, t, "salt")
  <2>1. Written(m, "salt") = <<Salt>> /\ Width("salt") = 1 /\ Place(m.format, "salt") = 5
      BY DEF Written, Value, Lengths, Width, Place
  <2>2. Salt \in Safe(m)
      BY DEF Safe
  <2>3. <<Salt>> \in Seq(Safe(m)) /\ Len(<<Salt>>) = 1
      BY <2>2
  <2>4. Has(t, 5, <<Salt>>)
    <3>1. 5 + 1 <= Len(t) /\ t[5 + 1] = Salt
        BY <1>1
    <3> QED
        BY <1>1, <3>1, HasOne
  <2> QED
      BY <2>1, <2>3, <2>4 DEF Stands
<1>4. Stands(m, t, "nonce")
  <2>1. /\ Written(m, "nonce") = <<Nonce("payload")>> /\ Width("nonce") = 1
        /\ Place(m.format, "nonce") = PayloadAt(m.format)
      BY DEF Written, Value, Lengths, Width, Place
  <2>2. <<Nonce("payload")>> \in Seq(Safe(m)) /\ Len(<<Nonce("payload")>>) = 1
      BY PayloadLayout
  <2>3. Has(t, PayloadAt(m.format) + 0, <<Nonce("payload")>>)
      BY Sizes, PayloadLayout, HasWithin DEF Framed
  <2>4. PayloadAt(m.format) + 0 = PayloadAt(m.format)
      BY Sizes
  <2> QED
      BY <2>1, <2>2, <2>3, <2>4 DEF Stands
<1> QED
    BY <1>2, <1>3, <1>4

LEMMA CommonLayout ==
    ASSUME NEW m \in Makings, NEW t, Framed(m, t),
           \A f \in FieldsOf(m.format) \cap {"ct len", "ct", "dk nonce", "dk len", "dk"} :
               Stands(m, t, f)
    PROVE  Laid(m, t)
<1>1. ASSUME NEW f \in FieldsOf(m.format) PROVE Stands(m, t, f)
  <2>1. \/ f \in {"memory", "iterations", "parallelism", "salt", "nonce"}
        \/ f \in {"ct len", "ct", "dk nonce", "dk len", "dk"}
      BY DEF FieldsOf
  <2> QED
      BY <2>1, FieldsLayout
<1> DEFINE sealed == Seal(KeyOf(m), <<Nonce("payload")>>, Payload)
<1>2. sealed \in Seq(Safe(m)) /\ Len(sealed) = SealLen
    BY PayloadLayout
<1>3. Has(t, PayloadAt(m.format) + 1, sealed)
    BY Sizes, PayloadLayout, HasWithin DEF Framed
<1>4. t[1] = Magic /\ t[2] = Flags(FlagsOf(m.format))
    BY HeaderOf
<1> QED
    BY <1>1, <1>2, <1>3, <1>4 DEF Laid, Framed

\* Header, length, ciphertext and payload.
LEMMA RecipientLayout ==
    ASSUME NEW m \in Makings, m.format = "recipient"
    PROVE  Laid(m, Encode(m.format, m.pw, m.id))
<1> DEFINE h == Header({"recipient"})
           n == <<Number(CtLen)>>
           c == Encapsulated(m.id)
           p == SealedPayload(m.format, m.pw, m.id)
           t == h \o n \o c \o p
<1>1. h \in Seq(Safe(m)) /\ Len(h) = 6
    BY HeaderSafe, HeaderLayout
<1>2. n \in Seq(Safe(m)) /\ Len(n) = 1 /\ c \in Seq(Safe(m)) /\ Len(c) = CtLen
    BY KemLayout
<1>3. p \in Seq(Safe(m)) /\ Len(p) = 1 + SealLen
    BY PayloadLayout
<1>4. Encode(m.format, m.pw, m.id) = t
    BY DEF Encode
<1>5. PayloadAt(m.format) = 7 + CtLen
    BY DEF PayloadAt
<1>6. {"argon2"} \cup {"recipient"} = FlagsOf(m.format)
    BY DEF FlagsOf
<1> HIDE DEF h, n, c, p
<1>7. /\ t \in Seq(Safe(m)) /\ Len(t) = Len(h) + Len(n) + Len(c) + Len(p)
      /\ Has(t, 0, h) /\ Has(t, Len(h), n) /\ Has(t, Len(h) + Len(n), c)
      /\ Has(t, Len(h) + Len(n) + Len(c), p)
    BY <1>1, <1>2, <1>3, FourParts
<1> HIDE DEF t
<1>8. /\ Len(t) = PayloadAt(m.format) + 1 + SealLen
      /\ Has(t, 6, n) /\ Has(t, 7, c) /\ Has(t, PayloadAt(m.format), p)
  <2>1. 6 + 1 = 7 /\ 6 + 1 + CtLen = PayloadAt(m.format)
      BY <1>5, Sizes
  <2>2. 6 + 1 + CtLen + (1 + SealLen) = PayloadAt(m.format) + 1 + SealLen
      BY <1>5, Sizes
  <2> QED
      BY <1>1, <1>2, <1>3, <1>7, <2>1, <2>2
<1>9. Framed(m, t)
    BY <1>6, <1>7, <1>8 DEF Framed, h, p
<1>10. Stands(m, t, "ct len") /\ Stands(m, t, "ct")
  <2>1. Written(m, "ct len") = n /\ Width("ct len") = 1 /\ Place(m.format, "ct len") = 6
      BY DEF Written, Value, Lengths, Width, Place, n
  <2>2. Written(m, "ct") = c /\ Width("ct") = CtLen /\ Place(m.format, "ct") = 7
      BY DEF Written, Value, Lengths, Width, Place, Whom, c
  <2> QED
      BY <1>2, <1>8, <2>1, <2>2 DEF Stands
<1>11. FieldsOf(m.format) \cap {"ct len", "ct", "dk nonce", "dk len", "dk"} = {"ct len", "ct"}
    BY DEF FieldsOf
<1> QED
    BY <1>4, <1>9, <1>10, <1>11, CommonLayout

\* The header goes straight over into the payload.
LEMMA Argon2Layout ==
    ASSUME NEW m \in Makings, m.format = "argon2"
    PROVE  Laid(m, Encode(m.format, m.pw, m.id))
<1> DEFINE h == Header({})
           p == SealedPayload(m.format, m.pw, m.id)
           t == h \o p
<1>1. h \in Seq(Safe(m)) /\ Len(h) = 6
    BY HeaderSafe, HeaderLayout
<1>2. p \in Seq(Safe(m)) /\ Len(p) = 1 + SealLen
    BY PayloadLayout
<1>3. Encode(m.format, m.pw, m.id) = t
    BY DEF Encode
<1>4. PayloadAt(m.format) = 6
    BY DEF PayloadAt
<1>5. {"argon2"} \cup {} = FlagsOf(m.format)
    BY DEF FlagsOf
<1> HIDE DEF h, p
<1>6. /\ t \in Seq(Safe(m)) /\ Len(t) = Len(h) + Len(p)
      /\ Has(t, 0, h) /\ Has(t, Len(h), p)
    BY <1>1, <1>2, HasParts
<1> HIDE DEF t
<1>7. Len(t) = PayloadAt(m.format) + 1 + SealLen /\ Has(t, PayloadAt(m.format), p)
    BY <1>1, <1>2, <1>4, <1>6, Sizes
<1>8. Framed(m, t)
    BY <1>5, <1>6, <1>7 DEF Framed, h, p
<1>9. FieldsOf(m.format) \cap {"ct len", "ct", "dk nonce", "dk len", "dk"} = {}
    BY DEF FieldsOf
<1> QED
    BY <1>3, <1>8, <1>9, CommonLayout

\* The wrapped decapsulation key of an --mlkem archive.
LEMMA WrapLayout ==
    ASSUME NEW m \in Makings
    PROVE  LET w == WrapPart(m.pw)
               k == Seal(MadeArgonKey(m.pw), <<Nonce("wrap")>>, FreshPair)
           IN  /\ w \in Seq(Safe(m)) /\ Len(w) = 3 + CtLen + SealLen
               /\ <<Nonce("wrap")>> \in Seq(Safe(m)) /\ <<Number(SealLen)>> \in Seq(Safe(m))
               /\ k \in Seq(Safe(m)) /\ Len(k) = SealLen
               /\ Has(w, 0, <<Number(CtLen)>>) /\ Has(w, 1, Encapsulated(FreshPair))
               /\ Has(w, 1 + CtLen, <<Nonce("wrap")>>)
               /\ Has(w, 2 + CtLen, <<Number(SealLen)>>)
               /\ Has(w, 3 + CtLen, k)
<1> DEFINE n == <<Number(CtLen)>>
           c == Encapsulated(FreshPair)
           x == <<Nonce("wrap"), Number(SealLen)>>
           k == Seal(MadeArgonKey(m.pw), <<Nonce("wrap")>>, FreshPair)
           w == n \o c \o x \o k
<1>1. n \in Seq(Safe(m)) /\ Len(n) = 1 /\ c \in Seq(Safe(m)) /\ Len(c) = CtLen
    BY KemLayout
<1>2. Nonce("wrap") \in Safe(m) /\ Number(SealLen) \in Safe(m)
    BY Sizes DEF Safe
<1>3. /\ x \in Seq(Safe(m)) /\ Len(x) = 2 /\ x[1] = Nonce("wrap") /\ x[2] = Number(SealLen)
      /\ <<Nonce("wrap")>> \in Seq(Safe(m)) /\ <<Number(SealLen)>> \in Seq(Safe(m))
    BY <1>2, Tuples, OneTuple
<1>4. Has(x, 0, <<Nonce("wrap")>>) /\ Has(x, 1, <<Number(SealLen)>>)
  <2>1. 0 + 1 <= Len(x) /\ 1 + 1 <= Len(x) /\ x[0 + 1] = x[1] /\ x[1 + 1] = x[2]
      BY <1>3
  <2> QED
      BY <1>3, <2>1, HasOne
<1>5. k \in Seq(Safe(m)) /\ Len(k) = SealLen
  <2>1. Len(k) = SealLen
      BY Sizes DEF Seal
  <2> QED
      BY <2>1, WrapSafe, SizeAssumption
<1>6. WrapPart(m.pw) = w
    BY DEF WrapPart
<1> HIDE DEF n, c, x, k
<1>7. /\ w \in Seq(Safe(m)) /\ Len(w) = Len(n) + Len(c) + Len(x) + Len(k)
      /\ Has(w, 0, n) /\ Has(w, Len(n), c) /\ Has(w, Len(n) + Len(c), x)
      /\ Has(w, Len(n) + Len(c) + Len(x), k)
    BY <1>1, <1>3, <1>5, FourParts
<1> HIDE DEF w
<1>8. /\ Len(w) = 3 + CtLen + SealLen /\ Has(w, 1, c)
      /\ Has(w, 1 + CtLen, x) /\ Has(w, 3 + CtLen, k)
  <2>1. 1 + CtLen + 2 = 3 + CtLen /\ 1 + CtLen + 2 + SealLen = 3 + CtLen + SealLen
      BY Sizes
  <2> QED
      BY <1>1, <1>3, <1>5, <1>7, <2>1
<1>9. Has(w, (1 + CtLen) + 0, <<Nonce("wrap")>>) /\ Has(w, (1 + CtLen) + 1, <<Number(SealLen)>>)
  <2>1. 1 + CtLen \in Nat
      BY Sizes
  <2> QED
      BY <1>3, <1>4, <1>7, <1>8, <2>1, HasWithin
<1>10. (1 + CtLen) + 0 = 1 + CtLen /\ (1 + CtLen) + 1 = 2 + CtLen
    BY Sizes
<1> QED
    BY <1>3, <1>5, <1>6, <1>7, <1>8, <1>9, <1>10 DEF n, c, k

\* Header, wrapped key and payload.
LEMMA MlkemLayout ==
    ASSUME NEW m \in Makings, m.format = "mlkem"
    PROVE  Laid(m, Encode(m.format, m.pw, m.id))
<1> DEFINE h == Header({"mlkem"})
           w == WrapPart(m.pw)
           p == SealedPayload(m.format, m.pw, m.id)
           t == h \o w \o p
           k == Seal(MadeArgonKey(m.pw), <<Nonce("wrap")>>, FreshPair)
<1>1. h \in Seq(Safe(m)) /\ Len(h) = 6
    BY HeaderSafe, HeaderLayout
<1>2. /\ w \in Seq(Safe(m)) /\ Len(w) = 3 + CtLen + SealLen
      /\ k \in Seq(Safe(m)) /\ Len(k) = SealLen
      /\ Has(w, 0, <<Number(CtLen)>>) /\ Has(w, 1, Encapsulated(FreshPair))
      /\ Has(w, 1 + CtLen, <<Nonce("wrap")>>) /\ Has(w, 2 + CtLen, <<Number(SealLen)>>)
      /\ Has(w, 3 + CtLen, k)
      /\ <<Nonce("wrap")>> \in Seq(Safe(m)) /\ <<Number(SealLen)>> \in Seq(Safe(m))
    BY WrapLayout
<1>3. p \in Seq(Safe(m)) /\ Len(p) = 1 + SealLen
    BY PayloadLayout
<1>4. Encode(m.format, m.pw, m.id) = t
    BY DEF Encode
<1>5. PayloadAt(m.format) = 9 + CtLen + SealLen
    BY DEF PayloadAt
<1>6. {"argon2"} \cup {"mlkem"} = FlagsOf(m.format)
    BY DEF FlagsOf
<1>7. /\ <<Number(CtLen)>> \in Seq(Safe(m)) /\ Encapsulated(FreshPair) \in Seq(Safe(m))
      /\ Len(Encapsulated(FreshPair)) = CtLen
    BY KemLayout
<1> HIDE DEF h, w, p, k
<1>8. h \o w \in Seq(Safe(m)) /\ Len(h \o w) = 6 + Len(w) /\ Has(h \o w, 0, h) /\ Has(h \o w, 6, w)
    BY <1>1, <1>2, HasParts
<1>9. /\ t \in Seq(Safe(m)) /\ Len(t) = Len(h \o w) + Len(p)
      /\ Has(t, 0, h \o w) /\ Has(t, Len(h \o w), p)
    BY <1>3, <1>8, HasParts
<1> HIDE DEF t
<1>10. Has(t, 0 + 0, h) /\ Has(t, 0 + 6, w)
    BY <1>1, <1>2, <1>8, <1>9, HasWithin
<1>11. /\ Len(t) = PayloadAt(m.format) + 1 + SealLen
       /\ Has(t, 0, h) /\ Has(t, 6, w) /\ Has(t, PayloadAt(m.format), p)
  <2>1. /\ 6 + (3 + CtLen + SealLen) = PayloadAt(m.format)
        /\ PayloadAt(m.format) + (1 + SealLen) = PayloadAt(m.format) + 1 + SealLen
      BY <1>5, Sizes
  <2> QED
      BY <1>2, <1>3, <1>8, <1>9, <1>10, <2>1
<1>12. Framed(m, t)
    BY <1>6, <1>9, <1>11 DEF Framed, h, p
<1>13. /\ Has(t, 6 + 0, <<Number(CtLen)>>) /\ Has(t, 6 + 1, Encapsulated(FreshPair))
       /\ Has(t, 6 + (1 + CtLen), <<Nonce("wrap")>>)
       /\ Has(t, 6 + (2 + CtLen), <<Number(SealLen)>>)
       /\ Has(t, 6 + (3 + CtLen), k)
  <2>1. 1 + CtLen \in Nat /\ 2 + CtLen \in Nat /\ 3 + CtLen \in Nat
      BY Sizes
  <2> QED
      BY <1>2, <1>7, <1>9, <1>11, <2>1, HasWithin
<1>14. /\ 6 + (1 + CtLen) = 7 + CtLen /\ 6 + (2 + CtLen) = 8 + CtLen
       /\ 6 + (3 + CtLen) = 9 + CtLen /\ 6 + 0 = 6 /\ 6 + 1 = 7
    BY Sizes
<1>15. Stands(m, t, "ct len") /\ Stands(m, t, "dk len")
  <2>1. Written(m, "ct len") = <<Number(CtLen)>> /\ Width("ct len") = 1
        /\ Place(m.format, "ct len") = 6
      BY DEF Written, Value, Lengths, Width, Place
  <2>2. Written(m, "dk len") = <<Number(SealLen)>> /\ Width("dk len") = 1
        /\ Place(m.format, "dk len") = 8 + CtLen
      BY DEF Written, Value, Lengths, Width, Place
  <2>3. \A e : Len(<<e>>) = 1
      OBVIOUS
  <2> QED
      BY <1>2, <1>7, <1>13, <1>14, <2>1, <2>2, <2>3 DEF Stands
<1>16. Stands(m, t, "ct") /\ Stands(m, t, "dk nonce") /\ Stands(m, t, "dk")
  <2>1. Written(m, "ct") = Encapsulated(FreshPair) /\ Width("ct") = CtLen
        /\ Place(m.format, "ct") = 7
      BY DEF Written, Value, Lengths, Width, Place, Whom
  <2>2. Written(m, "dk nonce") = <<Nonce("wrap")>> /\ Width("dk nonce") = 1
        /\ Place(m.format, "dk nonce") = 7 + CtLen
      BY DEF Written, Value, Lengths, Width, Place
  <2>3. Written(m, "dk") = k /\ Width("dk") = SealLen /\ Place(m.format, "dk") = 9 + CtLen
      BY DEF Written, Value, Lengths, Width, Place, k
  <2>4. \A e : Len(<<e>>) = 1
      OBVIOUS
  <2> QED
      BY <1>2, <1>7, <1>13, <1>14, <2>1, <2>2, <2>3, <2>4 DEF Stands
<1> QED
    BY <1>4, <1>12, <1>15, <1>16, CommonLayout

-----------------------------------------------------------------------------
(***************************************************************************)
(* Steps.                                                                  *)
(***************************************************************************)
LEMMA InitInv == Init => IInv
<1> SUFFICES ASSUME Init PROVE IInv
    OBVIOUS
<1>1. Inputs
    BY DEF Init, Inputs, Tokens
<1>2. pos \in 0 .. Len(Tokens)
  <2>1. Tokens \in Seq({Tokens[i] : i \in DOMAIN Tokens})
      BY <1>1, DamageAssumption DEF Inputs, WellFormed
  <2> QED
      BY <2>1 DEF Init
<1>3. TypeOK
    BY <1>2 DEF Init, TypeOK
<1>4. OpenedRightly /\ UnpackedIsOpened
    BY DEF Init, OpenedRightly, UnpackedIsOpened
<1>5. Agreed
    BY DEF Init, Agreed, Stages
<1> QED
    BY <1>1, <1>3, <1>4, <1>5 DEF IInv

\* The inputs stay, and so does what is said of them.
LEMMA InputsStay ==
    ASSUME UNCHANGED inputs
    PROVE  /\ Inputs' <=> Inputs
           /\ PassedOn' <=> PassedOn
           /\ Uses7z' <=> Uses7z
           /\ Tokens' = Tokens
           /\ (file.extension)' = file.extension
           /\ Intact' <=> Intact
    BY DEF inputs, Inputs, PassedOn, Uses7z, Tokens, Password, Intact, Unchanged

LEMMA NextInputs == [Next]_vars => UNCHANGED inputs
    BY DEF Next, Start, Run7z, Dispatch, ReadFlags, Read, Branch, Decapsulate, OpenPayload,
           Unpack, vars

LEMMA ReadType ==
    ASSUME Inputs, TypeOK, Read
    PROVE  TypeOK'
<1> DEFINE f == Head(plan)
           end == pos + WidthOf(f)
<1>1. f \in Lengths \cup Slices /\ Tail(plan) \in Seq(Lengths \cup Slices)
    BY DEF TypeOK, Read
<1>2. WidthOf(f) \in Nat /\ (f \in Lengths => WidthOf(f) = 1)
    BY <1>1 DEF WidthOf, TypeOK, Lengths, Slices
<1>3. UNCHANGED inputs /\ Tokens' = Tokens
    BY InputsStay DEF Read
<1>4. CASE ~InFile(end)
  <2>1. pc' = "end" /\ outcome' = "failed" /\ UNCHANGED <<cursor, opened, outdir>>
      BY <1>4 DEF Read, Return
  <2> HIDE DEF end
  <2> QED
      BY <1>3, <2>1 DEF TypeOK, cursor, inputs
<1>5. CASE InFile(end)
  <2>1. pos' = end /\ plan' = Tail(plan) /\ UNCHANGED <<flags, pc, outcome, opened, outdir>>
      BY <1>5 DEF Read
  <2>2. pos' \in 0 .. Len(Tokens)
      BY <1>2, <1>5, <2>1 DEF InFile, TypeOK
  <2>3. number' \in [Lengths -> Nat] /\ DOMAIN slice' = Slices
    <3>1. CASE f \in Lengths
      <4>1. pos + 1 \in DOMAIN Tokens
        <5>1. Tokens \in Seq({Tokens[i] : i \in DOMAIN Tokens})
            BY DamageAssumption DEF Inputs, WellFormed
        <5> QED
            BY <5>1, <1>2, <1>5, <3>1 DEF InFile, TypeOK
      <4>2. NumbersIn(Tokens[pos + 1]) \subseteq Nat
          BY <4>1, DamageAssumption, SizeAssumption
             DEF Inputs, WellFormed, NumbersIn, SizeAssumption
      <4>3. PICK n \in NumbersIn(Tokens[pos + 1]) : number' = [number EXCEPT ![f] = n]
          BY <1>5, <3>1 DEF Read
      <4>4. slice' = slice
          BY <1>5, <3>1 DEF Read
      <4> QED
          BY <4>2, <4>3, <4>4 DEF TypeOK
    <3>2. CASE f \notin Lengths
      <4>1. number' = number /\ DOMAIN slice' = DOMAIN slice
          BY <1>5, <3>2 DEF Read
      <4> QED
          BY <4>1 DEF TypeOK
    <3> QED
        BY <3>1, <3>2
  <2> HIDE DEF end, f
  <2> QED
      BY <1>1, <1>3, <2>1, <2>2, <2>3 DEF TypeOK, f, inputs
<1> QED
    BY <1>4, <1>5

\* The plans of the decoder are made of fields.
LEMMA Plans ==
    LET fields == Seq(Lengths \cup Slices)
    IN  /\ <<"memory", "iterations", "parallelism", "salt">> \in fields
        /\ <<"ct len", "ct">> \in fields
        /\ <<"ct len", "ct", "dk nonce", "dk len", "dk">> \in fields
        /\ <<"nonce">> \in fields
<1> DEFINE F == Lengths \cup Slices
<1>1. /\ "memory" \in F /\ "iterations" \in F /\ "parallelism" \in F /\ "salt" \in F
      /\ "ct len" \in F /\ "ct" \in F /\ "dk nonce" \in F /\ "dk len" \in F
      /\ "dk" \in F /\ "nonce" \in F
    BY DEF Lengths, Slices
<1> HIDE DEF F
<1>2. <<"memory", "iterations", "parallelism", "salt">> \in Seq(F)
    BY <1>1, Tuples
<1>3. <<"ct len", "ct">> \in Seq(F)
    BY <1>1, Tuples
<1>4. <<"ct len", "ct", "dk nonce", "dk len", "dk">> \in Seq(F)
    BY <1>1, Tuples
<1>5. <<"nonce">> \in Seq(F)
    BY <1>1, OneTuple
<1> QED
    BY <1>2, <1>3, <1>4, <1>5 DEF F

LEMMA StepType == IInv /\ [Next]_vars => TypeOK'
<1> SUFFICES ASSUME IInv, [Next]_vars PROVE TypeOK'
    OBVIOUS
<1>1. UNCHANGED inputs /\ Tokens' = Tokens /\ made' = made
    BY NextInputs, InputsStay DEF inputs
<1>2. TypeOK /\ Inputs
    BY DEF IInv
<1> USE <1>1, <1>2 DEF TypeOK, Return, Goto
<1>3. CASE Start
    BY <1>3 DEF Start, cursor
<1>4. CASE Run7z
    BY <1>4 DEF Run7z, cursor
<1>5. CASE Dispatch
  <2>1. pos' \in 0 .. Len(Tokens)
    <3>1. CASE pos' = pos
        BY <3>1
    <3>2. CASE pos' # pos
      <4>1. pos' = 1 /\ Tokens # <<>>
          BY <1>5, <3>2 DEF Dispatch, AfterMagic
      <4>2. Tokens \in Seq({Tokens[i] : i \in DOMAIN Tokens})
          BY DamageAssumption DEF Inputs, WellFormed
      <4> QED
          BY <4>1, <4>2
    <3> QED
        BY <3>1, <3>2
  <2> QED
      BY <1>5, <2>1 DEF Dispatch
<1>6. CASE ReadFlags
  <2>1. CASE pos < Len(Tokens)
    <3>1. Tokens \in Seq({Tokens[i] : i \in DOMAIN Tokens})
        BY DamageAssumption DEF Inputs, WellFormed
    <3>2. pos + 1 \in DOMAIN Tokens /\ pos + 1 \in 0 .. Len(Tokens)
        BY <2>1, <3>1
    <3>3. \A fs \in FlagsIn(Tokens[pos + 1]) : fs \subseteq FlagBits
      <4>1. Tokens[pos + 1].t = "flags" => Tokens[pos + 1].fs \subseteq FlagBits
          BY <3>2, DamageAssumption DEF Inputs, WellFormed
      <4> QED
          BY <4>1 DEF FlagsIn
    <3> QED
        BY <1>6, <2>1, <3>2, <3>3, Plans DEF ReadFlags
  <2>2. CASE ~(pos < Len(Tokens))
      BY <1>6, <2>2 DEF ReadFlags
  <2> QED
      BY <2>1, <2>2
<1>7. CASE Read
    BY <1>7, ReadType
<1>8. CASE Branch
    BY <1>8, Plans DEF Branch
<1>9. CASE Decapsulate
    BY <1>9, Plans DEF Decapsulate
<1>10. CASE OpenPayload
    BY <1>10 DEF OpenPayload, cursor
<1>11. CASE Unpack
    BY <1>11 DEF Unpack, cursor
<1>12. CASE UNCHANGED vars
    BY <1>12 DEF vars, cursor
<1> QED
    BY <1>3, <1>4, <1>5, <1>6, <1>7, <1>8, <1>9, <1>10, <1>11, <1>12 DEF Next

\* What the age format and 7z open was sealed under the password given.
LEMMA OpenedByPassword ==
    ASSUME Inputs, NEW f \in {"age", "7z"}, NEW p, OpensWith(f, p),
           f = "7z" => Uses7z, p = Password
    PROVE  PassedOn
<1>1. Tokens = <<[t |-> f], Nonce("payload")>>
                   \o Seal(PassphraseKey(p), <<Nonce("payload")>>, Payload)
    BY DEF OpensWith
<1> DEFINE sealed == Seal(PassphraseKey(p), <<Nonce("payload")>>, Payload)
           front == <<[t |-> f], Nonce("payload")>>
<1>2. SealLen \in Nat \ {0}
    BY SizeAssumption DEF SizeAssumption
<1>3. sealed[1] = SealedPart(PassphraseKey(p), <<Nonce("payload")>>, Payload, 1)
      /\ Len(sealed) = SealLen /\ DOMAIN sealed = 1 .. SealLen
    BY <1>2 DEF Seal
<1>4. 3 \in DOMAIN Tokens /\ Tokens[3] = sealed[1]
  <2>1. sealed \in Seq({sealed[i] : i \in 1 .. SealLen})
      BY <1>2 DEF Seal
  <2> HIDE DEF sealed
  <2> QED
      BY <1>1, <1>2, <1>3, <2>1 DEF sealed
<1>5. PassphraseKey(p) = KeyOf(made)
    BY <1>3, <1>4, SealedWithKey
<1>6. made.format \in {"age", "7z"} /\ made.pw = p
    BY <1>5 DEF Inputs, Makings, Formats, KeyOf, FinalKey, PassphraseKey, SharedSecret,
       Combined, MadeArgonKey, ArgonKey
<1> QED
    BY <1>6 DEF PassedOn

\* What decrypt_custom_container opens was sealed under a key that only the
\* right credential yields.
LEMMA OpenedByKey ==
    ASSUME Inputs, TypeOK, PayloadOpens
    PROVE  PassedOn
<1>1. KeyRead = KeyOf(made)
    BY OpenedUnder DEF PayloadOpens, Rest, TypeOK
<1>2. made.format \in Formats
    BY DEF Inputs, Makings
<1>3. CASE made.format = "recipient"
  <2>1. KeyRead = SharedSecret(made.id, Encapsulated(made.id))
      BY <1>1, <1>3 DEF KeyOf, FinalKey
  <2>2. command.id = made.id
      BY <2>1 DEF KeyRead, SharedSecret, Combined, DerivedKey, ArgonKey
  <2> QED
      BY <1>3, <2>2 DEF PassedOn
<1>4. CASE made.format = "mlkem"
  <2>1. KeyRead = Combined(MadeArgonKey(made.pw),
                           SharedSecret(FreshPair, Encapsulated(FreshPair)))
      BY <1>1, <1>4 DEF KeyOf, FinalKey
  <2>2. DerivedKey = MadeArgonKey(made.pw)
      BY <2>1 DEF KeyRead, SharedSecret, Combined, DerivedKey, ArgonKey
  <2>3. Password = made.pw
      BY <2>2 DEF DerivedKey, MadeArgonKey, ArgonKey
  <2> QED
      BY <1>4, <2>3 DEF PassedOn
<1>5. CASE made.format = "argon2"
  <2>1. KeyRead = MadeArgonKey(made.pw)
      BY <1>1, <1>5 DEF KeyOf, FinalKey
  <2>2. Password = made.pw
      BY <2>1 DEF KeyRead, SharedSecret, Combined, DerivedKey, MadeArgonKey, ArgonKey
  <2> QED
      BY <1>5, <2>2 DEF PassedOn
<1>6. CASE made.format \in {"age", "7z"}
  <2>1. KeyRead = PassphraseKey(made.pw)
      BY <1>1, <1>6 DEF KeyOf, FinalKey
  <2> QED
      BY <2>1 DEF KeyRead, SharedSecret, Combined, DerivedKey, ArgonKey, PassphraseKey
<1> QED
    BY <1>2, <1>3, <1>4, <1>5, <1>6 DEF Formats

LEMMA StepOpened == IInv /\ [Next]_vars => OpenedRightly' /\ UnpackedIsOpened'
<1> SUFFICES ASSUME IInv, [Next]_vars PROVE OpenedRightly' /\ UnpackedIsOpened'
    OBVIOUS
<1>1. /\ UNCHANGED inputs
      /\ PassedOn' <=> PassedOn
      /\ Uses7z' <=> Uses7z
      /\ (file.extension)' = file.extension
    BY NextInputs, InputsStay
<1>2. TypeOK /\ Inputs /\ OpenedRightly /\ UnpackedIsOpened
    BY DEF IInv
<1> USE <1>1, <1>2 DEF OpenedRightly, UnpackedIsOpened, Return, Goto
<1>3. CASE Start
    BY <1>3 DEF Start
<1>4. CASE Run7z
  <2>1. OpensWith("7z", command.pw) => PassedOn
      BY <1>4, OpenedByPassword DEF Run7z, Uses7z, Password
  <2>2. file.extension = "7z"
      BY <1>4 DEF Run7z, Uses7z
  <2> QED
      BY <1>4, <2>1, <2>2 DEF Run7z
<1>5. CASE Dispatch
  <2>1. OpensWith("age", Password) => PassedOn
      BY OpenedByPassword
  <2> QED
      BY <1>5, <2>1 DEF Dispatch
<1>6. CASE ReadFlags
    BY <1>6 DEF ReadFlags
<1>7. CASE Read
    BY <1>7 DEF Read, cursor
<1>8. CASE Branch
    BY <1>8 DEF Branch
<1>9. CASE Decapsulate
    BY <1>9 DEF Decapsulate
<1>10. CASE OpenPayload
    BY <1>10, OpenedByKey DEF OpenPayload
<1>11. CASE Unpack
    BY <1>11 DEF Unpack
<1>12. CASE UNCHANGED vars
    BY <1>12 DEF vars
<1> QED
    BY <1>3, <1>4, <1>5, <1>6, <1>7, <1>8, <1>9, <1>10, <1>11, <1>12 DEF Next

-----------------------------------------------------------------------------
(***************************************************************************)
(* Reading an intact archive.                                              *)
(***************************************************************************)
LEMMA LaidOut ==
    ASSUME Inputs, Unchanged, made.format \in Own
    PROVE  Laid(made, Tokens)
<1>1. made \in Makings /\ Tokens = Encode(made.format, made.pw, made.id)
    BY DEF Inputs, Unchanged, Tokens
<1> QED
    BY <1>1, RecipientLayout, MlkemLayout, Argon2Layout DEF Own

LEMMA FileFitsMemory ==
    ASSUME Inputs, Unchanged
    PROVE  Len(Tokens) <= UsizeMax
    BY MemoryAssumption DEF Inputs, Unchanged, Tokens

\* No field begins inside another one.
LEMMA FieldsApart ==
    ASSUME NEW format \in Own, NEW f \in FieldsOf(format), NEW g \in FieldsOf(format),
           Place(format, f) <= Place(format, g),
           Place(format, g) < Place(format, f) + Width(f)
    PROVE  f = g
<1>1. CtLen \in Nat \ {0} /\ SealLen \in Nat \ {0}
    BY Sizes
<1> DEFINE order == <<"memory", "iterations", "parallelism", "salt", "ct len", "ct",
                      "dk nonce", "dk len", "dk", "nonce">>
           at(i) == Place(format, order[i])
           width(i) == Width(order[i])
<1>0. /\ order[1] = "memory" /\ order[2] = "iterations" /\ order[3] = "parallelism"
      /\ order[4] = "salt" /\ order[5] = "ct len" /\ order[6] = "ct"
      /\ order[7] = "dk nonce" /\ order[8] = "dk len" /\ order[9] = "dk"
      /\ order[10] = "nonce"
    OBVIOUS
<1>2. \A h \in FieldsOf(format) : \E i \in 1 .. 10 : h = order[i]
  <2> HIDE DEF order
  <2>1. \A h \in FieldsOf(format) : h \in {order[1], order[2], order[3], order[4], order[5],
                                          order[6], order[7], order[8], order[9], order[10]}
      BY <1>0 DEF FieldsOf
  <2> QED
      BY <2>1
<1>3. /\ at(1) = 2 /\ at(2) = 3 /\ at(3) = 4 /\ at(4) = 5
      /\ width(1) = 1 /\ width(2) = 1 /\ width(3) = 1 /\ width(4) = 1 /\ width(10) = 1
    BY DEF Place, Width
<1>4. PICK i \in 1 .. 10, j \in 1 .. 10 : f = order[i] /\ g = order[j]
    BY <1>2
<1>5. at(i) <= at(j) /\ at(j) < at(i) + width(i)
    BY <1>4
<1>6. CASE format = "argon2"
  <2>1. at(10) = 6
      BY <1>6 DEF Place, PayloadAt
  <2>2. \A k \in 1 .. 10 : order[k] \in FieldsOf(format) => k \in {1, 2, 3, 4, 10}
    <3>1. FieldsOf(format) = {"memory", "iterations", "parallelism", "salt", "nonce"}
        BY <1>6 DEF FieldsOf
    <3>2. \A k \in 5 .. 9 : k = 5 \/ k = 6 \/ k = 7 \/ k = 8 \/ k = 9
        OBVIOUS
    <3> HIDE DEF order
    <3>3. \A k \in 5 .. 9 : order[k] \notin FieldsOf(format)
        BY <1>0, <3>1, <3>2
    <3> QED
        BY <3>3
  <2>3. i \in {1, 2, 3, 4, 10} /\ j \in {1, 2, 3, 4, 10}
      BY <1>4, <2>2
  <2> HIDE DEF at, width, order
  <2>4. i = j
      BY <1>3, <1>5, <2>1, <2>3
  <2> QED
      BY <1>4, <2>4
<1>7. CASE format # "argon2"
  <2>1. at(5) = 6 /\ at(6) = 7 /\ width(5) = 1 /\ width(6) = CtLen
      BY <1>7 DEF Place, Width
  <2>2. CASE format = "recipient"
    <3>1. at(10) = 7 + CtLen
        BY <2>2 DEF Place, PayloadAt
    <3>2. \A k \in 1 .. 10 : order[k] \in FieldsOf(format) => k \in {1, 2, 3, 4, 5, 6, 10}
      <4>1. FieldsOf(format) =
              {"memory", "iterations", "parallelism", "salt", "ct len", "ct", "nonce"}
          BY <2>2 DEF FieldsOf
      <4>2. \A k \in 7 .. 9 : k = 7 \/ k = 8 \/ k = 9
          OBVIOUS
      <4> HIDE DEF order
      <4>3. \A k \in 7 .. 9 : order[k] \notin FieldsOf(format)
          BY <1>0, <4>1, <4>2
      <4> QED
          BY <4>3
    <3>3. i \in {1, 2, 3, 4, 5, 6, 10} /\ j \in {1, 2, 3, 4, 5, 6, 10}
        BY <1>4, <3>2
    <3> HIDE DEF at, width, order
    <3>4. i = j
        BY <1>1, <1>3, <1>5, <2>1, <3>1, <3>3
    <3> QED
        BY <1>4, <3>4
  <2>3. CASE format = "mlkem"
    <3>1. /\ at(7) = 7 + CtLen /\ at(8) = 8 + CtLen /\ at(9) = 9 + CtLen
          /\ at(10) = 9 + CtLen + SealLen
          /\ width(7) = 1 /\ width(8) = 1 /\ width(9) = SealLen
        BY <2>3 DEF Place, PayloadAt, Width
    <3> HIDE DEF at, width, order
    <3>4. i = j
        BY <1>1, <1>3, <1>4, <1>5, <2>1, <3>1
    <3> QED
        BY <1>4, <3>4
  <2> QED
      BY <1>7, <2>2, <2>3 DEF Own
<1> QED
    BY <1>6, <1>7

LEMMA PlaceIsNat ==
    ASSUME NEW format, NEW f
    PROVE  Place(format, f) \in Nat /\ Width(f) \in Nat
<1>1. Place(format, f) \in {2, 3, 4, 5, 6, 7, 7 + CtLen, 8 + CtLen, 9 + CtLen, PayloadAt(format)}
    BY DEF Place
<1>2. Width(f) \in {CtLen, SealLen, 1}
    BY DEF Width
<1> QED
    BY <1>1, <1>2, Sizes

\* Before a ciphertext or a wrapped key its length was read.
LEMMA LengthsFirst ==
    ASSUME made.format \in Own, InStep, NEW f \in FieldsOf(made.format),
           pos = Place(made.format, f)
    PROVE  WidthOf(f) = Width(f)
<1>1. CASE f = "ct"
  <2>1. "ct len" \in FieldsOf(made.format)
      BY <1>1 DEF FieldsOf
  <2>2. Place(made.format, "ct len") = 6 /\ pos = 7
      BY <1>1 DEF Place
  <2>3. FieldRead("ct len") = Value(made, "ct len")
    <3>1. Place(made.format, "ct len") < pos
      <4>1. 6 < 7
          OBVIOUS
      <4> QED
          BY <2>2, <4>1, Zenon
    <3> QED
        BY <2>1, <3>1 DEF InStep, Behind
  <2> QED
      BY <1>1, <2>3 DEF FieldRead, Lengths, Value, WidthOf, Width
<1>2. CASE f = "dk"
  <2>1. "dk len" \in FieldsOf(made.format)
      BY <1>2 DEF FieldsOf
  <2>2. Place(made.format, "dk len") = 8 + CtLen /\ pos = 9 + CtLen
      BY <1>2 DEF Place
  <2>3. FieldRead("dk len") = Value(made, "dk len")
    <3>1. Place(made.format, "dk len") < pos
      <4>1. \A n \in Nat : 8 + n < 9 + n
          OBVIOUS
      <4>2. CtLen \in Nat
          BY Sizes
      <4>3. 8 + CtLen < 9 + CtLen
          BY <4>1, <4>2
      <4> QED
          BY <2>2, <4>3
    <3> QED
        BY <2>1, <3>1 DEF InStep, Behind
  <2> QED
      BY <1>2, <2>3 DEF FieldRead, Lengths, Value, WidthOf, Width
<1>3. CASE f \notin {"ct", "dk"}
    BY <1>3 DEF WidthOf, Width
<1> QED
    BY <1>1, <1>2, <1>3

\* Reading the next field of an intact archive succeeds and yields what was
\* written.
LEMMA ReadAsWritten ==
    ASSUME Inputs, TypeOK, Unchanged, made.format \in Own, InStep, pc # "end", Read,
           NEW f, f = plan[1]
    PROVE  /\ f \in FieldsOf(made.format) /\ plan' = Tail(plan)
           /\ pos = Place(made.format, f) /\ pos' = pos + Width(f)
           /\ FieldRead(f)' = Value(made, f)
           /\ \A g \in Lengths \cup Slices : g # f => FieldRead(g)' = FieldRead(g)
           /\ UNCHANGED <<flags, pc, outcome, opened>>
<1>1. plan # <<>> /\ plan \in Seq(Lengths \cup Slices)
    BY DEF Read, TypeOK
<1>2. 1 \in DOMAIN plan /\ Head(plan) = f
    BY <1>1
<1>3. f \in FieldsOf(made.format) /\ pos = Place(made.format, f) /\ f \in Lengths \cup Slices
    BY <1>1, <1>2 DEF InStep, Ahead, Chain
<1>4. Stands(made, Tokens, f) /\ Tokens \in Seq(Safe(made)) /\ made \in Makings
    BY <1>3, LaidOut DEF Laid, Inputs
<1>5. pos \in Nat /\ Width(f) \in Nat /\ Len(Tokens) \in Nat
    BY <1>3, <1>4, PlaceIsNat
<1>6. WidthOf(f) = Width(f)
    BY <1>3, LengthsFirst
<1>7. Has(Tokens, pos, Written(made, f)) /\ Len(Written(made, f)) = Width(f)
    BY <1>3, <1>4 DEF Stands
<1>8. pos + Width(f) <= Len(Tokens)
    BY <1>7 DEF Has
<1>9. InFile(pos + Width(f))
    BY <1>5, <1>8, FileFitsMemory, SizeAssumption DEF InFile, SizeAssumption
<1>10. /\ pos' = pos + Width(f) /\ plan' = Tail(plan) /\ UNCHANGED <<flags, pc, outcome, opened>>
    BY <1>2, <1>6, <1>9 DEF Read
<1>11. CASE f \in Lengths
  <2>1. Written(made, f) = <<Number(Value(made, f))>>
      BY <1>11 DEF Written
  <2>2. Tokens[pos + 1] = Number(Value(made, f))
      BY <1>7, <2>1 DEF Has
  <2>3. NumbersIn(Tokens[pos + 1]) = {Value(made, f)}
      BY <2>2 DEF NumbersIn, Number
  <2>4. number' = [number EXCEPT ![f] = Value(made, f)] /\ slice' = slice
      BY <1>2, <1>6, <1>9, <1>11, <2>3 DEF Read
  <2>5. number'[f] = Value(made, f) /\ \A g \in Lengths : g # f => number'[g] = number[g]
    <3>1. DOMAIN number = Lengths
        BY DEF TypeOK
    <3> QED
        BY <1>11, <2>4, <3>1
  <2>6. FieldRead(f)' = Value(made, f)
      BY <1>11, <2>5 DEF FieldRead
  <2>7. \A g \in Lengths \cup Slices : g # f => FieldRead(g)' = FieldRead(g)
      BY <2>4, <2>5 DEF FieldRead
  <2> QED
      BY <1>3, <1>10, <2>6, <2>7
<1>12. CASE f \notin Lengths
  <2>1. Written(made, f) = Value(made, f) /\ Written(made, f) \in Seq(Safe(made))
      BY <1>4, <1>12 DEF Written, Stands
  <2>2. SubSeq(Tokens, pos + 1, pos + Width(f)) = Value(made, f)
      BY <1>4, <1>5, <1>7, <2>1, HasIsSubSeq
  <2>3. number' = number /\ slice' = [slice EXCEPT ![f] = Value(made, f)]
      BY <1>2, <1>6, <1>9, <1>12, <2>2 DEF Read
  <2>4. f \in DOMAIN slice
      BY <1>3, <1>12 DEF TypeOK
  <2>5. \A g \in Lengths \cup Slices : g # f => FieldRead(g)' = FieldRead(g)
      BY <2>3 DEF FieldRead
  <2>6. FieldRead(f)' = Value(made, f)
      BY <1>12, <2>3, <2>4 DEF FieldRead
  <2> QED
      BY <1>3, <1>10, <2>5, <2>6
<1> QED
    BY <1>11, <1>12

\* So the decoder stays in step.
LEMMA ReadInStep ==
    ASSUME Inputs, TypeOK, Unchanged, made.format \in Own, InStep, pc # "end", Read,
           made' = made
    PROVE  InStep'
<1>0. PICK f : f = plan[1]
    OBVIOUS
<1>1. /\ f \in FieldsOf(made.format) /\ plan' = Tail(plan)
      /\ pos = Place(made.format, f) /\ pos' = pos + Width(f)
      /\ FieldRead(f)' = Value(made, f)
      /\ \A g \in Lengths \cup Slices : g # f => FieldRead(g)' = FieldRead(g)
      /\ UNCHANGED <<flags, pc, outcome, opened>>
    BY <1>0, ReadAsWritten
<1>2. plan # <<>> /\ plan \in Seq(Lengths \cup Slices)
    BY DEF Read, TypeOK
<1>3. /\ Len(plan) \in Nat \ {0} /\ DOMAIN plan = 1 .. Len(plan) /\ 1 \in DOMAIN plan
      /\ Tail(plan) \in Seq(Lengths \cup Slices)
      /\ Len(Tail(plan)) = Len(plan) - 1
      /\ \A i \in 1 .. Len(Tail(plan)) : i + 1 \in 1 .. Len(plan) /\ Tail(plan)[i] = plan[i + 1]
    BY <1>2
<1>4. flags' = FlagsOf(made'.format)
    BY <1>1 DEF InStep
<1>5. ASSUME NEW i \in DOMAIN plan'
      PROVE  /\ plan'[i] \in FieldsOf(made.format)
             /\ Place(made.format, plan'[i]) + Width(plan'[i]) =
                  IF i = Len(plan') THEN EndOf(made.format, pc)
                  ELSE Place(made.format, plan'[i + 1])
  <2>1. i \in 1 .. Len(Tail(plan)) /\ i \in Nat
      BY <1>1, <1>3
  <2>2. i + 1 \in DOMAIN plan /\ plan'[i] = plan[i + 1]
      BY <1>1, <1>3, <2>1
  <2>3. i = Len(plan') <=> i + 1 = Len(plan)
      BY <1>1, <1>3, <2>1
  <2>4. i # Len(plan') => plan'[i + 1] = plan[(i + 1) + 1]
    <3> SUFFICES ASSUME i # Len(plan') PROVE plan'[i + 1] = plan[(i + 1) + 1]
        OBVIOUS
    <3>1. i + 1 \in 1 .. Len(Tail(plan))
        BY <1>1, <1>3, <2>1
    <3> QED
        BY <1>1, <1>3, <3>1
  <2> QED
      BY <2>2, <2>3, <2>4 DEF InStep, Ahead, Chain
<1>6. pos' = IF plan' = <<>> THEN EndOf(made.format, pc) ELSE Place(made.format, plan'[1])
  <2>1. Place(made.format, f) + Width(f) =
            IF 1 = Len(plan) THEN EndOf(made.format, pc) ELSE Place(made.format, plan[1 + 1])
      BY <1>0, <1>3 DEF InStep, Ahead, Chain
  <2>2. plan' = <<>> <=> 1 = Len(plan)
    <3>1. plan' = <<>> <=> Len(Tail(plan)) = 0
        BY <1>1, <1>3, EmptySeq
    <3> QED
        BY <1>3, <3>1
  <2>3. plan' # <<>> => plan'[1] = plan[1 + 1]
    <3> SUFFICES ASSUME plan' # <<>> PROVE plan'[1] = plan[1 + 1]
        OBVIOUS
    <3>1. 1 \in 1 .. Len(Tail(plan))
        BY <1>1, <1>3
    <3> QED
        BY <1>1, <1>3, <3>1
  <2> QED
      BY <1>1, <2>1, <2>2, <2>3
<1>7. ASSUME NEW g \in FieldsOf(made.format), Place(made.format, g) < pos'
      PROVE  FieldRead(g)' = Value(made, g)
  <2>1. g \in Lengths \cup Slices
      BY DEF FieldsOf, Lengths, Slices
  <2>2. CASE g = f
      BY <1>1, <2>2
  <2>3. CASE g # f
    <3>1. Place(made.format, g) < pos
        BY <1>1, <1>7, <2>3, FieldsApart, PlaceIsNat
    <3> QED
        BY <1>1, <2>1, <2>3, <3>1 DEF InStep, Behind
  <2> QED
      BY <2>2, <2>3
<1> QED
    BY <1>1, <1>4, <1>5, <1>6, <1>7 DEF InStep, Ahead, Chain, Behind

\* The plans of the decoder are the fields of the encoder.
LEMMA HeaderChain ==
    ASSUME NEW format
    PROVE  Chain(format, <<"memory", "iterations", "parallelism", "salt">>, "header")
<1> DEFINE fields == <<"memory", "iterations", "parallelism", "salt">>
<1>1. /\ DOMAIN fields = 1 .. 4 /\ Len(fields) = 4 /\ fields[1] = "memory"
      /\ fields[2] = "iterations" /\ fields[3] = "parallelism" /\ fields[4] = "salt"
    OBVIOUS
<1>2. \A i \in 1 .. 4 : fields[i] \in FieldsOf(format)
  <2> HIDE DEF fields
  <2>1. \A i \in 1 .. 4 : i = 1 \/ i = 2 \/ i = 3 \/ i = 4
      OBVIOUS
  <2> QED
      BY <1>1, <2>1 DEF FieldsOf
<1>3. /\ Place(format, "memory") = 2 /\ Place(format, "iterations") = 3
      /\ Place(format, "parallelism") = 4 /\ Place(format, "salt") = 5
      /\ Width("memory") = 1 /\ Width("iterations") = 1 /\ Width("parallelism") = 1
      /\ Width("salt") = 1 /\ EndOf(format, "header") = 6
    BY DEF Place, Width, EndOf
<1> HIDE DEF fields
<1>4. ASSUME NEW i \in 1 .. 4
      PROVE  Place(format, fields[i]) + Width(fields[i]) =
                 IF i = 4 THEN EndOf(format, "header") ELSE Place(format, fields[i + 1])
    BY <1>1, <1>3
<1> QED
    BY <1>1, <1>2, <1>4 DEF Chain, fields

LEMMA NonceChain ==
    ASSUME NEW format
    PROVE  Chain(format, <<"nonce">>, "payload") /\ Place(format, "nonce") = PayloadAt(format)
<1> DEFINE fields == <<"nonce">>
<1>1. DOMAIN fields = 1 .. 1 /\ Len(fields) = 1 /\ fields[1] = "nonce"
    OBVIOUS
<1>2. /\ Place(format, "nonce") = PayloadAt(format) /\ Width("nonce") = 1
      /\ EndOf(format, "payload") = PayloadAt(format) + 1
      /\ "nonce" \in FieldsOf(format)
    BY DEF Place, Width, EndOf, FieldsOf
<1>3. \A i \in 1 .. 1 : i = 1
    OBVIOUS
<1> HIDE DEF fields
<1> QED
    BY <1>1, <1>2, <1>3 DEF Chain, fields

LEMMA KemChain ==
    Chain("recipient", <<"ct len", "ct">>, "encapsulated")
<1> DEFINE fields == <<"ct len", "ct">>
<1>1. DOMAIN fields = 1 .. 2 /\ Len(fields) = 2 /\ fields[1] = "ct len" /\ fields[2] = "ct"
    OBVIOUS
<1>2. /\ Place("recipient", "ct len") = 6 /\ Place("recipient", "ct") = 7
      /\ Width("ct len") = 1 /\ Width("ct") = CtLen
      /\ EndOf("recipient", "encapsulated") = 7 + CtLen
      /\ "ct len" \in FieldsOf("recipient") /\ "ct" \in FieldsOf("recipient")
    BY DEF Place, Width, EndOf, PayloadAt, FieldsOf
<1>3. \A i \in 1 .. 2 : i = 1 \/ i = 2
    OBVIOUS
<1> HIDE DEF fields
<1>4. 6 + 1 = 7 /\ 1 + 1 = 2
    OBVIOUS
<1> QED
    BY <1>1, <1>2, <1>3, <1>4 DEF Chain, fields

LEMMA WrapChain ==
    Chain("mlkem", <<"ct len", "ct", "dk nonce", "dk len", "dk">>, "wrapped")
<1> DEFINE fields == <<"ct len", "ct", "dk nonce", "dk len", "dk">>
<1>1. /\ DOMAIN fields = 1 .. 5 /\ Len(fields) = 5 /\ fields[1] = "ct len" /\ fields[2] = "ct"
      /\ fields[3] = "dk nonce" /\ fields[4] = "dk len" /\ fields[5] = "dk"
    OBVIOUS
<1>2. /\ Place("mlkem", "ct len") = 6 /\ Place("mlkem", "ct") = 7
      /\ Place("mlkem", "dk nonce") = 7 + CtLen /\ Place("mlkem", "dk len") = 8 + CtLen
      /\ Place("mlkem", "dk") = 9 + CtLen
      /\ Width("ct len") = 1 /\ Width("ct") = CtLen /\ Width("dk nonce") = 1
      /\ Width("dk len") = 1 /\ Width("dk") = SealLen
      /\ EndOf("mlkem", "wrapped") = 9 + CtLen + SealLen
    BY DEF Place, Width, EndOf, PayloadAt
<1>3. {"ct len", "ct", "dk nonce", "dk len", "dk"} \subseteq FieldsOf("mlkem")
    BY DEF FieldsOf
<1>4. /\ 6 + 1 = 7 /\ (7 + CtLen) + 1 = 8 + CtLen /\ (8 + CtLen) + 1 = 9 + CtLen
      /\ 1 + 1 = 2 /\ 2 + 1 = 3 /\ 3 + 1 = 4 /\ 4 + 1 = 5
    BY Sizes
<1>5. \A i \in 1 .. 5 : i = 1 \/ i = 2 \/ i = 3 \/ i = 4 \/ i = 5
    OBVIOUS
<1> HIDE DEF fields
<1>6. \A i \in 1 .. 5 : fields[i] \in FieldsOf("mlkem")
    BY <1>1, <1>3, <1>5
<1>7. ASSUME NEW i \in 1 .. 5
      PROVE  Place("mlkem", fields[i]) + Width(fields[i]) =
                 IF i = 5 THEN EndOf("mlkem", "wrapped") ELSE Place("mlkem", fields[i + 1])
    BY <1>1, <1>2, <1>4, <1>5
<1> QED
    BY <1>1, <1>6, <1>7 DEF Chain, fields

\* What the decoder knows at the end of a stage.
LEMMA StageEnds ==
    ASSUME InStep, plan = <<>>, pc \in Stages
    PROVE  pos = EndOf(made.format, pc) /\ pos \in Nat /\ pos >= 6
<1>1. pos = EndOf(made.format, pc)
    BY DEF InStep, Ahead
<1>2. EndOf(made.format, pc) \in {6, PayloadAt(made.format), PayloadAt(made.format) + 1}
    BY DEF EndOf
<1> QED
    BY <1>1, <1>2, Sizes

LEMMA HeaderKnown ==
    ASSUME InStep, pos \in Nat, pos >= 6
    PROVE  ParamsRead = Params /\ slice["salt"] = <<Salt>>
<1>1. \A f \in {"memory", "iterations", "parallelism", "salt"} :
        f \in FieldsOf(made.format) /\ Place(made.format, f) \in {2, 3, 4, 5}
  <2>1. \A f \in {"memory", "iterations", "parallelism", "salt"} : f \in FieldsOf(made.format)
      BY DEF FieldsOf
  <2>2. \A f \in {"memory", "iterations", "parallelism", "salt"} :
          Place(made.format, f) \in {2, 3, 4, 5}
      BY DEF Place
  <2> QED
      BY <2>1, <2>2
<1>2. \A f \in {"memory", "iterations", "parallelism", "salt"} : FieldRead(f) = Value(made, f)
  <2> SUFFICES ASSUME NEW f \in {"memory", "iterations", "parallelism", "salt"}
               PROVE  FieldRead(f) = Value(made, f)
      OBVIOUS
  <2>1. \A n \in {2, 3, 4, 5} : n < pos
      OBVIOUS
  <2>2. Place(made.format, f) < pos
      BY <1>1, <2>1
  <2> QED
      BY <1>1, <2>2 DEF InStep, Behind
<1>3. /\ number["memory"] = Params[1] /\ number["iterations"] = Params[2]
      /\ number["parallelism"] = Params[3] /\ slice["salt"] = <<Salt>>
    BY <1>2 DEF FieldRead, Value, Lengths
<1>4. Params = <<Params[1], Params[2], Params[3]>>
    BY DEF Params
<1> QED
    BY <1>3, <1>4 DEF ParamsRead

LEMMA KemKnown ==
    ASSUME InStep, made.format \in {"recipient", "mlkem"}, pos \in Nat,
           pos >= PayloadAt(made.format)
    PROVE  slice["ct"] = Encapsulated(Whom(made))
<1>1. "ct" \in FieldsOf(made.format) /\ Place(made.format, "ct") = 7
    BY DEF FieldsOf, Place
<1>2. 7 < PayloadAt(made.format)
  <2>1. CASE made.format = "recipient"
      BY <2>1, Sizes DEF PayloadAt
  <2>2. CASE made.format = "mlkem"
      BY <2>2, Sizes DEF PayloadAt
  <2> QED
      BY <2>1, <2>2
<1>3. Place(made.format, "ct") < pos
  <2>1. 7 < pos
      BY <1>2, Sizes
  <2> QED
      BY <1>1, <2>1
<1>4. FieldRead("ct") = Value(made, "ct")
    BY <1>1, <1>3 DEF InStep, Behind
<1> QED
    BY <1>4 DEF FieldRead, Value, Lengths

LEMMA WrapKnown ==
    ASSUME InStep, made.format = "mlkem", pos \in Nat, pos >= PayloadAt(made.format)
    PROVE  /\ slice["dk nonce"] = <<Nonce("wrap")>>
           /\ slice["dk"] = Seal(MadeArgonKey(made.pw), <<Nonce("wrap")>>, FreshPair)
<1>1. /\ "dk nonce" \in FieldsOf(made.format) /\ "dk" \in FieldsOf(made.format)
      /\ Place(made.format, "dk nonce") = 7 + CtLen /\ Place(made.format, "dk") = 9 + CtLen
      /\ PayloadAt(made.format) = 9 + CtLen + SealLen
    BY DEF FieldsOf, Place, PayloadAt
<1>2. 7 + CtLen < 9 + CtLen + SealLen /\ 9 + CtLen < 9 + CtLen + SealLen
      /\ 7 + CtLen \in Nat /\ 9 + CtLen \in Nat /\ 9 + CtLen + SealLen \in Nat
    BY Sizes
<1>3. 9 + CtLen + SealLen <= pos
    BY <1>1
<1>4. 7 + CtLen < pos /\ 9 + CtLen < pos
    BY <1>2, <1>3
<1>5. Place(made.format, "dk nonce") < pos /\ Place(made.format, "dk") < pos
    BY <1>1, <1>4
<1>6. FieldRead("dk nonce") = Value(made, "dk nonce") /\ FieldRead("dk") = Value(made, "dk")
    BY <1>1, <1>5 DEF InStep, Behind
<1> QED
    BY <1>6 DEF FieldRead, Value, Lengths

LEMMA NonceKnown ==
    ASSUME InStep, pos = PayloadAt(made.format) + 1
    PROVE  slice["nonce"] = <<Nonce("payload")>>
<1>1. "nonce" \in FieldsOf(made.format) /\ Place(made.format, "nonce") = PayloadAt(made.format)
    BY DEF FieldsOf, Place
<1>2. Place(made.format, "nonce") < pos
    BY <1>1, Sizes
<1>3. FieldRead("nonce") = Value(made, "nonce")
    BY <1>1, <1>2 DEF InStep, Behind
<1> QED
    BY <1>3 DEF FieldRead, Value, Lengths

\* The user gives what the archive was made with.
LEMMA GivenPassword ==
    ASSUME Inputs, PassedOn, made.format # "recipient"
    PROVE  Password = made.pw /\ Password # NoPassword
    BY CredentialAssumption DEF Inputs, Makings, PassedOn, CredentialAssumption

LEMMA GivenIdentity ==
    ASSUME Inputs, PassedOn, made.format = "recipient"
    PROVE  command.id = made.id /\ command.id # NoIdentity
    BY CredentialAssumption DEF Inputs, Makings, PassedOn, CredentialAssumption

LEMMA KeysAgree ==
    ASSUME Inputs, PassedOn, InStep, made.format \in Own, pos \in Nat, pos >= 6,
           made.format # "argon2" => pos >= PayloadAt(made.format)
    PROVE  /\ KeyRead = KeyOf(made)
           /\ made.format = "mlkem" => Unwraps
<1>1. ParamsRead = Params /\ slice["salt"] = <<Salt>>
    BY HeaderKnown
<1>2. flags = FlagsOf(made.format)
    BY DEF InStep
<1>3. CASE made.format = "recipient"
    BY <1>2, <1>3, KemKnown, GivenIdentity DEF KeyRead, KeyOf, FinalKey, Whom, FlagsOf
<1>4. CASE made.format # "recipient"
  <2>1. DerivedKey = MadeArgonKey(made.pw)
      BY <1>1, <1>4, GivenPassword DEF DerivedKey, MadeArgonKey
  <2>2. CASE made.format = "mlkem"
      BY <1>2, <2>1, <2>2, KemKnown, WrapKnown DEF KeyRead, KeyOf, FinalKey, Whom, FlagsOf, Unwraps
  <2>3. CASE made.format = "argon2"
      BY <1>2, <2>1, <2>3 DEF KeyRead, KeyOf, FinalKey, FlagsOf
  <2> QED
      BY <1>4, <2>2, <2>3 DEF Own
<1> QED
    BY <1>3, <1>4

\* The formats of other programs open as a whole.
LEMMA OthersOpen ==
    ASSUME Inputs, Intact, NEW f \in {"age", "7z"}, made.format = f
    PROVE  OpensWith(f, Password)
<1> DEFINE nonce == Nonce("payload")
           sealed == Seal(PassphraseKey(made.pw), <<nonce>>, Payload)
           tag == [t |-> f]
<1>1. Password = made.pw /\ made \in Makings
    BY GivenPassword DEF Intact, Inputs
<1>2. SealedPayload(f, made.pw, made.id) = <<nonce>> \o sealed
    BY DEF SealedPayload, FinalKey
<1>3. Tokens = <<tag>> \o (<<nonce>> \o sealed)
    BY <1>2 DEF Intact, Unchanged, Tokens, Encode
<1>4. sealed \in Seq(Safe(made))
    BY <1>1, PayloadLayout DEF KeyOf, FinalKey
<1>5. <<tag>> \o (<<nonce>> \o sealed) = <<tag, nonce>> \o sealed
  <2>1. tag \in Safe(made) /\ nonce \in Safe(made)
      BY DEF Safe
  <2> HIDE DEF tag, nonce, sealed
  <2>2. <<tag>> \in Seq(Safe(made)) /\ <<nonce>> \in Seq(Safe(made))
      BY <2>1, OneTuple
  <2>3. <<tag>> \o <<nonce>> = <<tag, nonce>>
      BY <2>1, TwoTuples
  <2> QED
      BY <1>4, <2>2, <2>3, ConcatAssociative
<1> QED
    BY <1>1, <1>3, <1>5 DEF OpensWith

\* Start chooses the backend, which is the archive's own.
LEMMA AgreedStart ==
    ASSUME Agreed, Start, Uses7z' <=> Uses7z
    PROVE  Agreed'
<1>1. /\ pc = "start" /\ plan' = plan /\ opened' = opened /\ outcome' = outcome
      /\ pc' = (IF Uses7z THEN "7z" ELSE "dispatch")
    BY DEF Start, Goto, cursor
<1> QED
    BY <1>1 DEF Agreed, Stages

LEMMA Agreed7z ==
    ASSUME Inputs, Intact, OpenedRightly, Agreed, Run7z
    PROVE  Agreed'
<1>1. pc = "7z" /\ Uses7z
    BY DEF Run7z, OpenedRightly
<1>2. made.format = "7z" /\ command.id = NoIdentity
    BY <1>1 DEF Intact, Unchanged, Uses7z
<1>3. Password = command.pw
    BY <1>2 DEF Password
<1>4. OpensWith("7z", command.pw)
    BY <1>2, <1>3, OthersOpen
<1>5. opened' = Payload /\ pc' = "unpack" /\ plan' = plan /\ outcome' = outcome
    BY <1>4 DEF Run7z, Goto, cursor
<1> QED
    BY <1>1, <1>5 DEF Agreed, Stages

\* The first token of an archive of age is not the magic.
LEMMA AgreedDispatch ==
    ASSUME Inputs, Intact, Agreed, Dispatch, made' = made
    PROVE  Agreed'
<1>1. pc = "dispatch" /\ ~Uses7z /\ plan = <<>> /\ plan' = plan
    BY DEF Dispatch, Agreed
<1>2. made.format \in Own \cup {"age"}
    BY <1>1 DEF Intact, Unchanged, Inputs, Makings, Formats, Own
<1>3. CASE made.format \in Own
  <2>1. Laid(made, Tokens)
      BY <1>3, LaidOut DEF Intact
  <2>2. Tokens \in Seq(Safe(made)) /\ Tokens[1] = Magic
        /\ Len(Tokens) = PayloadAt(made.format) + 1 + SealLen
      BY <2>1 DEF Laid
  <2>3. Tokens # <<>>
      BY <2>2, Sizes
  <2>4. pos' = 1 /\ pc' = "flags" /\ outcome' = outcome /\ opened' = opened
      BY <2>2, <2>3 DEF Dispatch, AfterMagic, Goto
  <2> QED
      BY <1>1, <1>3, <2>4 DEF Agreed, Stages
<1>4. CASE made.format = "age"
  <2>1. OpensWith("age", Password) /\ Password # NoPassword
      BY <1>4, OthersOpen, GivenPassword DEF Intact
  <2>2. Tokens[1] = [t |-> "age"]
    <3> DEFINE nonce == Nonce("payload")
               sealed == Seal(PassphraseKey(Password), <<nonce>>, Payload)
               tag == [t |-> "age"]
    <3>1. Tokens = <<tag, nonce>> \o sealed
        BY <2>1 DEF OpensWith
    <3>2. sealed \in Seq(Safe(made))
        BY <1>4, GivenPassword, PayloadLayout DEF KeyOf, FinalKey, Intact, Inputs
    <3>3. tag \in Safe(made) /\ nonce \in Safe(made)
        BY DEF Safe
    <3> HIDE DEF sealed, tag, nonce
    <3>4. <<tag, nonce>> \in Seq(Safe(made)) /\ Len(<<tag, nonce>>) = 2 /\ <<tag, nonce>>[1] = tag
        BY <3>3
    <3>5. (<<tag, nonce>> \o sealed)[1] = tag
        BY <3>2, <3>4
    <3> QED
        BY <3>1, <3>5 DEF tag
  <2>3. Tokens[1] # Magic
      BY <2>2 DEF Magic
  <2>4. opened' = Payload /\ pc' = "unpack" /\ outcome' = outcome
      BY <2>1, <2>3 DEF Dispatch, Goto
  <2> QED
      BY <1>1, <2>4 DEF Agreed, Stages
<1> QED
    BY <1>2, <1>3, <1>4

LEMMA AgreedFlags ==
    ASSUME Inputs, TypeOK, Intact, Agreed, ReadFlags, made' = made
    PROVE  Agreed'
<1>1. pc = "flags" /\ made.format \in Own /\ pos = 1 /\ Unchanged
    BY DEF ReadFlags, Agreed, Intact
<1>2. Laid(made, Tokens)
    BY <1>1, LaidOut
<1>3. Tokens[2] = Flags(FlagsOf(made.format))
      /\ Len(Tokens) = PayloadAt(made.format) + 1 + SealLen
    BY <1>2 DEF Laid
<1>4. 1 < Len(Tokens)
    BY <1>3, Sizes
<1>5. FlagsIn(Tokens[pos + 1]) = {FlagsOf(made.format)}
    BY <1>1, <1>3 DEF FlagsIn, Flags
<1>6. /\ flags' = FlagsOf(made.format) /\ pos' = 2 /\ pc' = "header"
      /\ plan' = <<"memory", "iterations", "parallelism", "salt">>
      /\ outcome' = outcome /\ opened' = opened
    BY <1>1, <1>4, <1>5 DEF ReadFlags, Goto
<1>7. Chain(made.format, plan', "header")
    BY <1>6, HeaderChain
<1>8. plan' # <<>> /\ plan'[1] = "memory" /\ Place(made.format, "memory") = 2
    BY <1>6 DEF Place
<1>9. \A f \in FieldsOf(made.format) : ~(Place(made.format, f) < 2)
  <2> SUFFICES ASSUME NEW f PROVE Place(made.format, f) >= 2
    <3>1. \A f : Place(made.format, f) \in Nat
        BY PlaceIsNat
    <3> QED
        BY <3>1
  <2>1. Place(made.format, f)
          \in {2, 3, 4, 5, 6, 7, 7 + CtLen, 8 + CtLen, 9 + CtLen, PayloadAt(made.format)}
      BY DEF Place
  <2> QED
      BY <2>1, Sizes
<1>10. InStep'
    BY <1>6, <1>7, <1>8, <1>9 DEF InStep, Ahead, Behind
<1> QED
    BY <1>1, <1>6, <1>10 DEF Agreed, Stages

LEMMA AgreedRead ==
    ASSUME Inputs, TypeOK, Intact, Agreed, Read, made' = made
    PROVE  Agreed'
<1>1. pc \in Stages
    BY DEF Read, TypeOK, Agreed, Stages
<1>2. made.format \in Own /\ InStep /\ Unchanged /\ pc # "end"
    BY <1>1 DEF Agreed, Intact, Stages
<1>3. InStep'
    BY <1>2, ReadInStep
<1>4. PICK f : f = plan[1]
    OBVIOUS
<1>5. pc' = pc /\ outcome' = outcome /\ opened' = opened
    BY <1>2, <1>4, ReadAsWritten
<1> QED
    BY <1>1, <1>2, <1>3, <1>5 DEF Agreed, Stages

\* The next stage begins where the last one ended.
LEMMA StageBegins ==
    ASSUME InStep, UNCHANGED <<made, pos, flags, number, slice>>,
           Chain(made.format, plan', pc'), plan' # <<>>,
           NEW f, plan'[1] = f, pos = Place(made.format, f)
    PROVE  InStep'
<1>1. flags' = FlagsOf(made'.format)
    BY DEF InStep
<1>2. Behind'
    BY DEF InStep, Behind, FieldRead
<1>3. Ahead'
    BY DEF Ahead
<1> QED
    BY <1>1, <1>2, <1>3 DEF InStep

LEMMA AgreedBranch ==
    ASSUME Inputs, Intact, Agreed, Branch, made' = made
    PROVE  Agreed'
<1>1. /\ pc = "header" /\ plan = <<>> /\ made.format \in Own /\ InStep
      /\ UNCHANGED <<made, pos, flags, number, slice, opened>> /\ PassedOn
    BY DEF Branch, Agreed, Intact, Stages
<1>2. flags = FlagsOf(made.format) /\ pos = 6
    BY <1>1, StageEnds DEF InStep, EndOf, Stages
<1>3. ParamsRead = Params
    BY <1>1, <1>2, HeaderKnown
<1>4. CASE made.format = "recipient"
  <2>1. "recipient" \in flags /\ command.id # NoIdentity
      BY <1>1, <1>2, <1>4, GivenIdentity DEF FlagsOf
  <2>2. plan' = <<"ct len", "ct">> /\ pc' = "encapsulated" /\ outcome' = outcome
      BY <2>1 DEF Branch, Goto
  <2>3. Chain(made.format, plan', pc')
      BY <1>4, <2>2, KemChain
  <2>4. plan' # <<>> /\ plan'[1] = "ct len" /\ Place(made.format, "ct len") = 6
      BY <2>2 DEF Place
  <2>5. InStep'
      BY <1>1, <1>2, <2>3, <2>4, StageBegins
  <2> QED
      BY <1>1, <1>4, <2>2, <2>5 DEF Agreed, Stages
<1>5. CASE made.format # "recipient"
  <2>1. "recipient" \notin flags /\ Password # NoPassword
      BY <1>1, <1>2, <1>5, GivenPassword DEF FlagsOf
  <2>2. CASE made.format = "mlkem"
    <3>1. "mlkem" \in flags
        BY <1>2, <2>2 DEF FlagsOf
    <3>2. /\ plan' = <<"ct len", "ct", "dk nonce", "dk len", "dk">> /\ pc' = "wrapped"
          /\ outcome' = outcome
        BY <1>3, <2>1, <3>1 DEF Branch, Goto
    <3>3. Chain(made.format, plan', pc')
        BY <2>2, <3>2, WrapChain
    <3>4. plan' # <<>> /\ plan'[1] = "ct len" /\ Place(made.format, "ct len") = 6
        BY <3>2 DEF Place
    <3>5. InStep'
        BY <1>1, <1>2, <3>3, <3>4, StageBegins
    <3> QED
        BY <1>1, <2>2, <3>2, <3>5 DEF Agreed, Stages
  <2>3. CASE made.format = "argon2"
    <3>1. "mlkem" \notin flags
        BY <1>2, <2>3 DEF FlagsOf
    <3>2. plan' = <<"nonce">> /\ pc' = "payload" /\ outcome' = outcome
        BY <1>3, <2>1, <3>1 DEF Branch, Goto
    <3>3. Chain(made.format, plan', pc')
        BY <3>2, NonceChain
    <3>4. plan' # <<>> /\ plan'[1] = "nonce" /\ Place(made.format, "nonce") = 6
        BY <2>3, <3>2 DEF Place, PayloadAt
    <3>5. InStep'
        BY <1>1, <1>2, <3>3, <3>4, StageBegins
    <3> QED
        BY <1>1, <3>2, <3>5 DEF Agreed, Stages
  <2> QED
      BY <1>1, <1>5, <2>2, <2>3 DEF Own
<1> QED
    BY <1>4, <1>5

LEMMA AgreedDecapsulate ==
    ASSUME Inputs, Intact, Agreed, Decapsulate, made' = made
    PROVE  Agreed'
<1>1. /\ pc \in {"encapsulated", "wrapped"} /\ plan = <<>> /\ made.format \in Own /\ InStep
      /\ UNCHANGED <<made, pos, flags, number, slice, opened>> /\ PassedOn
    BY DEF Decapsulate, Agreed, Intact, Stages
<1>2. made.format \in {"recipient", "mlkem"} /\ (pc = "wrapped" => made.format = "mlkem")
    BY <1>1 DEF Agreed
<1>3. pos = PayloadAt(made.format) /\ pos \in Nat /\ pos >= 6
  <2>1. EndOf(made.format, pc) = PayloadAt(made.format)
      BY <1>1 DEF EndOf
  <2> QED
      BY <1>1, <2>1, StageEnds DEF Stages
<1>4. Len(slice["ct"]) = CtLen
  <2>1. slice["ct"] = Encapsulated(Whom(made))
      BY <1>1, <1>2, <1>3, KemKnown
  <2>2. Whom(made) \in {made.id, FreshPair} /\ made \in Makings
      BY DEF Whom, Inputs
  <2> QED
      BY <2>1, <2>2, KemLayout
<1>5. pc = "wrapped" => Unwraps
    BY <1>1, <1>2, <1>3, KeysAgree
<1>6. plan' = <<"nonce">> /\ pc' = "payload" /\ outcome' = outcome
    BY <1>4, <1>5 DEF Decapsulate, Goto
<1>7. Chain(made.format, plan', pc') /\ Place(made.format, "nonce") = pos
    BY <1>3, <1>6, NonceChain
<1>8. plan' # <<>> /\ plan'[1] = "nonce"
    BY <1>6
<1>9. InStep'
    BY <1>1, <1>7, <1>8, StageBegins
<1> QED
    BY <1>1, <1>6, <1>9 DEF Agreed, Stages

LEMMA AgreedPayload ==
    ASSUME Inputs, Intact, Agreed, OpenPayload, made' = made
    PROVE  Agreed'
<1>1. /\ pc = "payload" /\ plan = <<>> /\ made.format \in Own /\ InStep
      /\ Unchanged /\ PassedOn
    BY DEF OpenPayload, Agreed, Intact, Stages
<1>2. pos = PayloadAt(made.format) + 1 /\ pos \in Nat /\ pos >= 6
    BY <1>1, StageEnds DEF EndOf, Stages
<1>3. KeyRead = KeyOf(made) /\ slice["nonce"] = <<Nonce("payload")>>
  <2>1. pos >= PayloadAt(made.format)
      BY <1>2, Sizes
  <2> QED
      BY <1>1, <1>2, <2>1, KeysAgree, NonceKnown
<1> DEFINE sealed == Seal(KeyOf(made), <<Nonce("payload")>>, Payload)
<1>4. /\ Tokens \in Seq(Safe(made)) /\ sealed \in Seq(Safe(made)) /\ Len(sealed) = SealLen
      /\ Has(Tokens, pos, sealed) /\ Len(Tokens) = pos + SealLen
    BY <1>1, <1>2, LaidOut DEF Laid
<1> HIDE DEF sealed
<1>5. Rest = sealed
    BY <1>2, <1>4, HasIsSubSeq DEF Rest
<1>6. PayloadOpens
    BY <1>3, <1>5 DEF PayloadOpens, sealed
<1>7. opened' = Payload /\ pc' = "unpack" /\ plan' = <<>> /\ outcome' = outcome
    BY <1>1, <1>6 DEF OpenPayload, Goto, cursor
<1> QED
    BY <1>7 DEF Agreed, Stages

\* Only what was opened fails later.
LEMMA AgreedUnpack ==
    ASSUME OpenedRightly, Agreed, Unpack
    PROVE  Agreed'
<1>1. pc = "unpack" /\ opened = Payload /\ opened' = opened /\ plan' = plan /\ pc' = "end"
    BY DEF Unpack, OpenedRightly, Return, cursor
<1> QED
    BY <1>1 DEF Agreed, Stages

LEMMA AgreedStutter ==
    ASSUME Agreed, UNCHANGED vars
    PROVE  Agreed'
<1>1. UNCHANGED <<made, pc, pos, plan, flags, number, slice, opened, outcome>>
      /\ (Uses7z' <=> Uses7z)
    BY InputsStay DEF vars, inputs, cursor
<1>2. InStep' <=> InStep
    BY <1>1 DEF InStep, Ahead, Behind, FieldRead
<1> QED
    BY <1>1, <1>2 DEF Agreed

LEMMA StepAgreed == IInv /\ [Next]_vars => (Intact => Agreed)'
<1> SUFFICES ASSUME IInv, [Next]_vars, Intact' PROVE Agreed'
    OBVIOUS
<1>1. /\ UNCHANGED inputs /\ made' = made /\ (Uses7z' <=> Uses7z)
      /\ Intact
    BY NextInputs, InputsStay DEF inputs
<1>2. Inputs /\ TypeOK /\ OpenedRightly /\ Agreed
    BY <1>1 DEF IInv
<1>3. CASE Start
    BY <1>1, <1>2, <1>3, AgreedStart
<1>4. CASE Run7z
    BY <1>1, <1>2, <1>4, Agreed7z
<1>5. CASE Dispatch
    BY <1>1, <1>2, <1>5, AgreedDispatch
<1>6. CASE ReadFlags
    BY <1>1, <1>2, <1>6, AgreedFlags
<1>7. CASE Read
    BY <1>1, <1>2, <1>7, AgreedRead
<1>8. CASE Branch
    BY <1>1, <1>2, <1>8, AgreedBranch
<1>9. CASE Decapsulate
    BY <1>1, <1>2, <1>9, AgreedDecapsulate
<1>10. CASE OpenPayload
    BY <1>1, <1>2, <1>10, AgreedPayload
<1>11. CASE Unpack
    BY <1>1, <1>2, <1>11, AgreedUnpack
<1>12. CASE UNCHANGED vars
    BY <1>1, <1>2, <1>12, AgreedStutter
<1> QED
    BY <1>3, <1>4, <1>5, <1>6, <1>7, <1>8, <1>9, <1>10, <1>11, <1>12 DEF Next

LEMMA StepKeeps == IInv /\ [Next]_vars => IInv'
    BY StepType, StepOpened, StepAgreed, NextInputs, InputsStay DEF IInv

\* The right credential arrives unless it is a password that is dropped, and what
\* arrives was given.
LEMMA RightIsPassed ==
    ASSUME Inputs, RightCredential
    PROVE  PassedOn <=> ~PasswordDropped
    BY CredentialAssumption
    DEF Inputs, Makings, CredentialAssumption, RightCredential, PassedOn, PasswordDropped,
        Password

LEMMA PassedIsRight == Inputs /\ PassedOn => RightCredential
    BY CredentialAssumption
    DEF Inputs, Makings, CredentialAssumption, RightCredential, PassedOn, Password

\* The inductive invariant of the commands that read an archive.
THEOREM ReadingInductive == Spec => []IInv
    BY InitInv, StepKeeps, PTL DEF Spec

\* The cursor never leaves the file, whatever lengths its header claims
\* (read_u32 and read_slice).
THEOREM CursorStaysInFile == Spec => []TypeOK
<1>1. IInv => TypeOK
    BY DEF IInv
<1> QED
    BY <1>1, ReadingInductive, PTL

\* No archive, however it was damaged, opens under another credential than the
\* one it was made for, and no command reports success of one.
THEOREM RightKeyOnly == Spec => []OnlyRightKeyOpens
<1>1. IInv => OnlyRightKeyOpens
    BY PassedIsRight DEF IInv, OpenedRightly, OnlyRightKeyOpens
<1> QED
    BY <1>1, ReadingInductive, PTL

\* extract puts nothing of an age archive into the directory before the archive
\* was decrypted and authenticated as a whole.
THEOREM UnpackedAfterOpened == Spec => []UnpackedIsOpened
<1>1. IInv => UnpackedIsOpened
    BY DEF IInv
<1> QED
    BY <1>1, ReadingInductive, PTL

\* An archive as it was made opens with its credential: the decoder is in step
\* with the encoder at every field, in every format and for every length of
\* ciphertext.  What fails afterwards is the extraction.  Only a verify with an
\* identity fails of an archive whose password it was given.
THEOREM IntactArchiveOpens == Spec => []IntactOpens
<1>1. IInv => IntactOpens
  <2> SUFFICES ASSUME IInv, Unchanged, RightCredential
               PROVE  IF PasswordDropped THEN outcome # "ok"
                      ELSE outcome = "failed" => opened = Payload
      BY DEF IntactOpens
  <2>1. PassedOn <=> ~PasswordDropped
      BY RightIsPassed DEF IInv
  <2>2. CASE PasswordDropped
      BY <2>1, <2>2 DEF IInv, OpenedRightly
  <2>3. CASE ~PasswordDropped
      BY <2>1, <2>3 DEF IInv, Intact, Agreed
  <2> QED
      BY <2>2, <2>3
<1> QED
    BY <1>1, ReadingInductive, PTL

\* Of the names that pack makes of any source only those can meet that
\* NamesApart says, and pack, dry run, verify and extract agree on them.
THEOREM NamesStayApart == InputsSpec => []NamesApart
<1> DEFINE NInv == name \in SomeNames
<1>1. InputsInit => NInv
  <2>1. aName \in SomeNames
      BY InputAssumption DEF aName, InputAssumption
  <2> QED
      BY <2>1 DEF InputsInit
<1>2. NInv /\ [Next /\ UNCHANGED <<name, saved>>]_allVars => NInv'
    BY DEF allVars
<1>3. NInv => NamesApart
  <2> SUFFICES ASSUME name \in SomeNames
               PROVE  /\ AgeNamesApart(name) /\ SevenZNamesMeet(name) /\ NameIsRead(name)
                      /\ \A other \in SomeNames : ArchivesMeet(name, other)
      BY DEF NamesApart
  <2>1. PartAssumption /\ SomeNames \subseteq Names
      BY InputAssumption DEF InputAssumption
  <2> QED
      BY <2>1, AgeNeverMeets, SevenZMeets, NamesAreRead, ArchivesMeetByStem
<1> QED
    BY <1>1, <1>2, <1>3, PTL DEF InputsSpec

\* What is left of a resume file that was cut anywhere misleads nobody, and a
\* whole one says what was saved, whatever its texts, numbers and paths are.
THEOREM ResumeFileSafe == InputsSpec => []ResumeFileIsSafe
<1> DEFINE SInv == saved \in SomeStates
<1>1. InputsInit => SInv
  <2>1. aState \in SomeStates
      BY InputAssumption DEF aState, InputAssumption
  <2> QED
      BY <2>1 DEF InputsInit
<1>2. SInv /\ [Next /\ UNCHANGED <<name, saved>>]_allVars => SInv'
    BY DEF allVars
<1>3. SInv => ResumeFileIsSafe
  <2> SUFFICES ASSUME saved \in SomeStates PROVE CutsAreSafe(saved) /\ RoundTrip(saved)
      BY DEF ResumeFileIsSafe
  <2>1. IsResumeState(saved)
      BY InputAssumption DEF InputAssumption
  <2> QED
      BY <2>1, CutsSafe, ReadsBack
<1> QED
    BY <1>1, <1>2, <1>3, PTL DEF InputsSpec

\* The names and the resume files are only looked at: the behaviours that carry
\* them are those that read an archive, so what Spec promises holds of them too.
LEMMA InputsAreAdded == InputsSpec => Spec
<1>1. InputsInit => Init
    BY DEF InputsInit
<1>2. [Next /\ UNCHANGED <<name, saved>>]_allVars => [Next]_vars
    BY DEF allVars
<1> QED
    BY <1>1, <1>2, PTL DEF InputsSpec, Spec
=============================================================================
