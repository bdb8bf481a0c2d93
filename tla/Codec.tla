------------------------------- MODULE Codec -------------------------------
(***************************************************************************)
(* The decoders of the program, as operators on sequences of character     *)
(* codes or bytes: the datagram frame, base64, the UUID text, and the      *)
(* prefix length of a CIDR.  Characters are their ASCII codes.  Beside     *)
(* each decoder stands a reference that does not share its loop.           *)
(***************************************************************************)
EXTENDS Integers, Sequences, FiniteSets

CONSTANTS
    UuidSize,     \* characters of a UUID text (36 in the code)
    Dashes,       \* offsets of its dashes ({8, 13, 18, 23} in the code)
    Inputs        \* what the decoders are given: texts, and which decoder gets it

\* The offsets of a UUID's digits, and how many of them come before offset i.
Digits == (0 .. UuidSize - 1) \ Dashes
Before(i) == Cardinality({k \in Digits : k < i})

\* The code's groups of 8, 4, 4, 4 and 12 digits all are even.
ASSUME UuidAssumption ==
    /\ UuidSize \in Nat
    /\ Dashes \subseteq 0 .. (UuidSize - 1)
    /\ \A i \in Dashes \cup {UuidSize} : Before(i) % 2 = 0

\* Texts are strings of bytes, of any length.
Octet == 0 .. 255
ASSUME InputAssumption ==
    Inputs \subseteq [kind : {"base64", "uuid", "prefix", "frame"}, text : Seq(Octet)]

VARIABLE input    \* the text that is being decoded

Dash == 45
Pad == 61

-----------------------------------------------------------------------------
(* The frame of a datagram: version, type, flow id, payload. *)

kFrameVersion == 3
kFrameHeader == 4

\* frame.cpp encode(): a 16-bit flow id goes out in two bytes.
encode(f) ==
    <<kFrameVersion, f.type, f.flow_id \div 256, f.flow_id % 256>> \o f.payload

decodable(in) == Len(in) >= kFrameHeader /\ in[1] = kFrameVersion

\* frame.cpp decode(), for an input it accepts.
decode(in) ==
    [type    |-> in[2],
     flow_id |-> in[3] * 256 + in[4],
     payload |-> SubSeq(in, kFrameHeader + 1, Len(in))]

-----------------------------------------------------------------------------
(* base64_decode() *)

\* The decode table: the sextet of a character, or -1.
tab(c) ==
    CASE c \in 65 .. 90  -> c - 65
      [] c \in 97 .. 122 -> c - 71
      [] c \in 48 .. 57  -> c + 4
      [] c = 43          -> 62
      [] c = 47          -> 63
      [] OTHER           -> -1

\* The four characters of a quartet, in order: padding only in the last one,
\* from its third place on, and nothing but padding after padding.
Quartet_PadInside(q, last) ==
    \A k \in 1 .. 4 :
        IF q[k] = Pad THEN last /\ k >= 3 ELSE tab(q[k]) >= 0

Quartet(q, last) ==
    \A k \in 1 .. 4 :
        IF q[k] = Pad THEN last /\ k >= 3
                      ELSE tab(q[k]) >= 0 /\ (k > 1 => q[k - 1] # Pad)

QuartetBytes(q) ==
    LET v(k) == tab(q[k])
    IN  <<v(1) * 4 + (v(2) \div 16)>>
        \o (IF q[3] = Pad THEN <<>> ELSE <<(v(2) % 16) * 16 + (v(3) \div 4)>>)
        \o (IF q[4] = Pad THEN <<>> ELSE <<(v(3) % 4) * 64 + v(4)>>)

\* The loop over quartets; what was decoded before a bad quartet stays in out.
base64_decode(in) ==
    LET n == Len(in) \div 4
        q(k) == SubSeq(in, 4 * k - 3, 4 * k)
        loop[k \in 0 .. n] ==
            IF k = 0 THEN [ok |-> TRUE, out |-> <<>>]
            ELSE IF loop[k - 1].ok /\ Quartet(q(k), k = n)
            THEN [ok |-> TRUE, out |-> loop[k - 1].out \o QuartetBytes(q(k))]
            ELSE [ok |-> FALSE, out |-> loop[k - 1].out]
    IN  IF Len(in) % 4 # 0 THEN [ok |-> FALSE, out |-> <<>>] ELSE loop[n]

\* The reference, from RFC 4648: whole groups of four, at most two padding
\* characters, all at the end; the value is the string of bits, cut to bytes.
\* Sixth are the weights of the bits in a sextet, the first bit first.
PaddedBy(in, p) ==
    /\ p <= Len(in)
    /\ \A i \in 1 .. Len(in) :
         IF i > Len(in) - p THEN in[i] = Pad ELSE tab(in[i]) >= 0

IsBase64(in) == Len(in) % 4 = 0 /\ \E p \in 0 .. 2 : PaddedBy(in, p)

Sixth == <<32, 16, 8, 4, 2, 1>>
BitOf(in, i) == (tab(in[(i \div 6) + 1]) \div Sixth[(i % 6) + 1]) % 2
ByteOf(in, j) ==
    LET b(t) == BitOf(in, 8 * (j - 1) + t)
    IN  128 * b(0) + 64 * b(1) + 32 * b(2) + 16 * b(3)
        + 8 * b(4) + 4 * b(5) + 2 * b(6) + b(7)

Base64Value(in) ==
    LET data == Len(in) - (CHOOSE p \in 0 .. 2 : PaddedBy(in, p))
    IN  [j \in 1 .. (6 * data) \div 8 |-> ByteOf(in, j)]

-----------------------------------------------------------------------------
(* parse_uuid() *)

hex(c) ==
    CASE c \in 48 .. 57  -> c - 48
      [] c \in 97 .. 102 -> c - 87
      [] c \in 65 .. 70  -> c - 55
      [] OTHER           -> -1

UuidBytes == Cardinality(Digits) \div 2

\* The scan skips a dash wherever it meets one and takes two digits elsewhere;
\* the character behind the end is the terminating zero.
parse_uuid(s) ==
    LET at(i) == IF i < Len(s) THEN s[i + 1] ELSE 0
        from[i \in 0 .. UuidSize + 1] ==
            IF i >= UuidSize THEN [ok |-> TRUE, out |-> <<>>]
            ELSE IF at(i) = Dash THEN from[i + 1]
            ELSE IF hex(at(i)) < 0 \/ hex(at(i + 1)) < 0
            THEN [ok |-> FALSE, out |-> <<>>]
            ELSE [ok  |-> from[i + 2].ok,
                  out |-> <<16 * hex(at(i)) + hex(at(i + 1))>> \o from[i + 2].out]
    IN  IF Len(s) # UuidSize \/ \E d \in Dashes : at(d) # Dash
        THEN [ok |-> FALSE, out |-> <<>>]
        ELSE [ok |-> from[0].ok /\ Len(from[0].out) = UuidBytes, out |-> from[0].out]

\* The reference: dashes exactly where they belong, digits elsewhere; a byte is
\* two digits in their order, found by how many digits come before them.
IsUuid(s) ==
    /\ Len(s) = UuidSize
    /\ \A i \in 0 .. UuidSize - 1 :
         IF i \in Dashes THEN s[i + 1] = Dash ELSE hex(s[i + 1]) >= 0

UuidValue(s) ==
    LET digit(m) == hex(s[(CHOOSE i \in Digits : Before(i) = m) + 1])
    IN  [j \in 1 .. UuidBytes |-> 16 * digit(2 * j - 2) + digit(2 * j - 1)]

-----------------------------------------------------------------------------
(* Cidr::parse(), the part behind the slash *)

max_prefix(family) == IF family = "V4" THEN 32 ELSE 128

\* The loop over digits leaves as soon as the number passes 128.
ParsePrefix(family, s) ==
    LET loop[k \in 0 .. Len(s)] ==
            IF k = 0 THEN 0
            ELSE IF loop[k - 1] < 0 \/ s[k] \notin 48 .. 57 THEN -1
            ELSE LET plen == loop[k - 1] * 10 + (s[k] - 48)
                 IN  IF plen > 128 THEN -1 ELSE plen
        plen == loop[Len(s)]
    IN  IF plen > max_prefix(family) THEN -1 ELSE plen

\* The reference: a decimal number within the family's width.  No digits at all
\* stand for 0, which is what the loop of the code makes of them.
PrefixValue(family, s) ==
    LET value[k \in 0 .. Len(s)] ==
            IF k = 0 THEN 0 ELSE value[k - 1] * 10 + (s[k] - 48)
    IN  IF (\A k \in 1 .. Len(s) : s[k] \in 48 .. 57)
           /\ value[Len(s)] <= max_prefix(family)
        THEN value[Len(s)] ELSE -1

-----------------------------------------------------------------------------
(* One text at a time is given to its decoder. *)

NoInput == [kind |-> "none", text |-> <<>>]

CodecInit == input = NoInput
Decode == input = NoInput /\ input' \in Inputs

CodecSpec == CodecInit /\ [][Decode]_input

\* A verdict and, when it is good, a value that are those of the reference.
agrees(d, ok, value) == d.ok = ok /\ (ok => d.out = value)

\* Every decoder accepts exactly the texts its reference accepts and gives the
\* same value: base64 with its padding, the UUID text with dashes nowhere but
\* in their places (and never more bytes written than the array holds), the
\* prefix length within its family, and a frame that encodes back to the
\* datagram it was decoded from.
DecodersExact ==
    LET s == input.text
    IN  /\ input.kind = "base64" => agrees(base64_decode(s), IsBase64(s), Base64Value(s))
        /\ input.kind = "uuid" =>
             /\ agrees(parse_uuid(s), IsUuid(s), UuidValue(s))
             /\ Len(parse_uuid(s).out) <= UuidBytes
        /\ input.kind = "prefix" =>
             \A f \in {"V4", "V6"} : ParsePrefix(f, s) = PrefixValue(f, s)
        /\ input.kind = "frame" /\ decodable(s) => encode(decode(s)) = s
=============================================================================
