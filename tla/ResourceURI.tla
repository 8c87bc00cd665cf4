------------------------------- MODULE ResourceURI -------------------------------
(* The canonical URIs of package uri and the keys of types.go: a record is     *)
(* known to the stores and to the routing by the text of its URI alone, so     *)
(* that every resource and key must have one spelling, and only one.           *)
(*                                                                             *)
(* Text is a sequence of byte codes, as in Go.  The numbers that are scaled    *)
(* down are constants: the length limits and the bytes of an int64 key.        *)
EXTENDS Integers, Sequences, SequencesExt

CONSTANTS
    MaxAddressBytes,   \* 16 KiB in the code
    MaxStoreBytes,     \* 256 in the code
    IntBytes,          \* 8 in the code: the bytes of an int64 key
    Stores,            \* store names an application may use
    Paths,             \* lists of segments
    Keys,              \* keys of the SDK: their kind, data and opaque type
    Offered,           \* texts an application is given as addresses
    Error

ASSUME IntWidth == IntBytes \in Nat \ {0}

Text == Seq(0 .. 255)

KeyTypes == {"unspecified", "string", "int64", "bytes", "opaque"}

\* The integers of IntBytes bytes: half of them are negative.
IntLimit ==
    LET limit[n \in 0 .. IntBytes - 1] == IF n = 0 THEN 128 ELSE 256 * limit[n - 1]
    IN  limit[IntBytes - 1]

Int64 == -IntLimit .. IntLimit - 1

\* Names, segments, keys and addresses are made of bytes, and an int64 fits its width.
ASSUME InputsAssumption ==
    /\ Stores \subseteq Text
    /\ Paths \subseteq Seq(Text)
    /\ \A k \in Keys :
           /\ k.kind \in KeyTypes
           /\ k.opaqueType \in Text
           /\ IF k.kind = "int64" THEN k.value \in Int64 ELSE k.value \in Text
    /\ Offered \subseteq Text

\* Error is none of the values that the operators below return.
ASSUME ErrorAssumption ==
    /\ Error \notin Int \cup Text
    /\ Error \notin [Type : KeyTypes, kind : Text, Data : Text]

VARIABLE known         \* the addresses the application has, two at a time

Slash == 47
Dot == 46
Colon == 58
Percent == 37
Minus == 45
Plus == 43

--------------------------------------------------------------------------------
(* Text: net/url, unicode/utf8, encoding/base64 and strconv *)

Digit == 48 .. 57
Lower == 97 .. 122
Upper == 65 .. 90

\* url.PathEscape leaves these alone: letters, digits and - _ . ~ $ & + : = @
Unescaped == Digit \cup Lower \cup Upper \cup {45, 95, 46, 126, 36, 38, 43, 58, 61, 64}

HexDigit(n) == IF n < 10 THEN 48 + n ELSE 55 + n

HexValue(b) == IF b \in Digit THEN b - 48 ELSE IF b \in 65 .. 70 THEN b - 55 ELSE b - 87

IsHex(b) == b \in Digit \cup (65 .. 70) \cup (97 .. 102)

EscapedByte(b) ==
    IF b \in Unescaped THEN <<b>> ELSE <<Percent, HexDigit(b \div 16), HexDigit(b % 16)>>

PathEscape(s) == FlattenSeq([i \in DOMAIN s |-> EscapedByte(s[i])])

\* The bytes between two escapes stand for themselves.
PathUnescape(s) ==
    LET escapes == {i \in DOMAIN s : s[i] = Percent}
        digits == {i + 1 : i \in escapes} \cup {i + 2 : i \in escapes}
        byte(i) == IF i \in escapes THEN 16 * HexValue(s[i + 1]) + HexValue(s[i + 2]) ELSE s[i]
        text[n \in 0 .. Len(s)] ==
            IF n = 0 THEN << >>
            ELSE IF n \in digits THEN text[n - 1] ELSE Append(text[n - 1], byte(n))
    IN  IF \A i \in digits : i \in DOMAIN s /\ IsHex(s[i]) THEN text[Len(s)] ELSE Error

\* A byte below 128 stands for itself; another one begins a character and has
\* the bytes that follow from it, or is one of those.  No character is spelt in
\* more bytes than it needs, none is a surrogate, none lies beyond U+10FFFF.
ValidUTF8(s) ==
    LET followers(b) ==
            IF b \in 194 .. 223 THEN 1
            ELSE IF b \in 224 .. 239 THEN 2 ELSE IF b \in 240 .. 244 THEN 3 ELSE 0
        second(b) ==
            CASE b = 224 -> 160 .. 191 [] b = 237 -> 128 .. 159
              [] b = 240 -> 144 .. 191 [] b = 244 -> 128 .. 143 [] OTHER -> 128 .. 191
    IN  \A i \in DOMAIN s :
            \/ s[i] < 128
            \/ /\ followers(s[i]) > 0 /\ i + followers(s[i]) <= Len(s)
               /\ s[i + 1] \in second(s[i])
               /\ \A k \in 2 .. followers(s[i]) : s[i + k] \in 128 .. 191
            \/ /\ s[i] \in 128 .. 191
               /\ \E k \in 1 .. 3 : k < i /\ k <= followers(s[i - k])

Base64Char(n) ==
    IF n < 26 THEN 65 + n
    ELSE IF n < 52 THEN 71 + n
    ELSE IF n < 62 THEN n - 4
    ELSE IF n = 62 THEN 45 ELSE 95

Base64Chars == {Base64Char(n) : n \in 0 .. 63}

Base64Value == [b \in Base64Chars |-> CHOOSE n \in 0 .. 63 : Base64Char(n) = b]

\* base64.RawURLEncoding, three bytes at a time: four characters, or one more
\* than the bytes that are left.
EncodeBase64(s) ==
    LET byte(i) == IF i <= Len(s) THEN s[i] ELSE 0
        group(i) == LET b1 == byte(i) b2 == byte(i + 1) b3 == byte(i + 2)
                    IN  <<b1 \div 4, (b1 % 4) * 16 + (b2 \div 16),
                          (b2 % 16) * 4 + (b3 \div 64), b3 % 64>>
        len == (8 * Len(s) + 5) \div 6
    IN  [k \in 1 .. len |->
            Base64Char(group(3 * ((k - 1) \div 4) + 1)[((k - 1) % 4) + 1])]

WithoutLineEnds(s) ==
    LET text[n \in 0 .. Len(s)] ==
            IF n = 0 THEN << >>
            ELSE IF s[n] \in {10, 13} THEN text[n - 1] ELSE Append(text[n - 1], s[n])
    IN  text[Len(s)]

\* Strict: no other character, no length that no bytes have, no bits left over.
\* Line ends are skipped all the same.
DecodeBase64(text) ==
    LET s == WithoutLineEnds(text)
        sym(i) == IF i <= Len(s) THEN Base64Value[s[i]] ELSE 0
        len == (6 * Len(s)) \div 8
        group(i) == LET n1 == sym(i) n2 == sym(i + 1) n3 == sym(i + 2) n4 == sym(i + 3)
                    IN  <<n1 * 4 + (n2 \div 16), (n2 % 16) * 16 + (n3 \div 4), (n3 % 4) * 64 + n4>>
        bytes == [k \in 1 .. len |-> group(4 * ((k - 1) \div 3) + 1)[((k - 1) % 3) + 1]]
    IN  IF Range(s) \subseteq Base64Chars /\ Len(s) % 4 # 1 /\ EncodeBase64(bytes) = s
        THEN bytes ELSE Error

FormatNat(n) ==
    LET decimal[m \in 0 .. n] ==
            IF m < 10 THEN <<48 + m>> ELSE Append(decimal[m \div 10], 48 + (m % 10))
    IN  decimal[n]

FormatInt(n) == IF n < 0 THEN <<Minus>> \o FormatNat(-n) ELSE FormatNat(n)

Number(digits) ==
    LET number[n \in 0 .. Len(digits)] ==
            IF n = 0 THEN 0 ELSE 10 * number[n - 1] + digits[n] - 48
    IN  number[Len(digits)]

\* A sign is allowed, and so are leading zeros; the value must fit.
ParseInt(s) ==
    LET signed == s # << >> /\ s[1] \in {Plus, Minus}
        digits == IF signed THEN Tail(s) ELSE s
        value == IF signed /\ s[1] = Minus THEN -Number(digits) ELSE Number(digits)
    IN  IF /\ digits # << >> /\ Range(digits) \subseteq Digit
           /\ value \in Int64
        THEN value ELSE Error

\* strings.Cut and strings.Split
Positions(s, b) == {i \in DOMAIN s : s[i] = b}

Before(s, b) == IF Positions(s, b) = {} THEN s ELSE SubSeq(s, 1, Min(Positions(s, b)) - 1)

After(s, b) == SubSeq(s, Len(Before(s, b)) + 2, Len(s))

Split(s, b) ==
    LET parts[n \in 0 .. Len(s)] ==
            IF n = 0 THEN <<<< >>>>
            ELSE LET done == parts[n - 1]
                 IN  IF s[n] = b THEN Append(done, << >>)
                     ELSE [done EXCEPT ![Len(done)] = Append(@, s[n])]
    IN  parts[Len(s)]

Join(parts, b) ==
    FlattenSeq([k \in DOMAIN parts |-> IF k = 1 THEN parts[k] ELSE <<b>> \o parts[k]])

--------------------------------------------------------------------------------
(* address.go *)

\* "sink://"
Scheme == <<115, 105, 110, 107, 58, 47, 47>>

ValidStore(s) ==
    /\ Len(s) \in 1 .. MaxStoreBytes
    /\ \A i \in DOMAIN s : s[i] \in Lower \cup Digit \/ (i > 1 /\ s[i] \in {45, 95, 46})

validSegment(s) == s \notin {<< >>, <<Dot>>, <<Dot, Dot>>} /\ ValidUTF8(s)

\* Faulty variant: every spelling of a segment is accepted.
AnySpelling(part) == PathUnescape(part) # Error /\ validSegment(PathUnescape(part))

CanonicalPart(part) ==
    /\ PathUnescape(part) # Error
    /\ validSegment(PathUnescape(part))
    /\ PathEscape(PathUnescape(part)) = part

Parse(value) ==
    LET remainder == SubSeq(value, Len(Scheme) + 1, Len(value))
        store == Before(remainder, Slash)
        root == Positions(remainder, Slash) = {}
        parts == IF root THEN << >> ELSE Split(After(remainder, Slash), Slash)
    IN  IF /\ Len(value) <= MaxAddressBytes
           /\ IsPrefix(Scheme, value)
           /\ ValidStore(store)
           /\ \A k \in DOMAIN parts : CanonicalPart(parts[k])
        THEN [value |-> value, store |-> store,
              segments |-> [k \in DOMAIN parts |-> PathUnescape(parts[k])]]
        ELSE Error

New(store, segments) ==
    IF segments = << >>
    THEN Parse(Scheme \o store)
    ELSE Parse(Scheme \o store \o <<Slash>>
                 \o Join([k \in DOMAIN segments |-> PathEscape(segments[k])], Slash))

--------------------------------------------------------------------------------
(* key.go *)

\* int64(binary.BigEndian.Uint64(data)): two's complement, the highest byte first.
Signed(data) ==
    LET value[n \in 0 .. IntBytes] ==
            IF n = 0 THEN (IF data[1] < 128 THEN 0 ELSE -1)
            ELSE 256 * value[n - 1] + data[n]
    IN  value[IntBytes]

\* binary.BigEndian.PutUint64(data, uint64(n))
PutUint64(n) ==
    LET shifted[k \in 0 .. IntBytes - 1] == IF k = 0 THEN n ELSE shifted[k - 1] \div 256
    IN  [i \in 1 .. IntBytes |-> shifted[IntBytes - i] % 256]

\* Faulty variant: the opaque type as it is.
FormatKeyPlainType(key) ==
    CASE key.Type = "string" /\ ValidUTF8(key.Data) -> <<115, Colon>> \o key.Data
      [] key.Type = "int64" /\ Len(key.Data) = IntBytes -> <<105, Colon>> \o FormatInt(Signed(key.Data))
      [] key.Type = "bytes" -> <<98, Colon>> \o EncodeBase64(key.Data)
      [] key.Type = "opaque" /\ key.kind # << >> /\ ValidUTF8(key.kind) ->
            <<111, Colon>> \o key.kind \o <<Colon>> \o key.Data
      [] OTHER -> Error

FormatKey(key) ==
    CASE key.Type = "string" /\ ValidUTF8(key.Data) -> <<115, Colon>> \o key.Data
      [] key.Type = "int64" /\ Len(key.Data) = IntBytes -> <<105, Colon>> \o FormatInt(Signed(key.Data))
      [] key.Type = "bytes" -> <<98, Colon>> \o EncodeBase64(key.Data)
      [] key.Type = "opaque" /\ key.kind # << >> /\ ValidUTF8(key.kind) ->
            <<111, Colon>> \o EncodeBase64(key.kind) \o <<Colon>> \o EncodeBase64(key.Data)
      [] OTHER -> Error

URIKey(type, kind, data) == [Type |-> type, kind |-> kind, Data |-> data]

\* The key that a segment spells, in whatever way.
ReadKey(segment) ==
    LET tag == Before(segment, Colon)
        value == After(segment, Colon)
    IN  IF Positions(segment, Colon) = {} THEN Error
        ELSE CASE tag = <<115>> -> URIKey("string", << >>, value)
               [] tag = <<98>> -> URIKey("bytes", << >>, DecodeBase64(value))
               [] tag = <<105>> ->
                     IF ParseInt(value) = Error THEN Error
                     ELSE URIKey("int64", << >>, PutUint64(ParseInt(value)))
               [] tag = <<111>> /\ Positions(value, Colon) # {} ->
                     URIKey("opaque", DecodeBase64(Before(value, Colon)),
                            DecodeBase64(After(value, Colon)))
               [] OTHER -> Error

ParseKey(segment) ==
    LET key == ReadKey(segment)
    IN  IF key # Error /\ Error \notin {key.kind, key.Data} /\ FormatKey(key) = segment
        THEN key ELSE Error

AppendKey(resource, key) ==
    LET base == Parse(resource)
        segment == FormatKey(key)
    IN  IF Error \in {base, segment} THEN Error
        ELSE Parse(base.value \o <<Slash>> \o PathEscape(segment))

--------------------------------------------------------------------------------
(* types.go *)

\* Key.validate, with the constructor OpaqueKey
ValidKey(k) == k.kind # "unspecified" /\ (k.kind = "opaque" => k.opaqueType # << >>)

uriKey(k) ==
    CASE k.kind = "int64" -> URIKey("int64", << >>, PutUint64(k.value))
      [] k.kind = "opaque" -> URIKey("opaque", k.opaqueType, k.value)
      [] OTHER -> URIKey(k.kind, << >>, k.value)

NewRecordAddress(resource, k) ==
    IF ValidKey(k) THEN AppendKey(resource, uriKey(k)) ELSE Error

NewAddress(value) ==
    LET parsed == Parse(value)
    IN  IF parsed # Error /\ parsed.segments = << >> THEN Error ELSE parsed

--------------------------------------------------------------------------------

URIInit == known = << >>

Learn(resource, key, address) ==
    known' = Append(known, [resource |-> resource, key |-> key, address |-> address])

\* A resource, and a record in it.
MakeRecord(store, path, k) ==
    /\ Len(known) < 2
    /\ New(store, path) # Error
    /\ LET resource == New(store, path).value
       IN  Learn(resource, uriKey(k), NewRecordAddress(resource, k))

\* What people and programs make of a URI: an escape in small letters, an
\* escape nobody needs, a reserved byte as it is, a byte or a line end more.
Respellings(s) ==
    {[s EXCEPT ![i] = @ + 32] : i \in {i \in DOMAIN s : s[i] \in Upper}}
    \cup {ReplaceAt(s, i, 37) : i \in DOMAIN s}
    \cup {SubSeq(s, 1, i - 1) \o <<Percent, HexDigit(s[i] \div 16), HexDigit(s[i] % 16)>>
            \o SubSeq(s, i + 1, Len(s)) : i \in {i \in DOMAIN s : i > Len(Scheme)}}
    \cup {SubSeq(s, 1, i - 1) \o <<16 * HexValue(s[i + 1]) + HexValue(s[i + 2])>>
            \o SubSeq(s, i + 3, Len(s)) : i \in Positions(s, Percent)}
    \cup {SubSeq(s, 1, i) \o b \o SubSeq(s, i + 1, Len(s)) : i \in Len(Scheme) .. Len(s),
            b \in {<<Slash>>, <<Dot>>, <<48>>, <<Plus>>, <<Minus>>, <<Percent, 48, 65>>}}

\* An address from text, whoever wrote it.
TakeAddress(value) ==
    /\ Len(known) < 2
    /\ Learn(Error, Error, NewAddress(value))

Forget ==
    /\ Len(known) = 2
    /\ known' = << >>

URINext ==
    \/ \E store \in Stores, path \in Paths, k \in Keys : MakeRecord(store, path, k)
    \/ \E value \in Offered : TakeAddress(value)
    \/ /\ Len(known) = 1 /\ known[1].address # Error
       /\ \E value \in Respellings(known[1].address.value) : TakeAddress(value)
    \/ Forget

URISpec == URIInit /\ [][URINext]_known

--------------------------------------------------------------------------------

Made(e) == e.key # Error /\ e.address # Error

\* Two records have the same URI only if they are the same: the same resource
\* and the same key, its type included.  The key and the resource can be read
\* back from the URI.
KeyIdentity ==
    \A i, j \in DOMAIN known :
        Made(known[i]) /\ Made(known[j]) =>
            LET a == known[i].address b == known[j].address
            IN  /\ (a.value = b.value) =
                      (known[i].resource = known[j].resource /\ known[i].key = known[j].key)
                /\ ParseKey(Last(a.segments)) = known[i].key
                /\ New(a.store, Front(a.segments)).value = known[i].resource

\* No resource has a second name: two accepted URIs with the same store and
\* segments are the same text, and so are two whose last segments are read as
\* the same key.
OneSpelling ==
    \A i, j \in DOMAIN known :
        LET a == known[i].address b == known[j].address
        IN  Error \notin {a, b} /\ a.store = b.store =>
                /\ a.segments = b.segments => a.value = b.value
                /\ Front(a.segments) = Front(b.segments)
                     /\ ParseKey(Last(a.segments)) = ParseKey(Last(b.segments))
                     /\ ParseKey(Last(a.segments)) # Error
                   => a.value = b.value

================================================================================
