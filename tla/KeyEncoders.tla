----------------------------- MODULE KeyEncoders -----------------------------
(***************************************************************************)
(* The encoders that turn a field value into one segment of a key          *)
(* (runtime/encode.go), their inverses, and the predecessors that stand in *)
(* for an exclusive bound (runtime/pred.go).                               *)
(*                                                                         *)
(* A string is the sequence of its Unicode code points, whose order is the *)
(* order of the UTF-8 bytes DynamoDB compares.  The value of a field is a  *)
(* sequence of integers: the characters of a string, the bytes of a byte   *)
(* slice or array, or the one integer of a number or of a time in ticks.   *)
(***************************************************************************)
EXTENDS Integers, SequencesExt

CONSTANTS
  Width,    \* encoder name -> its fixed width (30, 12, 15 and 26 in the code)
  Unit,     \* encoder name -> ticks in its unit (epoch, epochms)
  MaxInt64, \* the greatest integer that the decoders parse (2^63 - 1)
  UpperOf,  \* what strings.ToUpper makes of characters beyond ASCII
  LowerOf   \* and strings.ToLower: functions on those that they change

FixedEncoders == {"rfc3339", "epoch", "epochms", "ulid"}

ASSUME WidthAssumption == Width \in [FixedEncoders -> Nat \ {0}]
ASSUME UnitAssumption == Unit \in [{"epoch", "epochms"} -> Nat \ {0}]
ASSUME MaxInt64Assumption == MaxInt64 \in Nat

\* An encoder: its name, and N for pad<N>.
Enc(name) == [name |-> name, width |-> 0]
Raw == Enc("")
Pad(n) == [name |-> "pad", width |-> n]
Strings == {"", "upper", "lower", "ulid", "urlenc"}

\* Code points, and the Go types of key fields as far as the encoders tell
\* them apart.
MaxRune == 1114111
Char == 0 .. MaxRune
Byte == 0 .. 255
ByteArrays == {"[1]byte", "[2]byte"}
ArrayLength == [goType \in ByteArrays |-> IF goType = "[1]byte" THEN 1 ELSE 2]
Unsigned == {"uint", "uint8", "uint16", "uint32", "uint64"}

\* The error of an encoder, or of a predecessor that does not exist.
Refused == <<-1>>

Hash == 35
Zero == 48
\* MaxKeySuffix, U+FFFF.
MaxKeySuffix == <<65535>>

------------------------------------------------------------------------------
(* Text.                                                                   *)

\* Mutant of CheckSegment: a value with a delimiter is let through.
CheckNotEmpty(s) == IF s = <<>> THEN Refused ELSE s

CheckSegment(s) == IF s = <<>> \/ Contains(s, Hash) THEN Refused ELSE s

\* strings.ToUpper and strings.ToLower, character by character.  One beyond
\* ASCII can become a letter of it: U+017F has the upper case S, U+212A the
\* lower case k.
Ascii == 0 .. 127
AllAscii(s) == \A i \in DOMAIN s : s[i] \in Ascii
AsciiUpper(c) == IF c \in 97..122 THEN c - 32 ELSE c
AsciiLower(c) == IF c \in 65..90 THEN c + 32 ELSE c
UpperLetter(c) == IF c \in DOMAIN UpperOf THEN UpperOf[c] ELSE AsciiUpper(c)
LowerLetter(c) == IF c \in DOMAIN LowerOf THEN LowerOf[c] ELSE AsciiLower(c)
Upper(s) == [i \in DOMAIN s |-> UpperLetter(s[i])]
Lower(s) == [i \in DOMAIN s |-> LowerLetter(s[i])]

\* Unicode's simple case mappings: none leaves the plane of U+FFFF or gives
\* U+FFFF, and what they give they leave alone.
CaseTable(f) ==
  \A c \in DOMAIN f :
    /\ c \in Char /\ c \notin Ascii /\ f[c] \in Char
    /\ c < MaxKeySuffix[1] => f[c] < MaxKeySuffix[1]
ASSUME CaseAssumption ==
  /\ CaseTable(UpperOf) /\ \A c \in DOMAIN UpperOf : UpperLetter(UpperOf[c]) = UpperOf[c]
  /\ CaseTable(LowerOf) /\ \A c \in DOMAIN LowerOf : LowerLetter(LowerOf[c]) = LowerOf[c]

\* Digits of a number in ascending order of their characters: 0-9 then from.
Digit(d, from) == IF d < 10 THEN Zero + d ELSE from + d - 10
DigitValue(c, from) == IF c < from THEN c - Zero ELSE c - from + 10
HexDigits == (Zero .. Zero + 9) \cup (97 .. 102)

EncodeHex(b) ==
  [i \in 1 .. 2 * Len(b) |->
     LET byte == b[(i + 1) \div 2]
     IN  Digit(IF i % 2 = 1 THEN byte \div 16 ELSE byte % 16, 97)]

DecodeHex(s) ==
  LET l == [i \in DOMAIN s |-> AsciiLower(s[i])]
  IN  IF (Len(s) % 2 = 1) \/ ToSet(l) \ HexDigits # {} THEN Refused
      ELSE [i \in 1 .. Len(s) \div 2 |->
              16 * DigitValue(l[2 * i - 1], 97) + DigitValue(l[2 * i], 97)]

\* The UTF-8 bytes of a character, and the character whose first byte is at
\* a place of the bytes of a text: none at a byte that continues one.
Continuation(c) == 128 + (c % 64)
UTF8(c) ==
  CASE c < 128 -> <<c>>
    [] 128 <= c /\ c < 2048 -> <<192 + (c \div 64), Continuation(c)>>
    [] 2048 <= c /\ c < 65536 -> <<224 + (c \div 4096), Continuation(c \div 64), Continuation(c)>>
    [] 65536 <= c -> <<240 + (c \div 262144), Continuation(c \div 4096),
                       Continuation(c \div 64), Continuation(c)>>

CharAt(b, i) ==
  LET low(k) == b[i + k] - 128
  IN  CASE b[i] < 128 -> <<b[i]>>
        [] 128 <= b[i] /\ b[i] < 192 -> <<>>
        [] 192 <= b[i] /\ b[i] < 224 -> <<64 * (b[i] - 192) + low(1)>>
        [] 224 <= b[i] /\ b[i] < 240 -> <<4096 * (b[i] - 224) + 64 * low(1) + low(2)>>
        [] 240 <= b[i] -> <<262144 * (b[i] - 240) + 4096 * low(1) + 64 * low(2) + low(3)>>

ToBytes(s) == FlattenSeq([i \in DOMAIN s |-> UTF8(s[i])])
FromBytes(b) == FlattenSeq([i \in DOMAIN b |-> CharAt(b, i)])

\* url.QueryEscape and QueryUnescape, byte by byte: a percent sign and two
\* hexadecimal digits stand for a byte, a plus for a space.
Unescaped == (48 .. 57) \cup (65 .. 90) \cup (97 .. 122) \cup {45, 46, 95, 126}
Percent == 37
EscapeByte(c) == CASE c \in Unescaped -> <<c>>
                   [] c = 32 -> <<43>>
                   [] OTHER -> <<Percent, Digit(c \div 16, 65), Digit(c % 16, 65)>>
Escape(b) == FlattenSeq([i \in DOMAIN b |-> EscapeByte(b[i])])

InEscape(s, i) == \E j \in {i - 1, i - 2} \cap DOMAIN s : s[j] = Percent
UnescapeAt(s, i) ==
  IF InEscape(s, i) THEN <<>>
  ELSE CASE s[i] = Percent -> DecodeHex(<<s[i + 1], s[i + 2]>>)
         [] s[i] = 43 -> <<32>>
         [] OTHER -> UTF8(s[i])
Unescape(s) == FlattenSeq([i \in DOMAIN s |-> UnescapeAt(s, i)])

BadEscape(s, i) ==
  s[i] = Percent /\ (i + 2 > Len(s) \/ DecodeHex(<<s[i + 1], s[i + 2]>>) = Refused)

EncodeURL(s) == Escape(ToBytes(s))
DecodeURL(s) ==
  IF \E i \in DOMAIN s : BadEscape(s, i) THEN Refused ELSE FromBytes(Unescape(s))

\* 0-9 and the capital letters without I, L, O and U.
Crockford == <<48, 49, 50, 51, 52, 53, 54, 55, 56, 57,
               65, 66, 67, 68, 69, 70, 71, 72, 74, 75, 77, 78,
               80, 81, 82, 83, 84, 86, 87, 88, 89, 90>>

\* The length is that of the bytes, and is checked before upper-casing: with
\* U+017F, of two bytes, in it a text passes and becomes a shorter one.
EncodeULID(s) ==
  LET u == Upper(s)
  IN  IF \/ Len(ToBytes(s)) # Width["ulid"]
         \/ u[1] > 55
         \/ \E i \in DOMAIN u : ~Contains(Crockford, u[i])
      THEN Refused ELSE u

------------------------------------------------------------------------------
(* Numbers and times: zero-padded decimals of a fixed width.  A time of    *)
(* rfc3339 is a number of ticks since year 1, likewise of a fixed width;   *)
(* one outside the years 1 to 9999 would change it.                        *)

\* The powers of ten.
Tens[k \in Nat] == IF k = 0 THEN 1 ELSE 10 * Tens[k - 1]

Fits(n, width) == n >= 0 /\ n < Tens[width]
Decimal(n, width) == [i \in 1 .. width |-> Zero + ((n \div Tens[width - i]) % 10)]

padInt(n, width) == IF Fits(n, width) THEN Decimal(n, width) ELSE Refused

\* What the digits say; ParseInt refuses what an int64 does not hold.
Digits(s, width) == Len(s) = width /\ ToSet(s) \subseteq Zero .. Zero + 9
Parsed(s) ==
  LET value[k \in 0 .. Len(s)] == IF k = 0 THEN 0 ELSE 10 * value[k - 1] + s[k] - Zero
  IN  value[Len(s)]

unpadInt(s, width) ==
  IF Digits(s, width) /\ Parsed(s) <= MaxInt64 THEN <<Parsed(s)>> ELSE Refused
DecodeRFC3339(s) == IF Digits(s, Width["rfc3339"]) THEN <<Parsed(s)>> ELSE Refused

\* Twelve and fifteen digits fit.
ASSUME EpochsFit == \A name \in {"epoch", "epochms"} : Tens[Width[name]] <= MaxInt64 + 1

\* The number an encoder pads, and how wide.
PadWidth(enc) == IF enc.name = "pad" THEN enc.width ELSE Width[enc.name]
Number(enc, goType, v) ==
  IF goType = "time.Time" /\ enc.name # "rfc3339" THEN v[1] \div Unit[enc.name]
  ELSE v[1]

------------------------------------------------------------------------------
(* One placeholder: what the generated code calls for it (encodeExpr,      *)
(* codegen/model.go) and what the generator's own engine does              *)
(* (EncodeSegment and DecodeSegment, keytmpl/encode.go).                   *)

EncodeValue(enc, goType, v) ==
  CASE enc.name = ""       -> CheckSegment(v)
    [] enc.name = "upper"  -> CheckSegment(Upper(v))
    [] enc.name = "lower"  -> CheckSegment(Lower(v))
    [] enc.name = "urlenc" -> CheckSegment(EncodeURL(v))
    [] enc.name = "ulid"   -> EncodeULID(v)
    [] enc.name = "hex"    -> IF goType = "[]byte" THEN CheckSegment(EncodeHex(v))
                              ELSE EncodeHex(v)
    [] OTHER -> padInt(Number(enc, goType, v), PadWidth(enc))

EncodeSegment(enc, goType, v) ==
  CASE enc.name = "hex"    -> IF goType = "[]byte" THEN EncodeHex(v) ELSE Refused
    [] enc.name = "pad" /\ goType \in {"uint", "uint8", "uint16"} -> Refused
    [] enc.name = "urlenc" -> EncodeURL(v)
    [] OTHER -> EncodeValue(enc, goType, v)

\* Mutant of DecodeSegment: an escaped value is not unescaped.
DecodeAsStored(enc, s) ==
  CASE enc.name \in {"", "upper", "lower", "urlenc"} -> s
    [] enc.name = "hex"    -> DecodeHex(s)
    [] enc.name = "ulid"   -> EncodeULID(s)
    [] enc.name = "rfc3339" -> DecodeRFC3339(s)
    [] OTHER -> unpadInt(s, PadWidth(enc))

DecodeSegment(enc, s) ==
  CASE enc.name \in {"", "upper", "lower"} -> s
    [] enc.name = "hex"    -> DecodeHex(s)
    [] enc.name = "ulid"   -> EncodeULID(s)
    [] enc.name = "urlenc" -> DecodeURL(s)
    [] enc.name = "rfc3339" -> DecodeRFC3339(s)
    [] OTHER -> unpadInt(s, PadWidth(enc))

\* encodeExpr: which Go types it has a call for.
EncodesType(enc, goType) ==
  CASE enc.name \in Strings -> goType = "string"
    [] enc.name = "rfc3339" -> goType = "time.Time"
    [] enc.name \in {"epoch", "epochms"} -> goType \in {"time.Time", "int64"}
    [] enc.name = "hex" -> goType = "[]byte" \/ goType \in ByteArrays
    [] enc.name = "pad" -> goType = "int64" \/ goType \in Unsigned

------------------------------------------------------------------------------
(* Predecessors: the encoding of the largest value strictly below.         *)

predAlphabet(s, alphabet) ==
  LET above == {i \in DOMAIN s : s[i] # alphabet[1]}
      last == CHOOSE i \in above : \A j \in above : j <= i
      at == CHOOSE k \in DOMAIN alphabet : alphabet[k] = s[last]
  IN  IF above = {} \/ ~Contains(alphabet, s[last]) THEN Refused
      ELSE [i \in DOMAIN s |-> CASE i < last -> s[i]
                                 [] i = last -> alphabet[at - 1]
                                 [] i > last -> alphabet[Len(alphabet)]]

PredPad(n, width) == IF n <= 0 THEN Refused ELSE padInt(n - 1, width)

PredULID(s) == IF EncodeULID(s) = Refused THEN Refused
               ELSE predAlphabet(EncodeULID(s), Crockford)

PredHex(s) == predAlphabet(Lower(s), [d \in 1 .. 16 |-> Digit(d - 1, 97)])

\* predCallFor and rangeFor (codegen/patterns.go).
Pred(enc, goType, v) ==
  CASE enc.name = "ulid" -> PredULID(v)
    [] enc.name = "hex"  -> PredHex(EncodeHex(v))
    [] OTHER -> PredPad(Number(enc, goType, v), PadWidth(enc))
==============================================================================
