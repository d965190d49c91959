-------------------------- MODULE ImportPromptProofs --------------------------
(***************************************************************************)
(* For every size of the buffers, however long the operator types and          *)
(* whatever the characters are: the import writes past no buffer, what it       *)
(* decodes is what was sent, and it is what base64_encode would have printed.  *)
(***************************************************************************)
EXTENDS ImportPrompt, TLAPS

(* A group of four is the tuple of its four characters. *)
LEMMA FourParts ==
    ASSUME NEW q \in Fours
    PROVE  /\ q = <<q[1], q[2], q[3], q[4]>>
           /\ q[1] \in Char /\ q[2] \in Char /\ q[3] \in Char /\ q[4] \in Char
  BY DEF Fours

(* Any four characters form a group. *)
LEMMA FourMade ==
    ASSUME NEW a \in Char, NEW b \in Char, NEW c \in Char, NEW d \in Char
    PROVE  <<a, b, c, d>> \in Fours
  BY DEF Fours

(* The verdict of the decoder on a quad whose characters are known.            *)
LEMMA SymbolValue == \A a \in Symbol : a # Pad /\ Value(a) = a /\ a >= 0
  BY DEF Symbol, Pad, Value

(* A last group with two pads and no stray bits is accepted and gives one byte. *)
LEMMA Verdict1 ==
    ASSUME NEW a \in Symbol, NEW b \in Symbol, b % 16 = 0
    PROVE  /\ Accepted(<<a, b, Pad, Pad>>, TRUE)
           /\ DecodedGroup(<<a, b, Pad, Pad>>) = <<a * 4 + b \div 16>>
<1>. DEFINE q == <<a, b, Pad, Pad>>
<1>1. q[1] = a /\ q[2] = b /\ q[3] = Pad /\ q[4] = Pad
  OBVIOUS
<1>. HIDE DEF q
<1>2. Taken(q) = 1
  BY <1>1 DEF Taken
<1>3. 1..(Taken(q) + 1) = {1, 2}
  BY <1>2
<1>4. Accepted(q, TRUE)
  BY <1>1, <1>2, <1>3, SymbolValue DEF Accepted
<1>5. DecodedGroup(q) = <<a * 4 + b \div 16>>
  BY <1>1, <1>2, SymbolValue DEF DecodedGroup
<1>. QED BY <1>4, <1>5 DEF q

(* A last group with one pad and no stray bits is accepted and gives two bytes. *)
LEMMA Verdict2 ==
    ASSUME NEW a \in Symbol, NEW b \in Symbol, NEW c \in Symbol, c % 4 = 0
    PROVE  /\ Accepted(<<a, b, c, Pad>>, TRUE)
           /\ DecodedGroup(<<a, b, c, Pad>>)
                = <<a * 4 + b \div 16, (b % 16) * 16 + c \div 4>>
<1>. DEFINE q == <<a, b, c, Pad>>
<1>1. q[1] = a /\ q[2] = b /\ q[3] = c /\ q[4] = Pad
  OBVIOUS
<1>. HIDE DEF q
<1>2. Taken(q) = 2
  BY <1>1, SymbolValue DEF Taken
<1>3. 1..(Taken(q) + 1) = {1, 2, 3}
  BY <1>2
<1>4. Accepted(q, TRUE)
  BY <1>1, <1>2, <1>3, SymbolValue DEF Accepted
<1>5. DecodedGroup(q) = <<a * 4 + b \div 16, (b % 16) * 16 + c \div 4>>
  BY <1>1, <1>2, SymbolValue DEF DecodedGroup
<1>. QED BY <1>4, <1>5 DEF q

Three(a, b, c, d) ==
    <<a * 4 + b \div 16, (b % 16) * 16 + c \div 4, (c % 4) * 64 + d>>

(* A group without padding, last or not, is accepted and gives its three bytes. *)
LEMMA Verdict3 ==
    ASSUME NEW a \in Symbol, NEW b \in Symbol, NEW c \in Symbol, NEW d \in Symbol
    PROVE  /\ Accepted(<<a, b, c, d>>, TRUE)
           /\ Accepted(<<a, b, c, d>>, FALSE)
           /\ DecodedGroup(<<a, b, c, d>>) = Three(a, b, c, d)
<1>. DEFINE q == <<a, b, c, d>>
<1>1. q[1] = a /\ q[2] = b /\ q[3] = c /\ q[4] = d
  OBVIOUS
<1>. HIDE DEF q
<1>2. Taken(q) = 3
  BY <1>1, SymbolValue DEF Taken
<1>3. 1..(Taken(q) + 1) = {1, 2, 3, 4}
  BY <1>2
<1>4. Accepted(q, TRUE) /\ Accepted(q, FALSE)
  BY <1>1, <1>2, <1>3, SymbolValue DEF Accepted
<1>5. DecodedGroup(q) = Three(a, b, c, d)
  BY <1>1, <1>2, SymbolValue DEF DecodedGroup, Three
<1>. QED BY <1>4, <1>5 DEF q

(* What base64_encode makes of any bytes, base64_decode takes and undoes        *)
(* (src/libs/base64/base64.c:5-27 and 46-121): one or two bytes as the last     *)
(* group of a line, which is where the encoder puts them, three bytes anywhere.  *)
THEOREM EncodedDecodes ==
    ASSUME NEW g \in Groups
    PROVE  /\ EncodedGroup(g) \in Fours
           /\ Accepted(EncodedGroup(g), TRUE)
           /\ Len(g) = 3 => Accepted(EncodedGroup(g), FALSE)
           /\ DecodedGroup(EncodedGroup(g)) = g
<1>0. Symbol \subseteq Char /\ Pad \in Char
  BY DEF Char
<1>1. CASE \E x \in Byte : g = <<x>>
  <2>1. PICK x \in Byte : g = <<x>>
    BY <1>1
  <2>. DEFINE a == x \div 4
              b == (x % 4) * 16
  <2>2. EncodedGroup(g) = <<a, b, Pad, Pad>>
    BY <2>1 DEF EncodedGroup
  <2>3. a \in Symbol /\ b \in Symbol /\ b % 16 = 0 /\ a * 4 + b \div 16 = x
    BY DEF Byte, Symbol
  <2>. HIDE DEF a, b
  <2>4. /\ Accepted(<<a, b, Pad, Pad>>, TRUE)
        /\ DecodedGroup(<<a, b, Pad, Pad>>) = <<a * 4 + b \div 16>>
    BY <2>3, Verdict1
  <2>5. <<a, b, Pad, Pad>> \in Fours
    BY <2>3, <1>0, FourMade
  <2>6. Len(g) # 3
    BY <2>1
  <2>7. DecodedGroup(EncodedGroup(g)) = g
    BY <2>1, <2>2, <2>3, <2>4
  <2>. QED BY <2>2, <2>4, <2>5, <2>6, <2>7, Zenon
<1>2. CASE \E x \in Byte, y \in Byte : g = <<x, y>>
  <2>1. PICK x \in Byte, y \in Byte : g = <<x, y>>
    BY <1>2
  <2>. DEFINE a == x \div 4
              b == (x % 4) * 16 + y \div 16
              c == (y % 16) * 4
  <2>2. EncodedGroup(g) = <<a, b, c, Pad>>
    BY <2>1 DEF EncodedGroup
  <2>3. a \in Symbol /\ b \in Symbol /\ c \in Symbol /\ c % 4 = 0
    BY DEF Byte, Symbol
  <2>4. a * 4 + b \div 16 = x /\ (b % 16) * 16 + c \div 4 = y
    BY DEF Byte
  <2>. HIDE DEF a, b, c
  <2>5. /\ Accepted(<<a, b, c, Pad>>, TRUE)
        /\ DecodedGroup(<<a, b, c, Pad>>)
             = <<a * 4 + b \div 16, (b % 16) * 16 + c \div 4>>
    BY <2>3, Verdict2
  <2>6. <<a, b, c, Pad>> \in Fours
    BY <2>3, <1>0, FourMade
  <2>7. Len(g) # 3
    BY <2>1
  <2>8. DecodedGroup(EncodedGroup(g)) = g
    BY <2>1, <2>2, <2>4, <2>5
  <2>. QED BY <2>2, <2>5, <2>6, <2>7, <2>8, Zenon
<1>3. CASE \E x \in Byte, y \in Byte, z \in Byte : g = <<x, y, z>>
  <2>1. PICK x \in Byte, y \in Byte, z \in Byte : g = <<x, y, z>>
    BY <1>3
  <2>. DEFINE a == x \div 4
              b == (x % 4) * 16 + y \div 16
              c == (y % 16) * 4 + z \div 64
              d == z % 64
  <2>2. EncodedGroup(g) = <<a, b, c, d>>
    BY <2>1 DEF EncodedGroup
  <2>3. a \in Symbol /\ b \in Symbol /\ c \in Symbol /\ d \in Symbol
    BY DEF Byte, Symbol
  <2>4. /\ a * 4 + b \div 16 = x /\ (b % 16) * 16 + c \div 4 = y
        /\ (c % 4) * 64 + d = z
    <3>1. b \div 16 = x % 4 /\ b % 16 = y \div 16
      BY DEF Byte
    <3>2. c \div 4 = y % 16 /\ c % 4 = z \div 64
      BY DEF Byte
    <3>3. x % 4 = x - 4 * (x \div 4)
      BY DEF Byte
    <3>4. y % 16 = y - 16 * (y \div 16)
      BY DEF Byte
    <3>5. z % 64 = z - 64 * (z \div 64)
      BY DEF Byte
    <3>. HIDE DEF b, c
    <3>. QED BY <3>1, <3>2, <3>3, <3>4, <3>5 DEF Byte
  <2>. HIDE DEF a, b, c, d
  <2>5. /\ Accepted(<<a, b, c, d>>, TRUE)
        /\ Accepted(<<a, b, c, d>>, FALSE)
        /\ DecodedGroup(<<a, b, c, d>>) = Three(a, b, c, d)
    BY <2>3, Verdict3
  <2>6. <<a, b, c, d>> \in Fours
    BY <2>3, <1>0, FourMade
  <2>. QED BY <2>1, <2>2, <2>4, <2>5, <2>6 DEF Three
<1>4. \/ \E x \in Byte : g = <<x>>
      \/ \E x \in Byte, y \in Byte : g = <<x, y>>
      \/ \E x \in Byte, y \in Byte, z \in Byte : g = <<x, y, z>>
  BY DEF Groups
<1>. QED BY <1>1, <1>2, <1>3, <1>4

(* Two bit fields side by side, and the field that each six bits are split in. *)
LEMMA FieldsOfFour ==
    ASSUME NEW u \in Nat, NEW v \in 0..3
    PROVE  (u * 4 + v) \div 4 = u /\ (u * 4 + v) % 4 = v
  OBVIOUS

(* The high and low parts of a number put together in base 16. *)
LEMMA FieldsOfSixteen ==
    ASSUME NEW u \in Nat, NEW v \in 0..15
    PROVE  (u * 16 + v) \div 16 = u /\ (u * 16 + v) % 16 = v
  OBVIOUS

(* The high and low parts of a number put together in base 64. *)
LEMMA FieldsOfSixtyFour ==
    ASSUME NEW u \in Nat, NEW v \in 0..63
    PROVE  (u * 64 + v) \div 64 = u /\ (u * 64 + v) % 64 = v
  OBVIOUS

(* A symbol split after its second bit, and after its fourth, loses nothing. *)
LEMMA SixBits ==
    ASSUME NEW w \in 0..63
    PROVE  /\ w \div 16 \in 0..3 /\ w % 16 \in 0..15 /\ (w \div 16) * 16 + (w % 16) = w
           /\ w \div 4 \in 0..15 /\ w % 4 \in 0..3 /\ (w \div 4) * 4 + (w % 4) = w
<1>. DEFINE u == w \div 16
            r == w % 16
            v == w \div 4
            t == w % 4
<1>1. u \in 0..3 /\ r \in 0..15
  OBVIOUS
<1>2. r = w - 16 * u
  OBVIOUS
<1>3. v \in 0..15 /\ t \in 0..3
  OBVIOUS
<1>4. t = w - 4 * v
  OBVIOUS
<1>. HIDE DEF u, r, v, t
<1>5. u * 16 + r = w
  BY <1>1, <1>2
<1>6. v * 4 + t = w
  BY <1>3, <1>4
<1>. QED BY Zenon, <1>1, <1>3, <1>5, <1>6 DEF u, r, v, t

(* The three bytes that four six bit values make.                            *)
Byte1(a, b) == a * 4 + b \div 16
Byte2(b, c) == (b % 16) * 16 + c \div 4
Byte3(c, d) == (c % 4) * 64 + d

(* They are bytes, and the values come back from them.                       *)
LEMMA Byte1Fields ==
    ASSUME NEW a \in 0..63, NEW b \in 0..63
    PROVE  /\ Byte1(a, b) \in Byte
           /\ Byte1(a, b) \div 4 = a
           /\ Byte1(a, b) % 4 = b \div 16
<1>. DEFINE u == b \div 16
<1>1. u \in 0..3
  BY SixBits
<1>. HIDE DEF u
<1>2. (a * 4 + u) \div 4 = a /\ (a * 4 + u) % 4 = u
  BY <1>1, FieldsOfFour
<1>3. a * 4 + u \in Byte
  BY <1>1 DEF Byte
<1>. QED BY <1>2, <1>3 DEF Byte1, u

(* The second byte holds the low half of one symbol and the high bits of the next. *)
LEMMA Byte2Fields ==
    ASSUME NEW b \in 0..63, NEW c \in 0..63
    PROVE  /\ Byte2(b, c) \in Byte
           /\ Byte2(b, c) \div 16 = b % 16
           /\ Byte2(b, c) % 16 = c \div 4
<1>. DEFINE u == b % 16
            v == c \div 4
<1>1. u \in 0..15 /\ v \in 0..15
  BY SixBits
<1>. HIDE DEF u, v
<1>2. (u * 16 + v) \div 16 = u /\ (u * 16 + v) % 16 = v
  BY <1>1, FieldsOfSixteen
<1>3. u * 16 + v \in Byte
  BY <1>1 DEF Byte
<1>. QED BY <1>2, <1>3 DEF Byte2, u, v

(* The third byte holds the low bits of one symbol and all of the next. *)
LEMMA Byte3Fields ==
    ASSUME NEW c \in 0..63, NEW d \in 0..63
    PROVE  /\ Byte3(c, d) \in Byte
           /\ Byte3(c, d) \div 64 = c % 4
           /\ Byte3(c, d) % 64 = d
<1>. DEFINE u == c % 4
<1>1. u \in 0..3
  BY SixBits
<1>. HIDE DEF u
<1>2. (u * 64 + d) \div 64 = u /\ (u * 64 + d) % 64 = d
  <2>1. u \in Nat /\ d \in 0..63
    BY <1>1
  <2>. QED BY <2>1, FieldsOfSixtyFour
<1>3. u * 64 + d \in Byte
  BY <1>1 DEF Byte
<1>. QED BY <1>2, <1>3 DEF Byte3, u

(* And nothing else: four characters that base64_decode takes are those that   *)
(* base64_encode makes of the bytes they stand for.                          *)
THEOREM DecodedEncodes ==
    ASSUME NEW q \in Fours, NEW final \in BOOLEAN, Accepted(q, final)
    PROVE  /\ DecodedGroup(q) \in Groups
           /\ EncodedGroup(DecodedGroup(q)) = q
           /\ Len(DecodedGroup(q)) = Taken(q) /\ Taken(q) \in 1..3
           /\ Taken(q) < 3 => final
<1>. DEFINE a == q[1]
            b == q[2]
            c == q[3]
            d == q[4]
            x == Byte1(a, b)
            y == Byte2(b, c)
            z == Byte3(c, d)
<1>1. q = <<a, b, c, d>> /\ a \in Char /\ b \in Char /\ c \in Char /\ d \in Char
  BY FourParts
<1>2. \A e \in Char : e # Pad /\ Value(e) >= 0 => e \in 0..63 /\ Value(e) = e
  BY DEF Char, Symbol, Pad, Other, Value
<1>3. Taken(q) = (IF c = Pad THEN 1 ELSE IF d = Pad THEN 2 ELSE 3)
  BY Zenon DEF Taken
<1>4. Taken(q) \in 1..3 /\ (Taken(q) < 3 => final) /\ (c = Pad => d = Pad)
  BY <1>3 DEF Accepted
<1>5. a \in 0..63 /\ b \in 0..63 /\ Value(a) = a /\ Value(b) = b
  <2>1. 1 \in 1..(Taken(q) + 1) /\ 2 \in 1..(Taken(q) + 1)
    BY <1>4
  <2>2. a # Pad /\ b # Pad /\ Value(a) >= 0 /\ Value(b) >= 0
    BY <2>1 DEF Accepted
  <2>. QED BY <1>1, <1>2, <2>2
<1>6. CASE Taken(q) = 1
  <2>1. c = Pad /\ d = Pad /\ b % 16 = 0
    BY <1>3, <1>4, <1>5, <1>6 DEF Accepted
  <2>2. DecodedGroup(q) = <<x>>
    BY <1>5, <1>6 DEF DecodedGroup, Byte1
  <2>. HIDE DEF a, b
  <2>3. x \in Byte /\ x \div 4 = a /\ (x % 4) * 16 = b
    <3>1. x \in Byte /\ x \div 4 = a /\ x % 4 = b \div 16
      BY <1>5, Byte1Fields
    <3>2. b \div 16 \in 0..3 /\ (b \div 16) * 16 + (b % 16) = b
      BY <1>5, SixBits
    <3>. QED BY <3>1, <3>2, <2>1, <1>5
  <2>. HIDE DEF x
  <2>4. EncodedGroup(<<x>>) = <<x \div 4, (x % 4) * 16, Pad, Pad>>
    BY DEF EncodedGroup
  <2>5. <<x>> \in Groups /\ Len(<<x>>) = 1
    BY <2>3 DEF Groups
  <2>6. EncodedGroup(<<x>>) = q
    BY <1>1, <2>1, <2>3, <2>4
  <2>. QED BY <1>4, <1>6, <2>2, <2>5, <2>6
<1>7. CASE Taken(q) = 2
  <2>1. c \in 0..63 /\ Value(c) = c /\ d = Pad /\ c % 4 = 0
    <3>1. 3 \in 1..(Taken(q) + 1)
      BY <1>7
    <3>2. c # Pad /\ d = Pad
      BY <1>3, <1>7
    <3>3. Value(c) >= 0 /\ Value(c) % 4 = 0
      BY <1>7, <3>1 DEF Accepted
    <3>. QED BY <1>1, <1>2, <3>2, <3>3
  <2>2. DecodedGroup(q) = <<x, y>>
    BY <1>5, <1>7, <2>1 DEF DecodedGroup, Byte1, Byte2
  <2>. HIDE DEF a, b, c
  <2>3. /\ x \in Byte /\ y \in Byte
        /\ x \div 4 = a /\ (x % 4) * 16 + y \div 16 = b /\ (y % 16) * 4 = c
    <3>1. x \in Byte /\ x \div 4 = a /\ x % 4 = b \div 16
      BY <1>5, Byte1Fields
    <3>2. y \in Byte /\ y \div 16 = b % 16 /\ y % 16 = c \div 4
      BY <1>5, <2>1, Byte2Fields
    <3>3. (b \div 16) * 16 + (b % 16) = b
      BY <1>5, SixBits
    <3>4. c \div 4 \in 0..15 /\ (c \div 4) * 4 + (c % 4) = c
      BY <2>1, SixBits
    <3>5. (c \div 4) * 4 = c
      BY <3>4, <2>1
    <3>6. (x % 4) * 16 + y \div 16 = b
      BY Zenon, <3>1, <3>2, <3>3
    <3>7. (y % 16) * 4 = c
      BY Zenon, <3>2, <3>5
    <3>. QED BY <3>1, <3>2, <3>6, <3>7
  <2>. HIDE DEF x, y
  <2>4. EncodedGroup(<<x, y>>)
          = <<x \div 4, (x % 4) * 16 + y \div 16, (y % 16) * 4, Pad>>
    BY DEF EncodedGroup
  <2>5. <<x, y>> \in Groups /\ Len(<<x, y>>) = 2
    BY <2>3 DEF Groups
  <2>6. EncodedGroup(<<x, y>>) = q
    BY <1>1, <2>1, <2>3, <2>4
  <2>. QED BY <1>4, <1>7, <2>2, <2>5, <2>6
<1>8. CASE Taken(q) = 3
  <2>1. c \in 0..63 /\ d \in 0..63 /\ Value(c) = c /\ Value(d) = d
    <3>1. 3 \in 1..(Taken(q) + 1) /\ 4 \in 1..(Taken(q) + 1)
      BY <1>8
    <3>2. c # Pad /\ d # Pad
      BY <1>3, <1>4, <1>8
    <3>3. Value(c) >= 0 /\ Value(d) >= 0
      BY <3>1 DEF Accepted
    <3>. QED BY <1>1, <1>2, <3>2, <3>3
  <2>2. DecodedGroup(q) = <<x, y, z>>
    BY <1>5, <1>8, <2>1 DEF DecodedGroup, Byte1, Byte2, Byte3
  <2>. HIDE DEF a, b, c, d
  <2>3. /\ x \in Byte /\ y \in Byte /\ z \in Byte
        /\ x \div 4 = a /\ (x % 4) * 16 + y \div 16 = b
        /\ (y % 16) * 4 + z \div 64 = c /\ z % 64 = d
    <3>1. x \in Byte /\ x \div 4 = a /\ x % 4 = b \div 16
      BY <1>5, Byte1Fields
    <3>2. y \in Byte /\ y \div 16 = b % 16 /\ y % 16 = c \div 4
      BY <1>5, <2>1, Byte2Fields
    <3>3. z \in Byte /\ z \div 64 = c % 4 /\ z % 64 = d
      BY <2>1, Byte3Fields
    <3>4. (b \div 16) * 16 + (b % 16) = b
      BY <1>5, SixBits
    <3>5. (c \div 4) * 4 + (c % 4) = c
      BY <2>1, SixBits
    <3>6. (x % 4) * 16 + y \div 16 = b
      BY Zenon, <3>1, <3>2, <3>4
    <3>7. (y % 16) * 4 + z \div 64 = c
      BY Zenon, <3>2, <3>3, <3>5
    <3>. QED BY <3>1, <3>2, <3>3, <3>6, <3>7
  <2>. HIDE DEF x, y, z
  <2>4. EncodedGroup(<<x, y, z>>)
          = <<x \div 4, (x % 4) * 16 + y \div 16, (y % 16) * 4 + z \div 64, z % 64>>
    BY DEF EncodedGroup
  <2>5. <<x, y, z>> \in Groups /\ Len(<<x, y, z>>) = 3
    BY <2>3 DEF Groups
  <2>6. EncodedGroup(<<x, y, z>>) = q
    BY <1>1, <2>3, <2>4
  <2>. QED BY <1>4, <1>8, <2>2, <2>5, <2>6
<1>. QED BY <1>4, <1>6, <1>7, <1>8

-----------------------------------------------------------------------------
USE PromptAssumption DEF Outcomes, buffers, decoder, history, vars

(* The decoder is somewhere in the data; what it last took was accepted.      *)
DecoderInv ==
    /\ pc \notin {"decode", "done"} => quads = 0
    /\ Handed => b64Len > 0
    /\ 4 * quads <= b64Len
    /\ quads = 0 => outLen = 0
    /\ quads > 0 => /\ EncodedGroup(plain) = quad
                    /\ Len(plain) \in 1..3
                    /\ Len(plain) < 3 => 4 * quads = b64Len
                    /\ outLen = 3 * quads - (3 - Len(plain))
    /\ outcome = "import" => 4 * quads = b64Len

(* Before the checks, what is buffered is what was sent, unless a line was cut  *)
(* or a line did not fit.                                                    *)
PasteInv ==
    /\ pc # "done" => outcome = "none"
    /\ lineLen <= typing
    /\ b64Len <= sent
    /\ whole /\ ~overflow => b64Len = sent
    /\ pc = "decode" => ~overflow

PromptInv ==
    /\ TypeOK
    /\ BuffersHold
    /\ DecodesCompleteLines
    /\ PasteInv
    /\ DecoderInv

(* The buffer sizes the console and the import command declare are numbers. *)
LEMMA Lengths ==
    /\ \A n \in Nat : EncodedLen(n) \in Nat /\ EncodedLen(n) > 0
    /\ \A n \in Nat : DecodedLen(n) \in Nat
    /\ ImportLen \in Nat
    /\ B64Len \in Nat /\ B64Len > 0
<1>1. \A n \in Nat : EncodedLen(n) \in Nat /\ EncodedLen(n) > 0
  BY DEF EncodedLen
<1>2. \A n \in Nat : DecodedLen(n) \in Nat
  BY DEF DecodedLen
<1>3. ImportLen \in Nat
  <2>1. MaxKeys * KeyLen \in Nat
    BY SMT
  <2> QED
    BY <2>1 DEF ImportLen
<1> QED
  BY <1>1, <1>2, <1>3 DEF B64Len

(* At the confirmation prompt nothing has been typed, pasted or decoded. *)
LEMMA InitPrompt == Init => PromptInv
<1> SUFFICES ASSUME Init PROVE PromptInv
  OBVIOUS
<1>1. confirmed \in BOOLEAN /\ overflow \in BOOLEAN /\ whole \in BOOLEAN
  BY Zenon DEF Init
<1>2. TypeOK
  BY <1>1 DEF Init, TypeOK
<1>3. BuffersHold /\ DecodesCompleteLines
  BY Lengths DEF Init, BuffersHold, DecodesCompleteLines, Handed
<1>4. PasteInv /\ DecoderInv
  BY DEF Init, PasteInv, DecoderInv, Handed
<1> QED
  BY <1>2, <1>3, <1>4 DEF PromptInv

(* One turn of the decoder.                                                  *)
LEMMA StepDecodeQuad == PromptInv /\ DecodeQuad => PromptInv'
<1> SUFFICES ASSUME PromptInv, DecodeQuad PROVE PromptInv'
  OBVIOUS
<1>1. PICK q \in Quads :
        /\ Ready /\ 4 * quads < b64Len
        /\ Accepted(q, 4 * quads + 4 = b64Len) /\ outLen + Taken(q) <= ImportLen
        /\ quads' = quads + 1
        /\ outLen' = outLen + Taken(q)
        /\ quad' = q /\ plain' = DecodedGroup(q)
        /\ UNCHANGED <<pc, outcome, confirmLen, confirmed, buffers, history>>
  BY DEF DecodeQuad
<1>. DEFINE final == 4 * quads + 4 = b64Len
            n == Taken(q)
<1>2. q \in Fours /\ final \in BOOLEAN
  BY Zenon
<1>3. Accepted(q, final)
  BY <1>1, Zenon
<1>4. final <=> 4 * quads + 4 = b64Len
  BY Zenon
<1>. HIDE DEF final
<1>5. EncodedGroup(DecodedGroup(q)) = q /\ Len(DecodedGroup(q)) = n
  BY <1>2, <1>3, DecodedEncodes, Zenon
<1>6. n \in 1..3 /\ (n < 3 => final)
  BY <1>2, <1>3, DecodedEncodes, Zenon
<1>7. TypeOK /\ PasteInv /\ DecoderInv /\ BuffersHold /\ DecodesCompleteLines
  BY DEF PromptInv
<1>8. quads \in Nat /\ outLen \in Nat /\ b64Len \in Nat
  BY <1>7 DEF TypeOK
<1>9. pc = "decode" /\ b64Len % 4 = 0 /\ 4 * quads < b64Len /\ outcome = "none"
  BY <1>1, <1>7 DEF Ready, PasteInv
<1>10. quads = 0 => outLen = 0
  BY <1>7, Zenon DEF DecoderInv
<1>11. quads > 0 => Len(plain) \in 1..3 /\ (Len(plain) < 3 => 4 * quads = b64Len)
                    /\ outLen = 3 * quads - (3 - Len(plain))
  BY <1>7, Zenon DEF DecoderInv
<1>12. /\ quads' = quads + 1 /\ outLen' = outLen + n /\ outLen + n <= ImportLen
       /\ quad' = q /\ Len(plain') = n /\ EncodedGroup(plain') = q
       /\ UNCHANGED <<pc, outcome, confirmLen, confirmed, b64Len, lineLen,
                      overflow, sent, typing, whole>>
  BY <1>1, <1>5
<1>. HIDE DEF n
<1>13. 4 * (quads + 1) <= b64Len
  <2>1. ASSUME NEW l \in Nat, NEW k \in Nat, l % 4 = 0, 4 * k < l
        PROVE  4 * (k + 1) <= l
    BY <2>1
  <2>. QED BY <1>8, <1>9, <2>1
<1>14. outLen = 3 * quads
  <2>. DEFINE p == Len(plain)
  <2>. HIDE DEF p
  <2>1. quads > 0 => p \in 1..3 /\ (p < 3 => 4 * quads = b64Len)
                     /\ outLen = 3 * quads - (3 - p)
    BY <1>11 DEF p
  <2>. QED BY <1>8, <1>9, <1>10, <2>1
<1>15. DecoderInv'
  <2>1. quads' > 0 /\ quads' \in Nat /\ 4 * quads' <= b64Len' /\ b64Len' > 0
    BY <1>8, <1>9, <1>12, <1>13
  <2>2. n < 3 => 4 * quads' = b64Len'
    BY <1>4, <1>6, <1>8, <1>12
  <2>3. outLen' = 3 * quads' - (3 - n)
    BY <1>6, <1>8, <1>12, <1>14
  <2>4. pc' = "decode" /\ outcome' = "none" /\ quads' # 0
    BY <1>9, <1>12, <2>1
  <2>5. /\ EncodedGroup(plain') = quad' /\ Len(plain') = n
    BY <1>12
  <2>. QED BY <1>6, <2>1, <2>2, <2>3, <2>4, <2>5 DEF DecoderInv
<1>16. TypeOK'
  <2>1. quads' \in Nat /\ outLen' \in Nat
    BY <1>6, <1>8, <1>12
  <2>. QED BY <1>7, <1>12, <2>1 DEF TypeOK
<1>17. BuffersHold'
  BY <1>7, <1>12, Lengths DEF BuffersHold
<1>18. DecodesCompleteLines' /\ PasteInv'
  BY <1>7, <1>12 DEF DecodesCompleteLines, Handed, PasteInv
<1> QED
  BY <1>15, <1>16, <1>17, <1>18 DEF PromptInv

(* Every character, end of line and timeout keeps the strengthened invariant. *)
LEMMA StepPrompt == PromptInv /\ [Next]_vars => PromptInv'
<1> SUFFICES ASSUME PromptInv, [Next]_vars PROVE PromptInv'
  OBVIOUS
<1> USE DEF PromptInv, TypeOK, BuffersHold, DecodesCompleteLines, Handed,
            PasteInv, DecoderInv
<1>1. ASSUME NEW right \in BOOLEAN, ConfirmChar(right) PROVE PromptInv'
  <2>1. confirmed' \in BOOLEAN
    BY <1>1, Zenon DEF ConfirmChar
  <2>2. confirmLen' \in 0..ConfirmLen
    BY <1>1 DEF ConfirmChar
  <2> QED
    BY <1>1, <2>1, <2>2 DEF ConfirmChar
<1>2. CASE ConfirmEnds
  BY <1>2 DEF ConfirmEnds, End
<1>3. CASE PasteChar
  BY <1>3 DEF PasteChar
<1>4. CASE PasteReturn
  BY <1>4 DEF PasteReturn
<1>5. CASE PasteLine
  <2>1. TypeOK'
    <3>1. overflow' \in BOOLEAN /\ whole' \in BOOLEAN
      BY <1>5, Zenon DEF PasteLine
    <3> QED
      BY <1>5, <3>1 DEF PasteLine
  <2>2. BuffersHold'
    BY <1>5, Lengths DEF PasteLine
  <2>3. b64Len' <= sent' /\ (whole' /\ ~overflow' => b64Len' = sent')
    BY <1>5 DEF PasteLine
  <2>4. pc' = "paste" /\ outcome' = "none" /\ lineLen' = 0 /\ typing' = 0
    BY <1>5 DEF PasteLine
  <2>5. quads' = 0 /\ outLen' = 0 /\ b64Len' \in Nat
    BY <1>5, <2>1 DEF PasteLine
  <2>8. ~Handed'
    BY <2>4
  <2> HIDE DEF PromptInv, Handed
  <2>6. DecodesCompleteLines' /\ PasteInv'
    BY <2>3, <2>4, <2>5, <2>8
  <2>7. DecoderInv'
    BY <2>4, <2>5, <2>8
  <2> HIDE DEF TypeOK, BuffersHold, DecodesCompleteLines, PasteInv, DecoderInv
  <2> QED
    BY <2>1, <2>2, <2>6, <2>7 DEF PromptInv
<1>6. CASE PasteTimeout
  BY <1>6 DEF PasteTimeout
<1>7. CASE PasteEmptyLine
  BY <1>7 DEF PasteEmptyLine
<1>8. CASE Check
  <2>1. TypeOK'
    BY <1>8 DEF Check, End
  <2>2. pc' = "decode" => ~overflow /\ b64Len > 0
    BY <1>8 DEF Check, End, Fits
  <2>3. /\ UNCHANGED <<b64Len, lineLen, overflow, sent, typing, whole>>
        /\ UNCHANGED <<quads, outLen, quad, plain>>
        /\ pc' \in {"decode", "done"}
        /\ outcome' \in {"none", "no data", "too large"}
        /\ pc' = "decode" => outcome' = "none"
    BY <1>8 DEF Check, End
  <2>4. quads = 0 /\ outLen = 0
    BY <1>8 DEF Check
  <2>5. BuffersHold' /\ DecodesCompleteLines'
    BY <2>2, <2>3
  <2>6. PasteInv'
    BY <2>2, <2>3
  <2>7. DecoderInv'
    BY <2>2, <2>3, <2>4
  <2> HIDE DEF TypeOK, BuffersHold, DecodesCompleteLines, PasteInv, DecoderInv
  <2> QED
    BY <2>1, <2>5, <2>6, <2>7
<1>9. CASE DecodeQuad
  <2> HIDE DEF PromptInv
  <2> QED
    BY <1>9, StepDecodeQuad
<1>10. CASE DecodeFails
  <2>1. /\ pc = "decode" /\ pc' = "done" /\ outcome' = "invalid"
        /\ UNCHANGED <<confirmLen, confirmed, buffers, decoder, history>>
    BY <1>10, Zenon DEF DecodeFails, End
  <2> QED
    BY <2>1
<1>11. CASE Decoded
  BY <1>11 DEF Decoded, Ready, End
<1>12. CASE UNCHANGED vars
  BY <1>12
<1> QED
  BY <1>1, <1>2, <1>3, <1>4, <1>5, <1>6, <1>7, <1>8, <1>9, <1>10, <1>11, <1>12
     DEF Next

(* The strengthened invariant holds in every reachable state. *)
LEMMA PromptInvariant == Spec => []PromptInv
<1> QED
  BY InitPrompt, StepPrompt, PTL DEF Spec

(* commands_backup.c:103, 111, 136 - no buffer of the import overflows.        *)
THEOREM BuffersSafe == Spec => []BuffersHold
<1>1. PromptInv => BuffersHold
  BY DEF PromptInv
<1> QED
  BY <1>1, PromptInvariant, PTL

(* commands_backup.c:100 - a paste that does not fit is never decoded in part,  *)
(* as long as its lines fit the line buffer.                                  *)
THEOREM PasteComplete == Spec => []DecodesCompleteLines
<1>1. PromptInv => DecodesCompleteLines
  BY DEF PromptInv
<1> QED
  BY <1>1, PromptInvariant, PTL

(* base64.c:58-117 - backup_import is given what base64_encode made the data    *)
(* of, all of it and nothing more.                                           *)
THEOREM DecodedIsEncoded == Spec => []DecodesTheEncoded
<1>1. ASSUME PromptInv PROVE DecodesTheEncoded
  <2>1. quads > 0 => /\ EncodedGroup(plain) = quad
                     /\ Len(plain) < 3 => 4 * quads = b64Len
    BY <1>1 DEF PromptInv, DecoderInv
  <2>2. ASSUME outcome = "import"
        PROVE  outLen = DecodedLen(b64Len) - (3 - Len(plain))
    <3>1. quads \in Nat /\ b64Len \in Nat /\ b64Len > 0 /\ 4 * quads = b64Len
      BY <1>1, <2>2 DEF PromptInv, DecoderInv, Handed, TypeOK
    <3>2. quads > 0
      BY <3>1
    <3>3. outLen = 3 * quads - (3 - Len(plain)) /\ Len(plain) \in 1..3
      BY <1>1, <3>2 DEF PromptInv, DecoderInv
    <3>4. DecodedLen(b64Len) = 3 * quads
      BY <3>1 DEF DecodedLen
    <3> QED
      BY <3>1, <3>3, <3>4
  <2> QED
    BY <2>1, <2>2 DEF DecodesTheEncoded
<1> QED
  BY <1>1, PromptInvariant, PTL
=============================================================================
