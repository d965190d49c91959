------------------------------- MODULE Base64 -------------------------------
(***************************************************************************)
(* src/libs/base64: groups of one to three bytes and the four characters that  *)
(* stand for them.  A character is its value in B64_CHARS, the padding "=", or *)
(* any other.                                                                *)
(***************************************************************************)
EXTENDS Integers, Sequences

Byte == 0..255
Symbol == 0..63
Pad == 64
Other == 65
Char == Symbol \cup {Pad, Other}

Groups ==
    {<<x>> : x \in Byte} \cup (Byte \X Byte) \cup (Byte \X Byte \X Byte)
Fours == Char \X Char \X Char \X Char

(* base64_encode, one turn of its loop and its two endings.                   *)
EncodedGroup(g) ==
    CASE Len(g) = 1 -> <<g[1] \div 4, (g[1] % 4) * 16, Pad, Pad>>
      [] Len(g) = 2 -> <<g[1] \div 4, (g[1] % 4) * 16 + g[2] \div 16,
                         (g[2] % 16) * 4, Pad>>
      [] Len(g) = 3 -> <<g[1] \div 4, (g[1] % 4) * 16 + g[2] \div 16,
                         (g[2] % 16) * 4 + g[3] \div 64, g[3] % 64>>

(* b64_val                                                                   *)
Value(c) == IF c \in Symbol THEN c ELSE IF c = Pad THEN 0 ELSE -1

(* How many bytes base64_decode takes from four characters.                   *)
Taken(q) == IF q[3] = Pad THEN 1 ELSE IF q[4] = Pad THEN 2 ELSE 3

(* Mutant: the unused bits of the last character are not looked at.         *)
AcceptedLoosely(q, final) ==
    /\ Pad \in {q[3], q[4]} => final
    /\ q[3] = Pad => q[4] = Pad
    /\ q[1] # Pad /\ q[2] # Pad
    /\ \A i \in 1..(Taken(q) + 1) : Value(q[i]) >= 0

(* Its tests of the characters: padding only at the end of the input, no       *)
(* character that is not one, and no bits that no byte takes.                 *)
Accepted(q, final) ==
    /\ Pad \in {q[3], q[4]} => final
    /\ q[3] = Pad => q[4] = Pad
    /\ q[1] # Pad /\ q[2] # Pad
    /\ \A i \in 1..(Taken(q) + 1) : Value(q[i]) >= 0
    /\ Taken(q) = 1 => Value(q[2]) % 16 = 0
    /\ Taken(q) = 2 => Value(q[3]) % 4 = 0

(* What it writes; an unsigned char keeps the low eight bits.                 *)
DecodedGroup(q) ==
    LET a == Value(q[1])  b == Value(q[2])  c == Value(q[3])  d == Value(q[4])
        x == a * 4 + b \div 16
        y == (b % 16) * 16 + c \div 4
        z == (c % 4) * 64 + d
    IN  CASE Taken(q) = 1 -> <<x>>
          [] Taken(q) = 2 -> <<x, y>>
          [] Taken(q) = 3 -> <<x, y, z>>
=============================================================================
