---------------------------- MODULE ImportPrompt ----------------------------
(***************************************************************************)
(* cmd_import_keys (src/serial/commands_backup.c) as a reader of the serial    *)
(* line: the CONFIRM prompt, the paste loop, the lengths it checks and the     *)
(* loop of base64_decode, up to the call of backup_import (KeyStore.tla).      *)
(*                                                                           *)
(* The prompts know lengths only.  The operator may send anything at any time: *)
(* the next letter of CONFIRM, data, a carriage return or a newline; either     *)
(* deadline may expire at any time.  What the data is comes out when the       *)
(* decoder looks at it, four characters at a time.                            *)
(***************************************************************************)
EXTENDS Base64

CONSTANTS
    HeaderLen, KeyLen, MaxKeys,     \* backup_header_t, backup_key_t, BACKUP_MAX_KEYS
    LineMax,                        \* sizeof(line) - 1
    ConfirmLen,                     \* strlen("CONFIRM")
    Quads,                          \* the four characters a paste may hold
    MaxSent                         \* a bound of the model: data the operator sends

ASSUME PromptAssumption ==
    /\ HeaderLen \in Nat \ {0} /\ KeyLen \in Nat \ {0} /\ MaxKeys \in Nat \ {0}
    /\ LineMax \in Nat \ {0} /\ ConfirmLen \in Nat \ {0} /\ MaxSent \in Nat
    /\ Quads \subseteq Fours

VARIABLES
    pc,         \* "confirm", "paste", "check", "decode" or "done"
    outcome,    \* how the command ended
    confirmLen,
    confirmed,  \* every letter so far is that of CONFIRM
    b64Len, lineLen, overflow,
    quads, outLen,  \* base64_decode: characters read / 4, bytes written
    (* history: what the operator sent *)
    sent,       \* data characters of the lines ended by a newline
    typing,     \* data characters of the line not yet ended
    whole,      \* no line so far was longer than the buffer
    quad, plain \* the last four characters decoded, and their bytes

buffers == <<b64Len, lineLen, overflow>>
decoder == <<quads, outLen, quad, plain>>
history == <<sent, typing, whole>>
vars == <<pc, outcome, confirmLen, confirmed, buffers, decoder, history>>

Outcomes == {"none", "aborted", "too large", "no data", "invalid", "import"}

(* base64.h                                                                  *)
EncodedLen(n) == ((n + 2) \div 3) * 4 + 1
DecodedLen(n) == (n \div 4) * 3

ImportLen == HeaderLen + MaxKeys * KeyLen     \* sizeof(import_buf)
B64Len    == EncodedLen(ImportLen)            \* sizeof(b64_buf)

Init ==
    /\ pc = "confirm" /\ outcome = "none"
    /\ confirmLen = 0 /\ confirmed = TRUE
    /\ b64Len = 0 /\ lineLen = 0 /\ overflow = FALSE
    /\ quads = 0 /\ outLen = 0 /\ quad = <<>> /\ plain = <<>>
    /\ sent = 0 /\ typing = 0 /\ whole = TRUE

-----------------------------------------------------------------------------
End(how) == pc' = "done" /\ outcome' = how

(* The confirm loop reads letters until there are ConfirmLen of them; whatever *)
(* follows CONFIRM, the newline that ends its line included, is read by the    *)
(* paste loop.                                                               *)
ConfirmChar(right) ==
    /\ pc = "confirm" /\ confirmLen < ConfirmLen
    /\ confirmLen' = confirmLen + 1
    /\ confirmed' = (confirmed /\ right)
    /\ UNCHANGED <<pc, outcome, buffers, decoder, history>>

(* A newline, the deadline or the last letter: CONFIRM was typed, or not.      *)
ConfirmEnds ==
    /\ pc = "confirm"
    /\ IF confirmed /\ confirmLen = ConfirmLen
         THEN pc' = "paste" /\ UNCHANGED outcome
         ELSE End("aborted")
    /\ UNCHANGED <<confirmLen, confirmed, buffers, decoder, history>>

(* A mutant: the line buffer has one byte more than it has.                   *)
PasteCharUnbounded ==
    /\ pc = "paste" /\ sent + typing < MaxSent
    /\ lineLen' = IF lineLen <= LineMax THEN lineLen + 1 ELSE lineLen
    /\ typing' = typing + 1
    /\ UNCHANGED <<pc, outcome, confirmLen, confirmed, b64Len, overflow, decoder,
                   sent, whole>>

PasteChar ==
    /\ pc = "paste" /\ sent + typing < MaxSent
    /\ lineLen' = IF lineLen < LineMax THEN lineLen + 1 ELSE lineLen
    /\ typing' = typing + 1
    /\ UNCHANGED <<pc, outcome, confirmLen, confirmed, b64Len, overflow, decoder,
                   sent, whole>>

(* '\r' is skipped.                                                          *)
PasteReturn == pc = "paste" /\ UNCHANGED vars

(* A mutant: only the last line decides whether the paste fits.               *)
PasteLineForgives ==
    /\ pc = "paste" /\ lineLen > 0
    /\ overflow' = ~(b64Len + lineLen < B64Len)
    /\ b64Len' = IF overflow' THEN b64Len ELSE b64Len + lineLen
    /\ lineLen' = 0
    /\ sent' = sent + typing /\ typing' = 0 /\ whole' = (whole /\ typing = lineLen)
    /\ UNCHANGED <<pc, outcome, confirmLen, confirmed, decoder>>

PasteLine ==
    /\ pc = "paste" /\ lineLen > 0
    /\ IF b64Len + lineLen < B64Len
         THEN b64Len' = b64Len + lineLen /\ UNCHANGED overflow
         ELSE overflow' = TRUE /\ UNCHANGED b64Len
    /\ lineLen' = 0
    /\ sent' = sent + typing /\ typing' = 0 /\ whole' = (whole /\ typing = lineLen)
    /\ UNCHANGED <<pc, outcome, confirmLen, confirmed, decoder>>

(* The deadline ends the paste like the empty line does: what was complete by   *)
(* then is imported.                                                         *)
PasteTimeout ==
    /\ pc = "paste"
    /\ pc' = "check"
    /\ UNCHANGED <<outcome, confirmLen, confirmed, buffers, decoder, history>>

PasteEmptyLine ==
    /\ pc = "paste" /\ lineLen = 0
    /\ pc' = "check"
    /\ UNCHANGED <<outcome, confirmLen, confirmed, buffers, decoder, history>>

(* The tests before base64_decode.                                           *)
Fits == ~overflow /\ b64Len > 0 /\ DecodedLen(b64Len) <= ImportLen

Check ==
    /\ pc = "check"
    /\ IF Fits
         THEN pc' = "decode" /\ UNCHANGED outcome
         ELSE End(IF ~overflow /\ b64Len = 0 THEN "no data" ELSE "too large")
    /\ UNCHANGED <<confirmLen, confirmed, buffers, decoder, history>>

(* base64_decode: one turn of its loop.  It would write as many of the bytes   *)
(* as fit; none is past the buffer.                                          *)
Ready == pc = "decode" /\ b64Len % 4 = 0

DecodeQuad == \E q \in Quads :
    /\ Ready /\ 4 * quads < b64Len
    /\ Accepted(q, 4 * quads + 4 = b64Len) /\ outLen + Taken(q) <= ImportLen
    /\ quads' = quads + 1
    /\ outLen' = outLen + Taken(q)
    /\ quad' = q /\ plain' = DecodedGroup(q)
    /\ UNCHANGED <<pc, outcome, confirmLen, confirmed, buffers, history>>

DecodeFails ==
    /\ pc = "decode"
    /\ \/ b64Len % 4 # 0
       \/ /\ 4 * quads < b64Len
          /\ \E q \in Quads : \/ ~Accepted(q, 4 * quads + 4 = b64Len)
                             \/ outLen + Taken(q) > ImportLen
    /\ End("invalid")
    /\ UNCHANGED <<confirmLen, confirmed, buffers, decoder, history>>

Decoded ==
    /\ Ready /\ 4 * quads = b64Len
    /\ End("import")
    /\ UNCHANGED <<confirmLen, confirmed, buffers, decoder, history>>

Next ==
    \/ ConfirmChar(TRUE) \/ ConfirmChar(FALSE) \/ ConfirmEnds
    \/ PasteChar \/ PasteReturn \/ PasteLine \/ PasteTimeout \/ PasteEmptyLine
    \/ Check \/ DecodeQuad \/ DecodeFails \/ Decoded

Spec == Init /\ [][Next]_vars

-----------------------------------------------------------------------------
TypeOK ==
    /\ pc \in {"confirm", "paste", "check", "decode", "done"}
    /\ outcome \in Outcomes
    /\ confirmLen \in 0..ConfirmLen
    /\ confirmed \in BOOLEAN /\ overflow \in BOOLEAN
    /\ b64Len \in Nat /\ lineLen \in Nat
    /\ quads \in Nat /\ outLen \in Nat
    /\ sent \in Nat /\ typing \in Nat /\ whole \in BOOLEAN

(* Neither static buffer nor the line is written past its end, whatever is      *)
(* pasted, and the decoder leaves the bytes after import_buf alone (M5).       *)
BuffersHold ==
    /\ b64Len < B64Len
    /\ lineLen <= LineMax
    /\ outLen <= ImportLen

(* The data was given to the decoder.                                        *)
Handed == pc = "decode" \/ outcome \in {"invalid", "import"}

(* What is decoded was sent in complete lines, and as long as no single line    *)
(* was longer than the buffer it is all of them: a paste that does not fit is   *)
(* refused, however much of it fits (commands_backup.c:100 "an over-long paste  *)
(* must ABORT the import, not be silently dropped").                          *)
DecodesCompleteLines == Handed => b64Len <= sent /\ (whole => b64Len = sent)

(* What reaches backup_import is what base64_encode made the characters of, in   *)
(* full: no other spelling of the same bytes is taken, padding ends the data    *)
(* (base64.c:59 "non-canonical and rejected"), and the capacity checks of the   *)
(* decoder, which are there in case, cut nothing off.                          *)
DecodesTheEncoded ==
    /\ quads > 0 => /\ EncodedGroup(plain) = quad
                    /\ Len(plain) < 3 => 4 * quads = b64Len
    /\ outcome = "import" => outLen = DecodedLen(b64Len) - (3 - Len(plain))

(* The backups export-keys prints: one line for n keys.                        *)
ExportedLen(n) == EncodedLen(HeaderLen + n * KeyLen) - 1

(* What export-keys prints can be pasted back: it is decoded from its first to  *)
(* its last character (COMMANDS.md:54).                                       *)
ExportsComeBack ==
    \A n \in 1..MaxKeys :
        sent = ExportedLen(n) => outcome # "too large" /\ (Handed => b64Len = sent)
=============================================================================
