---------------------------- MODULE KeypadEntry ----------------------------
(***************************************************************************)
(* From fingers to a request: the debouncer of src/hardware/keypad.c and the  *)
(* digit buffer of src/core1.c.  Contacts bounce when a key goes down or up;  *)
(* two keys may be down at once, and the scan sees only the first of them.    *)
(* Core 1 scans every 5 ms, but not while it beeps, waits for a verdict or    *)
(* is held by a flash write: any time may pass between two scans.             *)
(***************************************************************************)
EXTENDS Integers, Sequences, FiniteSets

CONSTANTS
    KeyMap,       \* KEY_MAP row by row: the keys in the order of the scan
    DigitValue,   \* what each digit key stands for
    MinLen, MaxLen, CodeLen,   \* 7, 9 and 6 digits
    Debounce,     \* KEYPAD_DEBOUNCE_MS, in ticks
    Bounce,       \* how long a contact bounces at most, in ticks
    Fingers       \* keys that can be down together (a bound of the model)

Keys == {KeyMap[i] : i \in 1..Len(KeyMap)}
DigitKeys == DOMAIN DigitValue
None == "none"        \* the 0 that scan_raw and keypad_get_key return
NoRequest == [id |-> -1, code |-> -1]

ASSUME KeysAssumption ==
    /\ KeyMap \in Seq(STRING)
    /\ \A i, j \in 1..Len(KeyMap) : KeyMap[i] = KeyMap[j] => i = j
    /\ DigitKeys \subseteq Keys
    /\ {"*", "#"} \subseteq Keys \ DigitKeys
    /\ None \notin Keys
(* The keys that atoi can read.                                             *)
ASSUME DigitsAssumption == \A k \in DigitKeys : DigitValue[k] \in 0..9
ASSUME LengthsAssumption ==
    /\ {MinLen, MaxLen, CodeLen} \subseteq Nat
    /\ 0 < CodeLen /\ CodeLen < MinLen /\ MinLen <= MaxLen
(* The debounce time is chosen not to be shorter than the bouncing.         *)
ASSUME BounceAssumption ==
    {Debounce, Bounce, Fingers} \subseteq Nat /\ Bounce <= Debounce

VARIABLES
    (* the person *)
    down,         \* the keys held down
    shaky,        \* for each key, how long its contact may still bounce
    (* the statics of keypad_get_key *)
    lastRaw, lastStable,
    settle,       \* time left until stable_at
    (* core1.c *)
    buf,          \* input_buf and input_len
    request,      \* what process_input waits for; NoRequest outside it
    (* history *)
    due,          \* keys that a press or a release entitles to a report
    typed         \* digits reported since the last report of "*" or "#"

hand == <<down, shaky>>
debouncer == <<lastRaw, lastStable, settle>>
vars == <<hand, debouncer, buf, request, due, typed>>

TypeOK ==
    /\ down \subseteq Keys
    /\ shaky \in [Keys -> 0..Bounce]
    /\ lastRaw \in Keys \cup {None} /\ lastStable \in Keys \cup {None}
    /\ settle \in 0..Debounce
    /\ buf \in Seq(DigitKeys) /\ Len(buf) <= MaxLen
    /\ due \subseteq Keys
    /\ typed \in Seq(DigitKeys) /\ Len(typed) <= MaxLen + 1

Init ==
    /\ down = {}
    /\ shaky = [k \in Keys |-> 0]
    /\ lastRaw = None /\ lastStable = None /\ settle = 0
    /\ buf = <<>>
    /\ request = NoRequest
    /\ due = {}
    /\ typed = <<>>

-----------------------------------------------------------------------------
(* KEY_MAP is scanned row by row, and the first contact found is returned.   *)
Before(k) == {KeyMap[i] : i \in 1..(CHOOSE i \in 1..Len(KeyMap) : KeyMap[i] = k) - 1}
KeysBefore == [k \in Keys |-> Before(k)]

(* scan_raw.  A bouncing contact may be read either way: the scan can return   *)
(* any contact, bouncing or not, that has no steady one before it.            *)
Bouncing == {k \in Keys : shaky[k] > 0}

Readings ==
    LET steady == down \ Bouncing
    IN  {k \in down \cup Bouncing : steady \cap KeysBefore[k] = {}}
            \cup (IF steady = {} THEN {None} ELSE {})

(* atoi                                                                      *)
Number(digits) ==
    LET value[n \in 0..Len(digits)] ==
            IF n = 0 THEN 0 ELSE 10 * value[n - 1] + DigitValue[digits[n]]
    IN  value[Len(digits)]

(* Mutant: the code is taken from the front of the buffer.                  *)
ParsedFromTheFront(digits) ==
    [id   |-> Number(SubSeq(digits, CodeLen + 1, Len(digits))),
     code |-> Number(SubSeq(digits, 1, CodeLen))]

(* All but the last CodeLen digits are the id.                              *)
Parsed(digits) ==
    [id   |-> Number(SubSeq(digits, 1, Len(digits) - CodeLen)),
     code |-> Number(SubSeq(digits, Len(digits) - CodeLen + 1, Len(digits)))]

-----------------------------------------------------------------------------
(* The person.  A finger reaches another key only when the contact it left has *)
(* come to rest.  A key pressed is to be reported; when a key goes up, so are   *)
(* the keys behind it in the scan whose contacts are not open for good yet.   *)
Press(k) ==
    /\ k \notin down
    /\ Cardinality(down \cup Bouncing \cup {k}) <= Fingers
    /\ down' = down \cup {k}
    /\ shaky' = [shaky EXCEPT ![k] = Bounce]
    /\ due' = due \cup {k}
    /\ UNCHANGED <<debouncer, buf, request, typed>>

Uncovered(k) == {j \in (down \cup Bouncing) \ {k} : k \in KeysBefore[j]}

Release(k) ==
    /\ k \in down
    /\ down' = down \ {k}
    /\ shaky' = [shaky EXCEPT ![k] = Bounce]
    /\ due' = due \cup Uncovered(k)
    /\ UNCHANGED <<debouncer, buf, request, typed>>

OneLess(n) == IF n = 0 THEN 0 ELSE n - 1

Tick ==
    /\ settle' = OneLess(settle)
    /\ shaky' = [k \in Keys |-> OneLess(shaky[k])]
    /\ UNCHANGED <<down, lastRaw, lastStable, buf, request, due, typed>>

-----------------------------------------------------------------------------
(* keypad_get_key when it returns 0.  Core 1 scans only outside process_input.*)

Scanning(raw) == request = NoRequest /\ raw \in Readings

(* Mutant: another reading does not restart the debounce timer.             *)
ReadingChangedKeepsTimer(raw) ==
    /\ Scanning(raw)
    /\ raw # lastRaw
    /\ lastRaw' = raw
    /\ UNCHANGED <<hand, lastStable, settle, buf, request, due, typed>>

(* Mutant: last_raw is compared and never stored.                           *)
ReadingChangedForgets(raw) ==
    /\ Scanning(raw)
    /\ raw # lastRaw
    /\ settle' = Debounce
    /\ UNCHANGED <<hand, lastRaw, lastStable, buf, request, due, typed>>

ReadingChanged(raw) ==
    /\ Scanning(raw)
    /\ raw # lastRaw
    /\ lastRaw' = raw
    /\ settle' = Debounce
    /\ UNCHANGED <<hand, lastStable, buf, request, due, typed>>

(* A stable reading of no key rearms the key that was reported last.        *)
NoKey ==
    /\ Scanning(None)
    /\ lastRaw = None
    /\ settle = 0
    /\ lastStable' = None
    /\ UNCHANGED <<hand, lastRaw, settle, buf, request, due, typed>>

(* keypad_get_key returns k: a stable reading of another key than last time. *)
Reported(k) ==
    /\ Scanning(k)
    /\ k # None /\ k = lastRaw /\ k # lastStable
    /\ settle = 0
    /\ lastStable' = k
    /\ due' = due \ {k}
    /\ UNCHANGED <<hand, lastRaw, settle>>

-----------------------------------------------------------------------------
(* main1, for each key reported.                                             *)

(* Digits beyond MaxLen + 1 change nothing in the history either.            *)
TypedAfter(k) ==
    IF Len(typed) <= MaxLen THEN Append(typed, k) ELSE typed

KeyDigit(k) ==
    /\ Reported(k)
    /\ k \in DigitKeys
    /\ Len(buf) < MaxLen
    /\ buf' = Append(buf, k)
    /\ typed' = TypedAfter(k)
    /\ UNCHANGED request

(* Digits are silently ignored when the buffer is full; "A" rings the bell,    *)
(* "B", "C" and "D" do nothing.                                              *)
KeyIgnored(k) ==
    /\ Reported(k)
    /\ k \notin {"*", "#"}
    /\ k \in DigitKeys => Len(buf) = MaxLen
    /\ typed' = IF k \in DigitKeys THEN TypedAfter(k) ELSE typed
    /\ UNCHANGED <<buf, request>>

KeyClear ==
    /\ Reported("*")
    /\ buf' = <<>>
    /\ typed' = <<>>
    /\ UNCHANGED request

(* Mutant: what was too short to be an entry stays in the buffer.           *)
KeyRejectKeeps ==
    /\ Reported("#")
    /\ Len(buf) < MinLen
    /\ typed' = <<>>
    /\ UNCHANGED <<buf, request>>

(* process_input with too few digits; there cannot be too many.             *)
KeyReject ==
    /\ Reported("#")
    /\ Len(buf) < MinLen
    /\ buf' = <<>>
    /\ typed' = <<>>
    /\ UNCHANGED request

(* process_input parses, clears and asks core 0.                            *)
KeySubmit ==
    /\ Reported("#")
    /\ Len(buf) >= MinLen
    /\ request' = Parsed(buf)
    /\ buf' = <<>>
    /\ typed' = <<>>

(* process_input returns, with a verdict or without (DoorVerify).            *)
Concluded ==
    /\ request # NoRequest
    /\ request' = NoRequest
    /\ UNCHANGED <<hand, debouncer, buf, due, typed>>

Core1Turn ==
    \/ \E raw \in Keys \cup {None} : ReadingChanged(raw)
    \/ NoKey
    \/ \E k \in Keys : KeyDigit(k) \/ KeyIgnored(k)
    \/ KeyClear
    \/ KeyReject
    \/ KeySubmit
    \/ Concluded

Next ==
    \/ \E k \in Keys : Press(k) \/ Release(k)
    \/ Tick
    \/ Core1Turn

(* Core 1 comes back to its loop, and time passes.                          *)
Spec == Init /\ [][Next]_vars /\ WF_vars(Core1Turn) /\ WF_vars(Tick)

-----------------------------------------------------------------------------
(* "Returns key char on new press" (src/hardware/keypad.h:23), with what two  *)
(* fingers make of it: a key is reported at most once for each time that it   *)
(* went down or was uncovered by the release of a key before it, however the   *)
(* contacts bounce and however long core 1 was busy between two scans.         *)
ReportedOnce ==
    [][lastStable' \notin {lastStable, None} => lastStable' \in due]_vars

(* A key held down alone is reported, unless it is the key that core 1        *)
(* believes has never gone up: a second press of the same key within the       *)
(* beep of the first is lost.                                                 *)
HeldKeyReported ==
    \A k \in Keys :
        (down = {k} /\ lastStable # k) ~> (lastStable = k \/ down # {k})

FirstOf(s) == SubSeq(s, 1, IF Len(s) <= MaxLen THEN Len(s) ELSE MaxLen)

(* The buffer holds the digits reported since the last "*" or "#", the first   *)
(* nine of them, on every path through main1 and process_input: neither an     *)
(* entry nor a rejected one leaves digits for the next person, only an        *)
(* abandoned one does (src/core1.c:142).                                      *)
BufferIsTyped == TypeOK /\ buf = FirstOf(typed)

TenTo[n \in 0..MaxLen] == IF n = 0 THEN 1 ELSE 10 * TenTo[n - 1]

(* What core 0 is asked about is what was typed since the last "*" or "#": at  *)
(* least MinLen digits, the first nine of which, read as one number, are the  *)
(* id followed by a code of CodeLen digits.                                   *)
EntryIsTyped ==
    [][request = NoRequest /\ request' # NoRequest =>
          /\ Len(typed) >= MinLen
          /\ request'.code < TenTo[CodeLen]
          /\ request'.id * TenTo[CodeLen] + request'.code = Number(FirstOf(typed))]_vars
=============================================================================
