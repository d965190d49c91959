------------------------- MODULE KeypadEntryProofs -------------------------
(***************************************************************************)
(* The digit buffer of KeypadEntry holds what was typed since the last "*"    *)
(* or "#", for every keypad, every length of entry and every debounce time;   *)
(* a key is reported only when a press or a release made it due; and the id   *)
(* and the code of an entry are the numbers that its digits stand for.        *)
(***************************************************************************)
EXTENDS KeypadEntry, SequenceTheorems, WellFoundedInduction, TLAPS

(* A digit appended to both keeps the buffer the front of what was typed.    *)
LEMMA FrontGrows ==
    ASSUME LengthsAssumption,
           NEW s \in Seq(DigitKeys), NEW k \in DigitKeys,
           Len(s) <= MaxLen
    PROVE  /\ Append(s, k) \in Seq(DigitKeys)
           /\ Len(FirstOf(s)) < MaxLen =>
                  FirstOf(Append(s, k)) = Append(FirstOf(s), k)
           /\ Len(FirstOf(s)) = MaxLen => FirstOf(Append(s, k)) = FirstOf(s)
<1>1. Len(s) \in Nat /\ MaxLen \in Nat /\ FirstOf(s) = SubSeq(s, 1, Len(s))
    BY DEF FirstOf, LengthsAssumption
<1>2. FirstOf(s) = s
    BY <1>1, SubSeqFull
<1>3. Append(s, k) \in Seq(DigitKeys) /\ Len(Append(s, k)) = Len(s) + 1
    OBVIOUS
<1>4. CASE Len(s) < MaxLen
    <2>1. Len(Append(s, k)) <= MaxLen
        BY <1>1, <1>3, <1>4
    <2>2. FirstOf(Append(s, k)) = SubSeq(Append(s, k), 1, Len(Append(s, k)))
        BY <2>1 DEF FirstOf
    <2>3. FirstOf(Append(s, k)) = Append(s, k)
        BY <1>3, <2>2
    <2>4. Append(FirstOf(s), k) = Append(s, k) /\ Len(FirstOf(s)) = Len(s)
        BY <1>2
    <2>5. ~(Len(s) = MaxLen)
        BY <1>1, <1>4
    <2> QED
        BY <2>3, <2>4, <2>5
<1>5. CASE Len(s) = MaxLen
    <2>1. FirstOf(Append(s, k)) = SubSeq(Append(s, k), 1, Len(s))
        <3>1. ~(Len(Append(s, k)) <= MaxLen)
            BY <1>1, <1>3, <1>5
        <3> QED
            BY <1>5, <3>1 DEF FirstOf
    <2>2. SubSeq(Append(s, k), 1, Len(s)) = s
        <3>1. /\ Len(SubSeq(Append(s, k), 1, Len(s))) = Len(s)
              /\ SubSeq(Append(s, k), 1, Len(s)) \in Seq(DigitKeys)
            BY <1>1, <1>3
        <3>2. \A i \in 1..Len(s) : SubSeq(Append(s, k), 1, Len(s))[i] = s[i]
            BY <1>1, <1>3
        <3> QED
            BY <3>1, <3>2, SeqEqual
    <2> QED
        BY <1>1, <1>2, <1>3, <1>5, <2>1, <2>2
<1> QED
    BY <1>1, <1>4, <1>5

(* The empty entry is an entry, within every length. *)
LEMMA NothingTyped ==
    ASSUME LengthsAssumption
    PROVE  <<>> \in Seq(DigitKeys) /\ Len(<<>>) = 0 /\ FirstOf(<<>>) = <<>>
    BY DEF FirstOf, LengthsAssumption

(* The lengths and the history are types; the buffer follows the history.     *)
THEOREM BufferHoldsWhatWasTyped == Spec => []BufferIsTyped
<1> USE KeysAssumption, LengthsAssumption, BounceAssumption
<1>1. Init => BufferIsTyped
    BY NothingTyped DEF Init, BufferIsTyped, TypeOK, None, BounceAssumption,
        LengthsAssumption
<1>2. BufferIsTyped /\ [Next]_vars => BufferIsTyped'
    <2> SUFFICES ASSUME BufferIsTyped, [Next]_vars PROVE BufferIsTyped'
        OBVIOUS
    <2> USE DEF BufferIsTyped, TypeOK, hand, debouncer
    <2>0. \A n \in 0..Bounce : OneLess(n) \in 0..Bounce
        BY DEF OneLess, BounceAssumption
    <2>1. ASSUME NEW k \in Keys, Press(k) PROVE BufferIsTyped'
        BY <2>1 DEF Press, BounceAssumption
    <2>2. ASSUME NEW k \in Keys, Release(k) PROVE BufferIsTyped'
        <3>1. Uncovered(k) \subseteq Keys
            BY DEF Uncovered, Bouncing
        <3> QED
            BY <2>2, <3>1 DEF Release, BounceAssumption
    <2>3. CASE Tick
        <3>1. settle' \in 0..Debounce
            BY <2>3 DEF Tick, OneLess, BounceAssumption
        <3>2. shaky' \in [Keys -> 0..Bounce]
            BY <2>0, <2>3 DEF Tick
        <3> QED
            BY <2>3, <3>1, <3>2 DEF Tick
    <2>4. ASSUME NEW raw \in Keys \cup {None}, ReadingChanged(raw)
          PROVE  BufferIsTyped'
        BY <2>4 DEF ReadingChanged, BounceAssumption
    <2>5. CASE NoKey
        BY <2>5 DEF NoKey
    <2>6. ASSUME NEW k \in Keys, Reported(k)
          PROVE  /\ down' \subseteq Keys /\ due' \subseteq Keys
                 /\ shaky' \in [Keys -> 0..Bounce]
                 /\ lastRaw' \in Keys \cup {None}
                 /\ lastStable' \in Keys \cup {None}
                 /\ settle' \in 0..Debounce
        BY <2>6 DEF Reported
    <2>7. ASSUME NEW k \in Keys, KeyDigit(k) PROVE BufferIsTyped'
        <3>1. Len(buf) < MaxLen /\ k \in DigitKeys /\ Reported(k)
            BY <2>7 DEF KeyDigit
        <3>2. Len(typed) <= MaxLen
            <4>1. Len(typed) \in Nat /\ MaxLen \in Nat /\ typed \in Seq(DigitKeys)
                BY DEF LengthsAssumption
            <4>2. ASSUME ~(Len(typed) <= MaxLen) PROVE FALSE
                <5>1. buf = SubSeq(typed, 1, MaxLen)
                    BY <4>2 DEF FirstOf
                <5>2. Len(buf) = MaxLen
                    BY <4>1, <4>2, <5>1
                <5> QED
                    BY <3>1, <4>1, <5>2
            <4> QED
                BY <4>2
        <3>3. typed' = Append(typed, k) /\ buf' = Append(buf, k)
            BY <2>7, <3>2 DEF KeyDigit, TypedAfter
        <3>4. buf' = FirstOf(typed')
            BY <3>1, <3>2, <3>3, FrontGrows
        <3>5. /\ buf' \in Seq(DigitKeys) /\ Len(buf') = Len(buf) + 1
              /\ typed' \in Seq(DigitKeys) /\ Len(typed') = Len(typed) + 1
            BY <3>1, <3>3
        <3>6. Len(buf) \in Nat /\ Len(typed) \in Nat /\ MaxLen \in Nat
            BY DEF LengthsAssumption
        <3>7. Len(buf') <= MaxLen /\ Len(typed') <= MaxLen + 1
            BY <3>1, <3>2, <3>5, <3>6
        <3> QED
            BY <2>6, <3>1, <3>4, <3>5, <3>7
    <2>8. ASSUME NEW k \in Keys, KeyIgnored(k) PROVE BufferIsTyped'
        <3>1. Reported(k) /\ buf' = buf
            BY <2>8 DEF KeyIgnored
        <3>2. CASE typed' = typed
            BY <2>6, <3>1, <3>2 DEF FirstOf
        <3>3. CASE k \in DigitKeys /\ Len(typed) <= MaxLen
            <4>1. Len(buf) = MaxLen /\ typed' = Append(typed, k)
                BY <2>8, <3>3 DEF KeyIgnored, TypedAfter
            <4>2. buf' = FirstOf(typed')
                BY <3>1, <3>3, <4>1, FrontGrows
            <4>3. /\ typed' \in Seq(DigitKeys)
                  /\ Len(typed') = Len(typed) + 1 /\ Len(typed') <= MaxLen + 1
                BY <3>3, <4>1 DEF LengthsAssumption
            <4> QED
                BY <2>6, <3>1, <4>2, <4>3
        <3> QED
            BY <2>8, <3>2, <3>3 DEF KeyIgnored, TypedAfter
    <2>cleared. ASSUME Reported("*") \/ Reported("#"), buf' = <<>>, typed' = <<>>
           PROVE  BufferIsTyped'
        <3>1. /\ down' \subseteq Keys /\ due' \subseteq Keys
              /\ shaky' \in [Keys -> 0..Bounce]
              /\ lastRaw' \in Keys \cup {None}
              /\ lastStable' \in Keys \cup {None}
              /\ settle' \in 0..Debounce
            <4>1. "*" \in Keys /\ "#" \in Keys
                BY DEF KeysAssumption
            <4> QED
                BY ONLY <2>6, <2>cleared, <4>1
        <3>2. /\ buf' \in Seq(DigitKeys) /\ typed' \in Seq(DigitKeys)
              /\ buf' = FirstOf(typed') /\ Len(buf') = 0 /\ Len(typed') = 0
            BY ONLY <2>cleared, NothingTyped, LengthsAssumption
        <3>3. 0 <= MaxLen /\ 0 <= MaxLen + 1
            BY ONLY LengthsAssumption DEF LengthsAssumption
        <3> QED
            BY ONLY <3>1, <3>2, <3>3 DEF BufferIsTyped, TypeOK
    <2>9. CASE KeyClear
        BY <2>9, <2>cleared DEF KeyClear
    <2>10. CASE KeyReject
        BY <2>10, <2>cleared DEF KeyReject
    <2>11. CASE KeySubmit
        BY <2>11, <2>cleared DEF KeySubmit
    <2>12. CASE Concluded
        BY <2>12 DEF Concluded
    <2>13. CASE UNCHANGED vars
        BY <2>13 DEF vars, FirstOf
    <2> QED
        BY <2>1, <2>2, <2>3, <2>4, <2>5, <2>7, <2>8, <2>9, <2>10, <2>11, <2>12,
           <2>13 DEF Next, Core1Turn
<1> QED
    BY <1>1, <1>2, PTL DEF Spec

-----------------------------------------------------------------------------
(* Why no key is reported twice.  The debouncer knows the last reading and     *)
(* how long it must still stay; the contacts are what the person makes them.    *)

InReach(k) == k \in down \cup Bouncing

(* A key held down with nothing due has come to rest by the time the reading  *)
(* counts, unless it is the reading.                                         *)
SettledKey(k) == k \in down \ due => lastRaw = k \/ shaky[k] <= settle

GoneUp(k) == k \notin down /\ (lastRaw = k => shaky[k] <= settle)

Covers(x, k) ==
    /\ x \in down
    /\ x \in KeysBefore[k]
    /\ lastRaw = k => shaky[x] <= settle

(* A key with nothing due that the scan could still meet is the one reported  *)
(* last, or is up for good, or is hidden behind a key held down, before its     *)
(* reading counts.                                                           *)
NotAgain(k) ==
    InReach(k) /\ k \notin due =>
        lastStable = k \/ GoneUp(k) \/ \E x \in Keys : Covers(x, k)

(* Of the keys before such a key none that is up is read when it counts.      *)
NotHidden(x, k) ==
    /\ InReach(k) /\ k \notin due
    /\ x \in KeysBefore[k] /\ x \notin down
    => (lastRaw = x => shaky[x] <= settle)

DebounceInv ==
    \A k \in Keys : SettledKey(k) /\ NotAgain(k) /\ \A x \in Keys : NotHidden(x, k)

(* The scan meets any two keys in one order, and no key before itself.         *)
LEMMA ScanOrder ==
    /\ \A k \in Keys : KeysBefore[k] \subseteq Keys /\ k \notin KeysBefore[k]
    /\ \A x, k \in Keys : x # k => x \in KeysBefore[k] \/ k \in KeysBefore[x]
<1> DEFINE At(k) == CHOOSE i \in 1..Len(KeyMap) : KeyMap[i] = k
<1>1. Len(KeyMap) \in Nat
    BY KeysAssumption DEF KeysAssumption
<1>2. \A k \in Keys : At(k) \in 1..Len(KeyMap) /\ KeyMap[At(k)] = k
    BY DEF Keys
<1>3. \A k \in Keys : KeysBefore[k] = {KeyMap[i] : i \in 1..At(k) - 1}
    BY DEF KeysBefore, Before
<1> HIDE DEF At
<1>4. ASSUME NEW k \in Keys
      PROVE  KeysBefore[k] \subseteq Keys /\ k \notin KeysBefore[k]
    <2>1. 1..At(k) - 1 \subseteq 1..Len(KeyMap) /\ At(k) \notin 1..At(k) - 1
        BY <1>1, <1>2
    <2>2. \A i \in 1..At(k) - 1 : KeyMap[i] \in Keys /\ KeyMap[i] # k
        BY <1>2, <2>1, KeysAssumption DEF Keys, KeysAssumption
    <2> QED
        BY <1>3, <2>2
<1>5. ASSUME NEW x \in Keys, NEW k \in Keys, x # k
      PROVE  x \in KeysBefore[k] \/ k \in KeysBefore[x]
    <2>1. At(x) # At(k)
        BY <1>2, <1>5
    <2>2. At(x) \in 1..At(k) - 1 \/ At(k) \in 1..At(x) - 1
        BY <1>1, <1>2, <2>1
    <2> QED
        BY <1>2, <1>3, <2>2
<1> QED
    BY <1>4, <1>5

(* What a reading says of the contacts.                                       *)
LEMMA ReadingMeans ==
    ASSUME TypeOK
    PROVE  /\ \A k \in Keys \cap Readings :
                  InReach(k) /\ \A x \in down \cap KeysBefore[k] : x \in Bouncing
           /\ None \in Readings => down \subseteq Bouncing
<1> DEFINE steady == down \ Bouncing
<1>1. Readings = {k \in down \cup Bouncing : steady \cap KeysBefore[k] = {}}
                     \cup (IF steady = {} THEN {None} ELSE {})
    BY DEF Readings
<1>2. None \notin Keys
    BY KeysAssumption DEF KeysAssumption
<1>3. ASSUME NEW k \in Keys, k \in Readings
      PROVE  InReach(k) /\ \A x \in down \cap KeysBefore[k] : x \in Bouncing
    <2>1. k \in down \cup Bouncing /\ steady \cap KeysBefore[k] = {}
        BY <1>1, <1>2, <1>3
    <2> QED
        BY <2>1 DEF InReach
<1>4. ASSUME None \in Readings PROVE steady = {}
    <2>1. None \notin down \cup Bouncing
        BY <1>2 DEF Bouncing, TypeOK
    <2> QED
        BY <1>1, <1>4, <2>1
<1> QED
    BY <1>3, <1>4

(* With no settling time left, a key whose contact shakes no longer than that is at rest. *)
LEMMA AtRest ==
    ASSUME TypeOK, NEW x \in Keys, settle = 0, shaky[x] <= settle
    PROVE  x \notin Bouncing
<1>1. shaky[x] \in Nat
    BY BounceAssumption DEF TypeOK, BounceAssumption
<1> QED
    BY <1>1 DEF Bouncing

(* At boot no finger is on the keypad and no report is due. *)
LEMMA InitDebounce == Init => DebounceInv
    BY DEF Init, DebounceInv, SettledKey, NotAgain, NotHidden, InReach, Bouncing

(* A key that goes down is due.                                               *)
LEMMA PressDebounced ==
    ASSUME TypeOK, DebounceInv, NEW p \in Keys, Press(p)
    PROVE  DebounceInv'
<1>1. /\ p \notin down /\ down' = down \cup {p} /\ due' = due \cup {p}
      /\ UNCHANGED debouncer
      /\ \A k \in Keys \ {p} : shaky'[k] = shaky[k]
    BY DEF Press, TypeOK
<1>2. UNCHANGED <<lastRaw, lastStable, settle>>
    BY <1>1 DEF debouncer
<1> SUFFICES ASSUME NEW k \in Keys \ {p}, k \notin due
             PROVE  /\ SettledKey(k)' /\ NotAgain(k)'
                    /\ \A x \in Keys : NotHidden(x, k)'
    BY <1>1 DEF DebounceInv, SettledKey, NotAgain, NotHidden
<1>3. InReach(k)' => InReach(k)
    BY <1>1 DEF InReach, Bouncing
<1>4. SettledKey(k)'
    BY <1>1, <1>2 DEF DebounceInv, SettledKey
<1>5. NotAgain(k)'
    <2> SUFFICES ASSUME InReach(k)'
                 PROVE  (lastStable = k \/ GoneUp(k) \/ \E x \in Keys : Covers(x, k))'
        BY DEF NotAgain
    <2>1. lastStable = k \/ GoneUp(k) \/ \E x \in Keys : Covers(x, k)
        BY <1>3 DEF DebounceInv, NotAgain
    <2>2. GoneUp(k) => GoneUp(k)'
        BY <1>1, <1>2 DEF GoneUp
    <2>3. \A x \in Keys : Covers(x, k) => Covers(x, k)'
        BY <1>1, <1>2 DEF Covers
    <2> QED
        BY <1>2, <2>1, <2>2, <2>3
<1>6. ASSUME NEW x \in Keys PROVE NotHidden(x, k)'
    <2>1. NotHidden(x, k)
        BY DEF DebounceInv
    <2> QED
        BY <1>1, <1>2, <1>3, <2>1 DEF NotHidden
<1> QED
    BY <1>4, <1>5, <1>6

(* A key that goes up makes due what it hid.                                  *)
LEMMA ReleaseDebounced ==
    ASSUME TypeOK, DebounceInv, NEW p \in Keys, Release(p)
    PROVE  DebounceInv'
<1>1. /\ p \in down /\ down' = down \ {p} /\ due' = due \cup Uncovered(p)
      /\ UNCHANGED debouncer
      /\ \A k \in Keys \ {p} : shaky'[k] = shaky[k]
    BY DEF Release, TypeOK
<1>2. UNCHANGED <<lastRaw, lastStable, settle>>
    BY <1>1 DEF debouncer
<1> SUFFICES ASSUME NEW k \in Keys, k \notin due, k \notin Uncovered(p)
             PROVE  /\ SettledKey(k)' /\ NotAgain(k)'
                    /\ \A x \in Keys : NotHidden(x, k)'
    BY <1>1 DEF DebounceInv, SettledKey, NotAgain, NotHidden
<1>3. InReach(k)' => InReach(k)
    BY <1>1 DEF InReach, Bouncing
<1>4. InReach(k) => p \notin KeysBefore[k]
    BY ScanOrder DEF Uncovered, InReach
<1>5. SettledKey(k)'
    BY <1>1, <1>2 DEF DebounceInv, SettledKey
<1>6. NotAgain(k)'
    <2> SUFFICES ASSUME InReach(k)'
                 PROVE  (lastStable = k \/ GoneUp(k) \/ \E x \in Keys : Covers(x, k))'
        BY DEF NotAgain
    <2>1. lastStable = k \/ GoneUp(k) \/ \E x \in Keys : Covers(x, k)
        BY <1>3 DEF DebounceInv, NotAgain
    <2>2. GoneUp(k) => GoneUp(k)'
        BY <1>1, <1>2 DEF GoneUp
    <2>3. \A x \in Keys : Covers(x, k) => Covers(x, k)'
        BY <1>1, <1>2, <1>3, <1>4 DEF Covers
    <2> QED
        BY <1>2, <2>1, <2>2, <2>3
<1>7. ASSUME NEW x \in Keys PROVE NotHidden(x, k)'
    <2>1. NotHidden(x, k)
        BY DEF DebounceInv
    <2>2. CASE x = p
        BY <1>3, <1>4, <2>2 DEF NotHidden
    <2>3. CASE x # p
        BY <1>1, <1>2, <1>3, <2>1, <2>3 DEF NotHidden
    <2> QED
        BY <2>2, <2>3
<1> QED
    BY <1>5, <1>6, <1>7

(* The contacts come to rest no later than the reading counts.                *)
LEMMA TickDebounced ==
    ASSUME TypeOK, DebounceInv, Tick
    PROVE  DebounceInv'
<1>1. /\ \A k \in Keys : shaky'[k] = OneLess(shaky[k])
      /\ settle' = OneLess(settle)
      /\ UNCHANGED <<down, due, lastRaw, lastStable>>
    BY DEF Tick
<1>2. \A k \in Keys : shaky[k] \in Nat /\ settle \in Nat
    BY BounceAssumption DEF TypeOK, BounceAssumption
<1>3. \A m, n \in Nat : /\ m <= n => OneLess(m) <= OneLess(n)
                        /\ OneLess(m) > 0 => m > 0
    BY DEF OneLess
<1>4. \A k \in Keys : shaky[k] <= settle => shaky'[k] <= settle'
    BY <1>1, <1>2, <1>3
<1>5. \A k \in Keys : InReach(k)' => InReach(k)
    BY <1>1, <1>2, <1>3 DEF InReach, Bouncing
<1> SUFFICES ASSUME NEW k \in Keys
             PROVE  /\ SettledKey(k)' /\ NotAgain(k)'
                    /\ \A x \in Keys : NotHidden(x, k)'
    BY DEF DebounceInv
<1>6. SettledKey(k)'
    BY <1>1, <1>4 DEF DebounceInv, SettledKey
<1>7. GoneUp(k) => GoneUp(k)'
    BY <1>1, <1>4 DEF GoneUp
<1>8. \A x \in Keys : Covers(x, k) => Covers(x, k)'
    BY <1>1, <1>4 DEF Covers
<1>9. NotAgain(k)'
    BY <1>1, <1>5, <1>7, <1>8 DEF DebounceInv, NotAgain
<1>10. ASSUME NEW x \in Keys PROVE NotHidden(x, k)'
    <2>1. NotHidden(x, k)
        BY DEF DebounceInv
    <2> QED
        BY <1>1, <1>4, <1>5, <2>1 DEF NotHidden
<1> QED
    BY <1>6, <1>9, <1>10

(* Another reading has to last longer than any contact bounces.              *)
LEMMA ChangeDebounced ==
    ASSUME TypeOK, DebounceInv, NEW raw \in Keys \cup {None}, ReadingChanged(raw)
    PROVE  DebounceInv'
<1>1. UNCHANGED <<down, shaky, due, lastStable>> /\ settle' = Debounce
    BY DEF ReadingChanged, hand
<1>2. \A k \in Keys : shaky[k] <= Debounce
    BY BounceAssumption DEF TypeOK, BounceAssumption
<1>3. \A k \in Keys : shaky'[k] <= settle'
    BY <1>1, <1>2
<1>4. \A k \in Keys : InReach(k)' => InReach(k)
    BY <1>1 DEF InReach, Bouncing
<1> SUFFICES ASSUME NEW k \in Keys
             PROVE  /\ SettledKey(k)' /\ NotAgain(k)'
                    /\ \A x \in Keys : NotHidden(x, k)'
    BY DEF DebounceInv
<1>5. GoneUp(k) => GoneUp(k)'
    BY <1>1, <1>3 DEF GoneUp
<1>6. \A x \in Keys : Covers(x, k) => Covers(x, k)'
    BY <1>1, <1>3 DEF Covers
<1>7. NotAgain(k)'
    BY <1>1, <1>4, <1>5, <1>6 DEF DebounceInv, NotAgain
<1> QED
    BY <1>3, <1>7 DEF SettledKey, NotHidden

(* When no key counts, the keys in reach are on their way up.                 *)
LEMMA NoKeyDebounced ==
    ASSUME TypeOK, DebounceInv, NoKey
    PROVE  DebounceInv'
<1>1. /\ UNCHANGED <<down, shaky, due, lastRaw, settle>>
      /\ lastRaw = None /\ settle = 0 /\ down \subseteq Bouncing
    BY ReadingMeans DEF NoKey, hand, Scanning
<1> SUFFICES ASSUME NEW k \in Keys
             PROVE  /\ SettledKey(k)' /\ NotAgain(k)'
                    /\ \A x \in Keys : NotHidden(x, k)'
    BY DEF DebounceInv
<1>2. SettledKey(k)' /\ \A x \in Keys : NotHidden(x, k)'
    BY <1>1 DEF DebounceInv, SettledKey, NotHidden, InReach, Bouncing
<1>3. k # None
    BY KeysAssumption DEF KeysAssumption
<1>4. k \notin due => k \notin down
    BY <1>1, <1>3, AtRest DEF DebounceInv, SettledKey
<1>5. k \notin due => GoneUp(k)'
    BY <1>1, <1>3, <1>4 DEF GoneUp
<1> QED
    BY <1>1, <1>2, <1>5 DEF NotAgain

(* When a key counts, every other that is down and at rest is behind it.       *)
LEMMA ReportDebounced ==
    ASSUME TypeOK, DebounceInv, NEW r \in Keys, Reported(r)
    PROVE  DebounceInv'
<1>1. /\ UNCHANGED <<down, shaky, lastRaw, settle>>
      /\ lastRaw = r /\ settle = 0 /\ due' = due \ {r} /\ lastStable' = r
    BY DEF Reported, hand
<1>2. InReach(r) /\ \A x \in down \cap KeysBefore[r] : x \in Bouncing
    BY ReadingMeans DEF Reported, Scanning
<1> SUFFICES ASSUME NEW k \in Keys
             PROVE  /\ SettledKey(k)' /\ NotAgain(k)'
                    /\ \A x \in Keys : NotHidden(x, k)'
    BY DEF DebounceInv
<1>3. SettledKey(k)'
    BY <1>1 DEF DebounceInv, SettledKey
<1>4. InReach(k)' => InReach(k)
    BY <1>1 DEF InReach, Bouncing
<1>5. NotAgain(k)'
    <2> SUFFICES ASSUME InReach(k), k \notin due, k # r
                 PROVE  (GoneUp(k) \/ \E x \in Keys : Covers(x, k))'
        BY <1>1, <1>4 DEF NotAgain
    <2>1. CASE k \notin down
        BY <1>1, <2>1 DEF GoneUp
    <2>2. CASE k \in down
        <3>1. k \notin Bouncing
            BY <1>1, <2>2, AtRest DEF DebounceInv, SettledKey
        <3>2. r \in KeysBefore[k]
            BY <1>2, <2>2, <3>1, ScanOrder
        <3>3. r \in down
            <4>1. NotHidden(r, k)
                BY DEF DebounceInv
            <4> QED
                BY <1>1, <1>2, <3>2, <4>1, AtRest DEF NotHidden, InReach
        <3>4. Covers(r, k)'
            BY <1>1, <3>2, <3>3 DEF Covers
        <3> QED
            BY <3>4
    <2> QED
        BY <2>1, <2>2
<1>6. ASSUME NEW x \in Keys PROVE NotHidden(x, k)'
    <2>1. CASE k = r
        BY <1>1, <2>1, ScanOrder DEF NotHidden
    <2>2. CASE k # r
        <3>1. NotHidden(x, k)
            BY DEF DebounceInv
        <3> QED
            BY <1>1, <1>4, <2>2, <3>1 DEF NotHidden
    <2> QED
        BY <2>1, <2>2
<1> QED
    BY <1>3, <1>5, <1>6

(* Every key that keypad_get_key returns goes through one of these.            *)
LEMMA ReportSteps ==
    ASSUME \/ \E k \in Keys : KeyDigit(k) \/ KeyIgnored(k)
           \/ KeyClear \/ KeyReject \/ KeySubmit
    PROVE  \E r \in Keys : Reported(r)
<1>1. "*" \in Keys /\ "#" \in Keys
    BY KeysAssumption DEF KeysAssumption
<1> QED
    BY <1>1 DEF KeyDigit, KeyIgnored, KeyClear, KeyReject, KeySubmit

(* Every scan, press, release and bounce keeps the invariant of the debouncer. *)
LEMMA StepDebounce == TypeOK /\ DebounceInv /\ [Next]_vars => DebounceInv'
<1> SUFFICES ASSUME TypeOK, DebounceInv, [Next]_vars PROVE DebounceInv'
    OBVIOUS
<1>1. CASE UNCHANGED <<down, shaky, due, debouncer>>
    BY <1>1 DEF debouncer, DebounceInv, SettledKey, NotAgain, NotHidden, InReach,
        Bouncing, GoneUp, Covers
<1>2. CASE Concluded \/ UNCHANGED vars
    BY <1>1, <1>2 DEF Concluded, vars, hand
<1>3. CASE \E r \in Keys : Reported(r)
    BY <1>3, ReportDebounced
<1> QED
    BY <1>2, <1>3, PressDebounced, ReleaseDebounced, TickDebounced,
       ChangeDebounced, NoKeyDebounced, ReportSteps DEF Next, Core1Turn

(* A key that keypad_get_key returns was due.                                 *)
LEMMA ReportedIsDue ==
    ASSUME TypeOK, DebounceInv, NEW r \in Keys, Reported(r)
    PROVE  r \in due
<1>1. lastRaw = r /\ settle = 0 /\ lastStable # r
    BY DEF Reported
<1>2. InReach(r) /\ \A x \in down \cap KeysBefore[r] : x \in Bouncing
    BY ReadingMeans DEF Reported, Scanning
<1>3. ~GoneUp(r)
    BY <1>1, <1>2, AtRest DEF GoneUp, InReach
<1>4. \A x \in Keys : ~Covers(x, r)
    BY <1>1, <1>2, AtRest DEF Covers
<1> QED
    BY <1>1, <1>2, <1>3, <1>4 DEF DebounceInv, NotAgain

(* keypad.h:23 - a key is reported at most once for each time it went down or   *)
(* was uncovered by the release of a key before it, for any keypad, any number   *)
(* of fingers, and any debounce time not shorter than the bouncing.            *)
THEOREM KeysReportedOnce == Spec => ReportedOnce
<1>1. Spec => []TypeOK
    <2>1. BufferIsTyped => TypeOK
        BY DEF BufferIsTyped
    <2> QED
        BY <2>1, BufferHoldsWhatWasTyped, PTL
<1>2. TypeOK /\ DebounceInv /\ [Next]_vars =>
          [lastStable' \notin {lastStable, None} => lastStable' \in due]_vars
    <2> SUFFICES ASSUME TypeOK, DebounceInv, Next,
                        lastStable' # lastStable, lastStable' # None
                 PROVE  lastStable' \in due
        BY DEF vars, debouncer
    <2>1. \E r \in Keys : Reported(r)
        BY ReportSteps DEF Next, Core1Turn, Press, Release, Tick, ReadingChanged,
            NoKey, Concluded, debouncer
    <2> QED
        BY <2>1, ReportedIsDue DEF Reported
<1> QED
    BY <1>1, <1>2, InitDebounce, StepDebounce, PTL DEF Spec, ReportedOnce
-----------------------------------------------------------------------------
(* What atoi computes.  Induction over the digits: the natural numbers below    *)
(* and including m are those that a set reaches from 0.                        *)

(* Induction over an interval, stated of a set of numbers so that no operator is
   a parameter: a set that holds 0 and every successor within the bound holds them all. *)
LEMMA IntervalInduction ==
    ASSUME NEW m \in Nat, NEW T, 0 \in T, \A n \in 1..m : n - 1 \in T => n \in T
    PROVE  0..m \subseteq T
<1> DEFINE S == 0..m \ T
<1>1. SUFFICES ASSUME S # {} PROVE FALSE
    OBVIOUS
<1>2. OpToRel(<, Nat) = {p \in Nat \X Nat : p[1] < p[2]}
    BY Zenon DEF OpToRel
<1>3. S \subseteq Nat
    OBVIOUS
<1> HIDE DEF S
<1>4. PICK n \in S : \A k \in S : <<k, n>> \notin OpToRel(<, Nat)
    BY <1>1, <1>3, NatLessThanWellFounded, WFMin, Zenon
<1>5. \A k \in S : ~(k < n)
    <2>1. ASSUME NEW k \in S, k < n PROVE FALSE
        <3>1. <<k, n>> \in {p \in Nat \X Nat : p[1] < p[2]}
            BY <1>3, <2>1
        <3> QED
            BY <1>2, <1>4, <3>1, Zenon
    <2> QED
        BY <2>1
<1>6. n \in 1..m /\ n \notin T
    BY DEF S
<1>7. n - 1 \in 0..m /\ n - 1 < n
    BY <1>6
<1>8. n - 1 \in T
    BY <1>5, <1>7 DEF S
<1> QED
    BY <1>6, <1>8

(* f adds the digits d to what a was before them.                             *)
Adds(f, a, d, m) == f[0] = a /\ \A n \in 1..m : f[n] = 10 * f[n - 1] + d[n]
Reads(f, a, d, m) == f \in [0..m -> Nat] /\ Adds(f, a, d, m)

(* There is such a function, ...                                              *)
LEMMA ReadsExists ==
    ASSUME NEW m \in Nat, NEW a \in Nat, NEW d \in [1..m -> Nat]
    PROVE  \E f : Reads(f, a, d, m)
<1> DEFINE T == {j \in 0..m : \E f : Reads(f, a, d, j)}
<1>1. 0 \in T
    <2>1. 0 \in 0..m
        OBVIOUS
    <2>2. Reads([n \in 0..0 |-> a], a, d, 0)
        BY DEF Reads, Adds
    <2> QED
        BY <2>1, <2>2, Zenon
<1>2. ASSUME NEW j \in 1..m, j - 1 \in T PROVE j \in T
    <2>1. PICK f : Reads(f, a, d, j - 1)
        BY <1>2, Zenon
    <2> DEFINE g == [n \in 0..j |-> IF n < j THEN f[n] ELSE 10 * f[j - 1] + d[j]]
    <2>2. /\ j - 1 \in 0..j - 1 /\ d[j] \in Nat /\ f[j - 1] \in Nat
          /\ f \in [0..j - 1 -> Nat] /\ j \in 0..m
        BY <2>1 DEF Reads, Adds
    <2>3. g \in [0..j -> Nat]
        BY <2>2
    <2>4. g[0] = a
        BY <2>1 DEF Reads, Adds
    <2>5. ASSUME NEW n \in 1..j PROVE g[n] = 10 * g[n - 1] + d[n]
        <3>1. g[n - 1] = f[n - 1]
            OBVIOUS
        <3>2. CASE n < j
            <4>1. n \in 1..j - 1 /\ g[n] = f[n]
                BY <3>2
            <4> QED
                BY <2>1, <3>1, <4>1 DEF Reads, Adds
        <3>3. CASE n = j
            BY <3>1, <3>3
        <3> QED
            BY <3>2, <3>3
    <2> HIDE DEF g
    <2>6. Reads(g, a, d, j)
        BY <2>3, <2>4, <2>5 DEF Reads, Adds
    <2> QED
        BY <2>2, <2>6, Zenon
<1> HIDE DEF T
<1>3. \A j \in 1..m : j - 1 \in T => j \in T
    BY <1>2
<1>4. 0..m \subseteq T
    BY <1>1, <1>3, IntervalInduction, Zenon
<1>5. m \in 0..m
    OBVIOUS
<1> QED
    BY <1>4, <1>5, Zenon DEF T

(* ... and only one.                                                          *)
LEMMA ReadsUnique ==
    ASSUME NEW m \in Nat, NEW a, NEW d, NEW f, Reads(f, a, d, m),
           NEW g, Adds(g, a, d, m)
    PROVE  \A n \in 0..m : g[n] = f[n]
<1> DEFINE T == {n \in 0..m : g[n] = f[n]}
<1>1. 0 \in T
    BY DEF Reads, Adds
<1>2. \A n \in 1..m : n - 1 \in T => n \in T
    BY DEF Reads, Adds
<1> HIDE DEF T
<1>3. 0..m \subseteq T
    BY <1>1, <1>2, IntervalInduction, Zenon
<1> QED
    BY <1>3 DEF T

ValuesOf(s) == [n \in 1..Len(s) |-> DigitValue[s[n]]]

(* Number reads its digits from the front.                                    *)
LEMMA NumberReads ==
    ASSUME DigitsAssumption, NEW s \in Seq(DigitKeys)
    PROVE  \E f : Reads(f, 0, ValuesOf(s), Len(s)) /\ Number(s) = f[Len(s)]
<1> DEFINE m == Len(s)
           value == CHOOSE f : f = [n \in 0..m |->
                        IF n = 0 THEN 0 ELSE 10 * f[n - 1] + DigitValue[s[n]]]
<1>1. m \in Nat /\ \A n \in 1..m : s[n] \in DigitKeys
    OBVIOUS
<1>2. ValuesOf(s) \in [1..m -> Nat]
    BY <1>1 DEF DigitsAssumption, ValuesOf
<1>3. Number(s) = value[m]
    BY DEF Number
<1>4. PICK f : Reads(f, 0, ValuesOf(s), m)
    <2>1. 0 \in Nat
        OBVIOUS
    <2> HIDE DEF m
    <2> QED
        BY <1>1, <1>2, <2>1, ReadsExists, Zenon
<1>5. f = [n \in 0..m |-> IF n = 0 THEN 0 ELSE 10 * f[n - 1] + DigitValue[s[n]]]
    BY <1>1, <1>4 DEF Reads, Adds, ValuesOf
<1>6. value = [n \in 0..m |->
          IF n = 0 THEN 0 ELSE 10 * value[n - 1] + DigitValue[s[n]]]
    BY <1>5, Zenon
<1> HIDE DEF value
<1>7. Adds(value, 0, ValuesOf(s), m)
    BY <1>1, <1>6 DEF Adds, ValuesOf
<1>8. m \in 0..m /\ \A n \in 0..m : value[n] = f[n]
    <2>1. m \in 0..m
        BY <1>1
    <2> HIDE DEF m
    <2>2. \A n \in 0..m : value[n] = f[n]
        BY <1>1, <1>4, <1>7, ReadsUnique
    <2> QED
        BY <2>1, <2>2
<1> QED
    BY <1>3, <1>4, <1>8, Zenon

(* TenTo[n] is 10 to the n.                                                   *)
LEMMA PowersOfTen ==
    ASSUME LengthsAssumption
    PROVE  /\ TenTo[0] = 1
           /\ \A n \in 0..MaxLen : TenTo[n] \in Nat
           /\ \A n \in 1..MaxLen : TenTo[n] = 10 * TenTo[n - 1]
<1> DEFINE d == [n \in 1..MaxLen |-> 0]
<1>1. MaxLen \in Nat /\ d \in [1..MaxLen -> Nat] /\ 1 \in Nat
    BY DEF LengthsAssumption
<1>2. PICK f : Reads(f, 1, d, MaxLen)
    <2> HIDE DEF d
    <2> QED
        BY <1>1, ReadsExists, Zenon
<1>3. f = [n \in 0..MaxLen |-> IF n = 0 THEN 1 ELSE 10 * f[n - 1]]
    <2>1. f \in [0..MaxLen -> Nat] /\ f[0] = 1
        BY <1>2 DEF Reads, Adds
    <2>2. ASSUME NEW n \in 1..MaxLen PROVE f[n] = 10 * f[n - 1]
        <3>1. n - 1 \in 0..MaxLen
            BY <1>1
        <3>2. f[n] = 10 * f[n - 1] + d[n]
            BY <1>2 DEF Reads, Adds
        <3>3. f[n - 1] \in Nat /\ d[n] = 0
            BY <2>1, <3>1
        <3> QED
            BY <3>2, <3>3
    <2>3. \A n \in 0..MaxLen : f[n] = IF n = 0 THEN 1 ELSE 10 * f[n - 1]
        <3>1. \A n \in 0..MaxLen : n = 0 \/ n \in 1..MaxLen
            BY <1>1
        <3> QED
            BY <2>1, <2>2, <3>1, Zenon
    <2> QED
        BY <2>1, <2>3
<1>4. TenTo = [n \in 0..MaxLen |-> IF n = 0 THEN 1 ELSE 10 * TenTo[n - 1]]
    BY <1>3, Zenon DEF TenTo
<1> DEFINE T == {n \in 0..MaxLen : TenTo[n] \in Nat}
<1>5. 0 \in T /\ TenTo[0] = 1
    BY <1>1, <1>4
<1>6. \A n \in 1..MaxLen : TenTo[n] = 10 * TenTo[n - 1]
    BY <1>1, <1>4
<1>7. \A n \in 1..MaxLen : n - 1 \in T => n \in T
    <2> SUFFICES ASSUME NEW n \in 1..MaxLen, TenTo[n - 1] \in Nat PROVE n \in T
        OBVIOUS
    <2>1. n \in 0..MaxLen /\ TenTo[n] = 10 * TenTo[n - 1]
        BY <1>1, <1>6
    <2> QED
        BY <2>1
<1> HIDE DEF T
<1>8. 0..MaxLen \subseteq T
    BY <1>1, <1>5, <1>7, IntervalInduction, Zenon
<1> QED
    BY <1>5, <1>6, <1>8 DEF T

(* atoi of the front and of the last c digits give back atoi of them all.       *)
LEMMA SplitNumber ==
    ASSUME DigitsAssumption, LengthsAssumption,
           NEW s \in Seq(DigitKeys), Len(s) <= MaxLen, NEW c \in 0..Len(s)
    PROVE  LET front == Number(SubSeq(s, 1, Len(s) - c))
               back  == Number(SubSeq(s, Len(s) - c + 1, Len(s)))
           IN  back < TenTo[c] /\ front * TenTo[c] + back = Number(s)
<1> DEFINE b == Len(s) - c
           p == SubSeq(s, 1, b)
           q == SubSeq(s, b + 1, Len(s))
<1>1. /\ Len(s) \in Nat /\ c \in Nat /\ b \in 0..Len(s) /\ MaxLen \in Nat
      /\ c <= MaxLen /\ Len(s) = b + c
    BY DEF LengthsAssumption
<1>2. p \in Seq(DigitKeys) /\ Len(p) = b /\ \A n \in 1..b : p[n] = s[n]
    <2> HIDE DEF b
    <2>1. p \in Seq(DigitKeys) /\ Len(p) = b
        BY <1>1
    <2>2. \A n \in 1..b : p[n] = s[n]
        BY <1>1
    <2> QED
        BY <2>1, <2>2
<1>3. q \in Seq(DigitKeys) /\ Len(q) = c /\ \A n \in 1..c : q[n] = s[b + n]
    <2> HIDE DEF b
    <2>1. q \in Seq(DigitKeys) /\ Len(q) = c
        BY <1>1
    <2>2. \A n \in 1..c : q[n] = s[b + n]
        BY <1>1
    <2> QED
        BY <2>1, <2>2
<1>4. \A n \in 1..Len(s) : DigitValue[s[n]] \in 0..9
    BY DEF DigitsAssumption
<1> HIDE DEF b, p, q
<1> DEFINE v == [n \in 1..Len(s) |-> DigitValue[s[n]]]
<1>5. PICK fs : Reads(fs, 0, v, Len(s)) /\ Number(s) = fs[Len(s)]
    BY NumberReads, Zenon DEF ValuesOf
<1>6. PICK fp : Reads(fp, 0, ValuesOf(p), b) /\ Number(p) = fp[b]
    BY <1>2, NumberReads, Zenon
<1>7. PICK fq : Reads(fq, 0, ValuesOf(q), c) /\ Number(q) = fq[c]
    BY <1>3, NumberReads, Zenon
<1>a. /\ fs \in [0..Len(s) -> Nat]
      /\ \A n \in 1..Len(s) :
             fs[n] = 10 * fs[n - 1] + DigitValue[s[n]]
    BY <1>5 DEF Reads, Adds
<1>b. /\ fq \in [0..c -> Nat] /\ fq[0] = 0
      /\ \A n \in 1..c : fq[n] = 10 * fq[n - 1] + DigitValue[s[b + n]]
    BY <1>3, <1>7 DEF Reads, Adds, ValuesOf
<1>8. fp[b] = fs[b]
    <2>1. \A n \in 1..b : n \in 1..Len(s) /\ ValuesOf(p)[n] = DigitValue[s[n]]
        BY <1>1, <1>2 DEF ValuesOf
    <2>2. Adds(fs, 0, ValuesOf(p), b)
        BY <1>5, <1>a, <2>1 DEF Reads, Adds
    <2>3. b \in Nat /\ b \in 0..b
        BY <1>1
    <2>4. \A n \in 0..b : fs[n] = fp[n]
        <3> DEFINE d == ValuesOf(p)
        <3>1. Reads(fp, 0, d, b) /\ Adds(fs, 0, d, b) /\ b \in Nat
            BY <1>6, <2>2, <2>3
        <3> HIDE DEF d
        <3> QED
            BY ONLY <3>1, ReadsUnique
    <2> QED
        BY <2>3, <2>4
<1> HIDE DEF v
<1> DEFINE T == {n \in 0..c : /\ fq[n] < TenTo[n]
                              /\ fs[b + n] = fs[b] * TenTo[n] + fq[n]}
<1>9. fs[b] \in Nat
    BY <1>1, <1>a
<1>10. 0 \in T
    <2>1. TenTo[0] = 1 /\ 0 \in 0..c /\ b + 0 = b
        BY <1>1, PowersOfTen
    <2> QED
        BY <1>9, <1>b, <2>1
<1>11. ASSUME NEW n \in 1..c, n - 1 \in T PROVE n \in T
    <2> DEFINE e == DigitValue[s[b + n]]
               t == TenTo[n - 1]
               x == fs[b] * t
               y == fq[n - 1]
               z == fs[(b + n) - 1]
    <2>1. /\ b + n \in 1..Len(s) /\ n - 1 \in 0..c /\ n \in 1..MaxLen /\ n \in 0..c
          /\ n - 1 \in 0..MaxLen /\ b + (n - 1) = (b + n) - 1
        BY <1>1
    <2>2. e \in 0..9 /\ t \in Nat /\ y \in Nat
        <3>1. e \in 0..9
            BY <1>4, <2>1
        <3>2. t \in Nat
            BY <2>1, PowersOfTen
        <3>3. y \in Nat
            BY <1>b, <2>1
        <3> QED
            BY <3>1, <3>2, <3>3
    <2>3. TenTo[n] = 10 * t
        BY <2>1, PowersOfTen
    <2>4. fs[b] * TenTo[n] = 10 * x /\ x \in Nat
        <3> DEFINE k == fs[b]
        <3>1. k \in Nat
            BY <1>9
        <3> HIDE DEF k, t
        <3>2. k * (10 * t) = 10 * (k * t) /\ k * t \in Nat
            BY <2>2, <3>1, SMT
        <3> QED
            BY <2>3, <3>2 DEF k
    <2>5. fq[n] = 10 * y + e
        BY <1>b
    <2>6. fs[b + n] = 10 * z + e
        BY <1>a, <2>1
    <2>7. y < t /\ z = x + y
        BY <1>11, <2>1
    <2> HIDE DEF e, t, x, y, z
    <2>8. fq[n] < TenTo[n]
        BY <2>2, <2>3, <2>5, <2>7
    <2>9. fs[b + n] = fs[b] * TenTo[n] + fq[n]
        BY <2>2, <2>4, <2>5, <2>6, <2>7
    <2> QED
        BY <2>1, <2>8, <2>9
<1>12. \A n \in 1..c : n - 1 \in T => n \in T
    BY <1>11
<1> HIDE DEF T
<1>13. fq[c] < TenTo[c] /\ fs[b + c] = fs[b] * TenTo[c] + fq[c]
    <2>1. 0..c \subseteq T
        BY <1>1, <1>10, <1>12, IntervalInduction, Zenon
    <2>2. c \in 0..c
        BY <1>1
    <2> QED
        BY <2>1, <2>2 DEF T
<1>14. Number(q) < TenTo[c] /\ Number(p) * TenTo[c] + Number(q) = Number(s)
    BY <1>1, <1>5, <1>6, <1>7, <1>8, <1>13
<1> QED
    BY <1>14 DEF b, p, q

(* core1.c:51 - what core 0 is asked about is what was typed: an id and a code   *)
(* of CodeLen digits that read as one number are the digits of the entry, for    *)
(* any keypad and any lengths.                                               *)
THEOREM EntriesAreTyped == Spec => EntryIsTyped
<1> DEFINE Typed ==
        request = NoRequest /\ request' # NoRequest =>
            /\ Len(typed) >= MinLen
            /\ request'.code < TenTo[CodeLen]
            /\ request'.id * TenTo[CodeLen] + request'.code = Number(FirstOf(typed))
<1>1. ASSUME BufferIsTyped, [Next]_vars PROVE [Typed]_vars
    <2> SUFFICES ASSUME Next, request = NoRequest, request' # NoRequest PROVE Typed
        BY <1>1
    <2>1. KeySubmit
        BY DEF Next, Core1Turn, Press, Release, Tick, ReadingChanged, NoKey, KeyDigit,
            KeyIgnored, KeyClear, KeyReject, Concluded
    <2>2. request' = Parsed(buf) /\ Len(buf) >= MinLen
        BY <2>1 DEF KeySubmit
    <2>3. /\ buf = FirstOf(typed) /\ buf \in Seq(DigitKeys) /\ Len(buf) <= MaxLen
          /\ typed \in Seq(DigitKeys)
        BY <1>1 DEF BufferIsTyped, TypeOK
    <2>4. /\ MinLen \in Nat /\ MaxLen \in Nat /\ CodeLen \in Nat
          /\ CodeLen < MinLen /\ MinLen <= MaxLen
        BY LengthsAssumption DEF LengthsAssumption
    <2>5. Len(typed) >= MinLen
        <3>1. CASE Len(typed) <= MaxLen
            <4>1. FirstOf(typed) = SubSeq(typed, 1, Len(typed))
                BY <3>1 DEF FirstOf
            <4>2. buf = typed
                BY <2>3, <4>1, SubSeqFull
            <4> QED
                BY <2>2, <4>2
        <3>2. CASE ~(Len(typed) <= MaxLen)
            BY <2>3, <2>4, <3>2
        <3> QED
            BY <3>1, <3>2
    <2>6. CodeLen \in 0..Len(buf)
        BY <2>2, <2>3, <2>4
    <2>7. /\ request'.code < TenTo[CodeLen]
          /\ request'.id * TenTo[CodeLen] + request'.code = Number(buf)
        BY <2>2, <2>3, <2>6, SplitNumber, DigitsAssumption, LengthsAssumption
        DEF Parsed
    <2> QED
        BY <2>3, <2>5, <2>7
<1> QED
    BY <1>1, BufferHoldsWhatWasTyped, PTL DEF Spec, EntryIsTyped
=============================================================================
