----------------------------- MODULE DoorAccess -----------------------------
(***************************************************************************)
(* What the keypad side of hslock promises, with the two cores and their    *)
(* mailbox left out.  One attempt is in progress at a time.  An attempt is   *)
(* judged at most once, at one instant, against the key files and the codes  *)
(* the clock accepts at that instant; the latch is driven for an attempt     *)
(* only after that very attempt was judged "granted"; an attempt may also    *)
(* end with no verdict at all (the two second timeout, or a reset).          *)
(***************************************************************************)

CONSTANTS
    Entries,      \* what a person can type: records [id, code]
    KeyStates,    \* the contents of the key directory
    ClockStates   \* the sets of entries whose code the clock accepts

VARIABLES
    phase,     \* "idle", "submitted" or "open": where the attempt is
    attempt,   \* the entry of the current (or last) attempt
    verdict,   \* "none", "granted" or "denied", of the current attempt
    keys,
    valid

vars == <<phase, attempt, verdict, keys, valid>>

(* The door may open for an entry whose key is enabled and whose code the     *)
(* clock accepts.                                                            *)
Accepted(e) == keys[e.id] = "enabled" /\ e \in valid

Init ==
    /\ phase = "idle"
    /\ attempt \in Entries
    /\ verdict = "none"
    /\ keys \in KeyStates
    /\ valid \in ClockStates

Submit ==
    /\ phase = "idle"
    /\ phase' = "submitted"
    /\ attempt' \in Entries
    /\ verdict' = "none"
    /\ UNCHANGED <<keys, valid>>

Judge ==
    /\ phase = "submitted"
    /\ verdict = "none"
    /\ verdict' = IF Accepted(attempt) THEN "granted" ELSE "denied"
    /\ UNCHANGED <<phase, attempt, keys, valid>>

Open ==
    /\ phase = "submitted"
    /\ verdict = "granted"
    /\ phase' = "open"
    /\ UNCHANGED <<attempt, verdict, keys, valid>>

(* Refused, timed out, or the latch released after the door was open. *)
Finish ==
    /\ phase # "idle"
    /\ phase' = "idle"
    /\ verdict' = "none"
    /\ UNCHANGED <<attempt, keys, valid>>

(* The console edits keys, time passes: neither touches an attempt. *)
Environment ==
    /\ \/ keys' \in KeyStates /\ UNCHANGED valid
       \/ valid' \in ClockStates /\ UNCHANGED keys
    /\ UNCHANGED <<phase, attempt, verdict>>

(* Everything in RAM is forgotten; the key files survive. *)
Reset ==
    /\ phase' = "idle"
    /\ attempt' \in Entries
    /\ verdict' = "none"
    /\ valid' \in ClockStates
    /\ UNCHANGED keys

Next == Submit \/ Judge \/ Open \/ Finish \/ Environment \/ Reset

Spec == Init /\ [][Next]_vars
=============================================================================
