----------------------------- MODULE DoorVerify -----------------------------
(***************************************************************************)
(* The keypad verification handshake of hslock: core 1 (src/core1.c) runs    *)
(* the keypad and the latch, core 0 (src/main.c) owns the key files and the  *)
(* clock.  They share door_verify_mailbox (src/shared/door_verify.h), whose  *)
(* fields are plain volatile words.  Every load and every store of the       *)
(* mailbox is a step of its own, so that each interleaving of the two cores  *)
(* is a behaviour; the __dmb() barriers are what makes program order the     *)
(* order of the steps.  Neither core ever waits for the other: core 1 gives  *)
(* up after two seconds, core 0 polls between its other duties.              *)
(***************************************************************************)
EXTENDS Integers

CONSTANTS
    Ids,          \* key ids a person can type, 0 .. 999 in the code
    Codes,        \* TOTP codes, 0 .. 999999 in the code
    KeyStates,    \* the states of the key directory the console can produce
    ClockStates,  \* the sets of entries the clock accepts; {} while it is unset
    SeqMod,       \* request_seq is a uint32_t: 2^32
    MaxAttempts   \* attempts in one boot (a bound of the model)

Entry == [id: Ids, code: Codes]

(* What storage_key_get finds under an id.                                  *)
KeyStatus == {"absent", "corrupt", "disabled", "enabled"}

(* The mailbox is zero-initialised, and 0 is a key id and a code like any   *)
(* other.  An attempt takes more than a second of key presses and beeps, so  *)
(* the 2^32 attempts that would wrap the nonce take over a century of one    *)
(* boot.                                                                     *)
ASSUME InputAssumption == 0 \in Ids /\ 0 \in Codes
ASSUME KeyStatesAssumption == KeyStates \subseteq [Ids -> KeyStatus]
ASSUME ClockStatesAssumption == ClockStates \subseteq SUBSET Entry
ASSUME NonceAssumption ==
    SeqMod \in Nat /\ MaxAttempts \in Nat /\ MaxAttempts < SeqMod

VARIABLES
    (* core 1 *)
    pc1,          \* where process_input stands; "keypad" is main1's loop
    entry,        \* its locals id and code
    nextSeq,      \* its static next_seq, which is also my_seq while it runs
    expired,      \* time_reached(deadline)
    (* the mailbox *)
    reqSeq, reqId, reqCode, respSeq, respGranted,
    (* core 0 *)
    pc0,          \* where core0_handle_door_verify or the main loop stands
    seq0, id0, code0, granted0,   \* its locals
    lastHandled,  \* its static last_handled_seq
    (* shared hardware, and what core 0 consults *)
    latch,        \* the level of LATCH_PIN
    keys,         \* the key files, in flash
    valid         \* the entries whose code totp_verify accepts now

core1 == <<pc1, entry, nextSeq, expired>>
core0 == <<pc0, seq0, id0, code0, granted0, lastHandled>>
request == <<reqSeq, reqId, reqCode>>
response == <<respSeq, respGranted>>
world == <<keys, valid>>
vars == <<core1, core0, request, response, latch, world>>

Pc1 == {"keypad", "wr_code", "wr_seq", "poll", "deadline", "rd_granted",
        "signal", "hold"}
Pc0 == {"boot", "poll", "rd_id", "rd_code", "lookup", "totp", "wr_granted",
        "wr_seq", "duties", "test_hold"}

TypeOK ==
    /\ pc1 \in Pc1
    /\ entry \in Entry
    /\ nextSeq \in 0..MaxAttempts
    /\ expired \in BOOLEAN
    /\ reqSeq \in 0..MaxAttempts /\ reqId \in Ids /\ reqCode \in Codes
    /\ respSeq \in 0..MaxAttempts /\ respGranted \in BOOLEAN
    /\ pc0 \in Pc0
    /\ seq0 \in 0..MaxAttempts /\ id0 \in Ids /\ code0 \in Codes
    /\ granted0 \in BOOLEAN
    /\ lastHandled \in 0..MaxAttempts
    /\ latch \in BOOLEAN
    /\ keys \in [Ids -> KeyStatus]
    /\ valid \in SUBSET Entry

-----------------------------------------------------------------------------
(* Everything but the key files, as the C start-up code leaves it.          *)
BootState ==
    /\ pc1 = "keypad"
    /\ entry = [id |-> 0, code |-> 0]
    /\ nextSeq = 0
    /\ expired = FALSE
    /\ reqSeq = 0 /\ reqId = 0 /\ reqCode = 0
    /\ respSeq = 0 /\ respGranted = FALSE
    /\ pc0 = "boot"
    /\ seq0 = 0 /\ id0 = 0 /\ code0 = 0 /\ granted0 = FALSE
    /\ lastHandled = 0
    /\ latch = FALSE

Init == BootState /\ keys \in KeyStates /\ valid \in ClockStates

-----------------------------------------------------------------------------
(* Core 1: process_input.                                                   *)

(* "++next_seq" in a uint32_t. *)
NextNonce(n) == (n + 1) % SeqMod

(* Mutant: the nonce is published before the payload it vouches for.        *)
SubmitSeqFirst ==
    /\ pc1 = "keypad"
    /\ nextSeq < MaxAttempts
    /\ entry' \in Entry
    /\ nextSeq' = NextNonce(nextSeq)
    /\ reqId' = entry'.id
    /\ reqSeq' = nextSeq'
    /\ pc1' = "wr_code"
    /\ expired' = FALSE
    /\ UNCHANGED <<core0, reqCode, response, latch, world>>

(* '#' after a well-formed input: take the nonce and store request_id.      *)
Submit ==
    /\ pc1 = "keypad"
    /\ nextSeq < MaxAttempts
    /\ entry' \in Entry
    /\ nextSeq' = NextNonce(nextSeq)
    /\ reqId' = entry'.id
    /\ pc1' = "wr_code"
    /\ expired' = FALSE
    /\ UNCHANGED <<core0, reqSeq, reqCode, response, latch, world>>

WriteRequestCode ==
    /\ pc1 = "wr_code"
    /\ reqCode' = entry.code
    /\ pc1' = "wr_seq"
    /\ UNCHANGED <<core0, entry, nextSeq, expired, reqSeq, reqId, response,
                   latch, world>>

WriteRequestSeq ==
    /\ pc1 = "wr_seq"
    /\ reqSeq' = nextSeq
    /\ pc1' = "poll"
    /\ UNCHANGED <<core0, entry, nextSeq, expired, reqId, reqCode, response,
                   latch, world>>

(* The two second deadline starts when the request is published. *)
DeadlinePasses ==
    /\ pc1 \in {"poll", "deadline"}
    /\ ~expired
    /\ expired' = TRUE
    /\ UNCHANGED <<core0, pc1, entry, nextSeq, request, response, latch, world>>

(* Mutant: any answer is taken for the answer (ISSUES.md C2).               *)
PollAnyResponse ==
    /\ pc1 = "poll"
    /\ pc1' = IF respSeq # 0 THEN "rd_granted" ELSE "deadline"
    /\ UNCHANGED <<core0, entry, nextSeq, expired, request, response, latch,
                   world>>

(* One turn of the wait loop loads response_seq first ... *)
PollResponse ==
    /\ pc1 = "poll"
    /\ pc1' = IF respSeq = nextSeq THEN "rd_granted" ELSE "deadline"
    /\ UNCHANGED <<core0, entry, nextSeq, expired, request, response, latch,
                   world>>

(* ... and then looks at the clock: an answer stored between the two is     *)
(* not seen when the deadline has passed.                                    *)
GiveUp ==
    /\ pc1 = "deadline"
    /\ expired
    /\ pc1' = "keypad"
    /\ UNCHANGED <<core0, entry, nextSeq, expired, request, response, latch,
                   world>>

(* Mutant: the deadline is computed inside the loop.                        *)
PollAgainRearmed ==
    /\ pc1 = "deadline"
    /\ pc1' = "poll"
    /\ expired' = FALSE
    /\ UNCHANGED <<core0, entry, nextSeq, request, response, latch, world>>

PollAgain ==
    /\ pc1 = "deadline"
    /\ ~expired
    /\ pc1' = "poll"
    /\ UNCHANGED <<core0, entry, nextSeq, expired, request, response, latch,
                   world>>

ReadVerdict ==
    /\ pc1 = "rd_granted"
    /\ pc1' = IF respGranted THEN "signal" ELSE "keypad"
    /\ UNCHANGED <<core0, entry, nextSeq, expired, request, response, latch,
                   world>>

(* The two jingles, then latch_open's first gpio_put. *)
LatchOn ==
    /\ pc1 = "signal"
    /\ latch' = TRUE
    /\ pc1' = "hold"
    /\ UNCHANGED <<core0, entry, nextSeq, expired, request, response, world>>

(* Mutant: latch_open returns with the pin high.                            *)
LatchStaysOn ==
    /\ pc1 = "hold"
    /\ pc1' = "keypad"
    /\ UNCHANGED <<core0, entry, nextSeq, expired, request, response, latch,
                   world>>

LatchOff ==
    /\ pc1 = "hold"
    /\ latch' = FALSE
    /\ pc1' = "keypad"
    /\ UNCHANGED <<core0, entry, nextSeq, expired, request, response, world>>

Core1Step ==
    \/ WriteRequestCode
    \/ WriteRequestSeq
    \/ PollResponse
    \/ GiveUp
    \/ PollAgain
    \/ ReadVerdict
    \/ LatchOn
    \/ LatchOff

-----------------------------------------------------------------------------
(* Core 0: core0_handle_door_verify, called from main's loop.               *)

(* main reaches its loop: storage, clock and network are up (or skipped).   *)
BootDone ==
    /\ pc0 = "boot"
    /\ pc0' = "poll"
    /\ UNCHANGED <<core1, seq0, id0, code0, granted0, lastHandled, request,
                   response, latch, world>>

(* No new request: return, and main goes on to its other duties.            *)
NothingPending ==
    /\ pc0 = "poll"
    /\ reqSeq = lastHandled
    /\ seq0' = reqSeq
    /\ pc0' = "duties"
    /\ UNCHANGED <<core1, id0, code0, granted0, lastHandled, request, response,
                   latch, world>>

(* Mutant: the request is not compared with the one handled last.           *)
ReadRequestAgain ==
    /\ pc0 = "poll"
    /\ seq0' = reqSeq
    /\ pc0' = "rd_id"
    /\ UNCHANGED <<core1, id0, code0, granted0, lastHandled, request, response,
                   latch, world>>

ReadRequestSeq ==
    /\ pc0 = "poll"
    /\ reqSeq # lastHandled
    /\ seq0' = reqSeq
    /\ pc0' = "rd_id"
    /\ UNCHANGED <<core1, id0, code0, granted0, lastHandled, request, response,
                   latch, world>>

ReadRequestId ==
    /\ pc0 = "rd_id"
    /\ id0' = reqId
    /\ pc0' = "rd_code"
    /\ UNCHANGED <<core1, seq0, code0, granted0, lastHandled, request, response,
                   latch, world>>

ReadRequestCode ==
    /\ pc0 = "rd_code"
    /\ code0' = reqCode
    /\ pc0' = "lookup"
    /\ UNCHANGED <<core1, seq0, id0, granted0, lastHandled, request, response,
                   latch, world>>

(* Mutant: "key not found" returns without answering.                       *)
LookupReturnsEarly ==
    /\ pc0 = "lookup"
    /\ granted0' = FALSE
    /\ pc0' = IF keys[id0] = "enabled" THEN "totp" ELSE "duties"
    /\ UNCHANGED <<core1, seq0, id0, code0, lastHandled, request, response,
                   latch, world>>

(* storage_key_get, is_checksum_valid and is_enabled.                       *)
Lookup ==
    /\ pc0 = "lookup"
    /\ granted0' = FALSE
    /\ pc0' = IF keys[id0] = "enabled" THEN "totp" ELSE "wr_granted"
    /\ UNCHANGED <<core1, seq0, id0, code0, lastHandled, request, response,
                   latch, world>>

(* totp_verify reads the clock once; an unset clock accepts nothing.        *)
CheckTotp ==
    /\ pc0 = "totp"
    /\ granted0' = ([id |-> id0, code |-> code0] \in valid)
    /\ pc0' = "wr_granted"
    /\ UNCHANGED <<core1, seq0, id0, code0, lastHandled, request, response,
                   latch, world>>

WriteGranted ==
    /\ pc0 = "wr_granted"
    /\ respGranted' = granted0
    /\ pc0' = "wr_seq"
    /\ UNCHANGED <<core1, seq0, id0, code0, granted0, lastHandled, request,
                   respSeq, latch, world>>

(* last_handled_seq is core 0's own: nobody sees it lag behind respSeq.     *)
WriteResponseSeq ==
    /\ pc0 = "wr_seq"
    /\ respSeq' = seq0
    /\ lastHandled' = seq0
    /\ pc0' = "duties"
    /\ UNCHANGED <<core1, seq0, id0, code0, granted0, request, respGranted,
                   latch, world>>

(* console_task, wifi_task and ntp_task are over: next turn of the loop,     *)
(* or a pump of the mailbox from inside a blocking console command.          *)
DutiesDone ==
    /\ pc0 = "duties"
    /\ pc0' = "poll"
    /\ UNCHANGED <<core1, seq0, id0, code0, granted0, lastHandled, request,
                   response, latch, world>>

(* A console command changed the key files.                                 *)
EditKeys ==
    /\ pc0 = "duties"
    /\ keys' \in KeyStates
    /\ UNCHANGED <<core1, core0, request, response, latch, valid>>

(* "test": latch_open on core 0, on the same pin.  console_task runs one     *)
(* command per turn, so the loop goes on when it returns.                     *)
TestLatchOn ==
    /\ pc0 = "duties"
    /\ latch' = TRUE
    /\ pc0' = "test_hold"
    /\ UNCHANGED <<core1, seq0, id0, code0, granted0, lastHandled, request,
                   response, world>>

TestLatchOff ==
    /\ pc0 = "test_hold"
    /\ latch' = FALSE
    /\ pc0' = "poll"
    /\ UNCHANGED <<core1, seq0, id0, code0, granted0, lastHandled, request,
                   response, world>>

HandleDoorVerify ==
    \/ NothingPending
    \/ ReadRequestSeq
    \/ ReadRequestId
    \/ ReadRequestCode
    \/ Lookup
    \/ CheckTotp
    \/ WriteGranted
    \/ WriteResponseSeq

Core0Step == HandleDoorVerify \/ DutiesDone \/ TestLatchOff

-----------------------------------------------------------------------------
(* Time passes, the clock is set or stepped: which codes are valid changes. *)
ClockMoves ==
    /\ valid' \in ClockStates
    /\ UNCHANGED <<core1, core0, request, response, latch, keys>>

(* A watchdog reset, the reboot command or a power cut, at any instant.     *)
(* latch_init drives the pin low; the key files are in flash.                *)
Reset ==
    /\ pc1' = "keypad"
    /\ entry' = [id |-> 0, code |-> 0]
    /\ nextSeq' = 0
    /\ expired' = FALSE
    /\ reqSeq' = 0 /\ reqId' = 0 /\ reqCode' = 0
    /\ respSeq' = 0 /\ respGranted' = FALSE
    /\ pc0' = "boot"
    /\ seq0' = 0 /\ id0' = 0 /\ code0' = 0 /\ granted0' = FALSE
    /\ lastHandled' = 0
    /\ latch' = FALSE
    /\ valid' \in ClockStates
    /\ UNCHANGED keys

Next ==
    \/ Submit \/ Core1Step \/ DeadlinePasses
    \/ BootDone \/ Core0Step \/ EditKeys \/ TestLatchOn
    \/ ClockMoves \/ Reset

(* Both cores keep executing and the two second deadline arrives.  Nothing   *)
(* promises that anyone types, that boot_network ends or that the clock moves.*)
Fairness == WF_vars(Core1Step) /\ WF_vars(DeadlinePasses) /\ WF_vars(Core0Step)

Spec == Init /\ [][Next]_vars /\ Fairness

-----------------------------------------------------------------------------
(* The inductive invariant: what the handshake maintains between any two     *)
(* steps of either core.                                                     *)

Writing == {"wr_code", "wr_seq"}
Judging == {"rd_id", "rd_code", "lookup", "totp", "wr_granted", "wr_seq"}

(* Core 0 is never ahead of core 1, and has answered what it has handled.    *)
NonceOrder ==
    /\ lastHandled <= reqSeq
    /\ seq0 <= reqSeq
    /\ respSeq = lastHandled
    /\ pc0 \in Judging => lastHandled < seq0
    /\ IF pc1 \in Writing THEN reqSeq < nextSeq ELSE reqSeq = nextSeq

(* Once the nonce is published, the payload it vouches for stays put.        *)
PayloadGuarded ==
    /\ nextSeq > 0 => reqId = entry.id
    /\ nextSeq > 0 /\ pc1 # "wr_code" => reqCode = entry.code

(* What core 0 copied under the current nonce is the current attempt: a      *)
(* torn copy, half one attempt and half the next, carries an older nonce.     *)
CopyFaithful ==
    seq0 = nextSeq =>
        /\ pc0 \in Judging \ {"rd_id"} => id0 = entry.id
        /\ pc0 \in Judging \ {"rd_id", "rd_code"} => code0 = entry.code
        /\ pc0 = "totp" => keys[id0] = "enabled"

(* Core 1 acts on a verdict only while it is the answer to its own nonce.    *)
VerdictIsMine ==
    /\ pc1 \in {"rd_granted", "signal", "hold"} => respSeq = nextSeq
    /\ pc1 \in {"signal", "hold"} => respGranted
    /\ pc0 = "wr_seq" => respGranted = granted0

HandshakeInv ==
    TypeOK /\ NonceOrder /\ PayloadGuarded /\ CopyFaithful /\ VerdictIsMine

-----------------------------------------------------------------------------
(* The latch pin is high only while one of the two cores is inside           *)
(* latch_open (src/hardware/latch.c), even though both drive the same pin.    *)
LatchOnlyWhileHeld == latch => pc1 = "hold" \/ pc0 = "test_hold"

(* From the moment core 1 sees its own nonce echoed until it has read the     *)
(* verdict, core 0 writes neither response field, although core 0 knows       *)
(* nothing of that moment.                                                    *)
VerdictStableUnderReader ==
    [][pc1 = "rd_granted" => UNCHANGED response \/ Reset]_vars

(* "Single-shot per request" (src/shared/door_verify.h): whenever core 0      *)
(* stores a verdict or publishes an answer, it is for a request newer than    *)
(* the last one answered.  No request is judged or answered a second time,    *)
(* and the verdict beside a published nonce is not rewritten under that nonce.*)
SingleShot ==
    [][/\ pc0 = "wr_granted" /\ pc0' = "wr_seq" => respSeq < seq0
       /\ pc0 = "wr_seq" /\ pc0' = "duties" => respSeq < respSeq']_vars

(* Every submitted attempt comes to an end, whatever core 0 does.             *)
AttemptEnds == (pc1 # "keypad") ~> (pc1 = "keypad")

(* Once the boot is over, every published request is answered unless core 1  *)
(* has moved on to a newer one.                                              *)
RequestServed ==
    \A n \in 1..MaxAttempts :
        (reqSeq = n /\ pc0 # "boot") ~> (respSeq = n \/ reqSeq # n)

-----------------------------------------------------------------------------
(* The refinement: which verdict the current attempt has received.           *)
VerdictOf(g) == IF g THEN "granted" ELSE "denied"

AttemptPhase ==
    IF pc1 = "keypad" THEN "idle"
    ELSE IF pc1 = "hold" THEN "open" ELSE "submitted"

AttemptVerdict ==
    IF pc1 = "keypad" THEN "none"
    ELSE IF respSeq = nextSeq THEN VerdictOf(respGranted)
    ELSE IF seq0 = nextSeq /\ pc0 \in {"wr_granted", "wr_seq"}
    THEN VerdictOf(granted0)
    ELSE "none"

DA == INSTANCE DoorAccess WITH
          Entries <- Entry, phase <- AttemptPhase,
          attempt <- entry, verdict <- AttemptVerdict

(* The two cores and their mailbox implement DoorAccess: the door opens only  *)
(* for an attempt that was itself judged, once, against the key file and the  *)
(* clock of one instant after it was submitted; a late, stale or torn answer  *)
(* never counts.                                                              *)
ImplementsDoorAccess == DA!Spec
=============================================================================
