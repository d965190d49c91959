------------------------------ MODULE NtpClock ------------------------------
(***************************************************************************)
(* Which timestamps ntp_recv_cb lets reach the RTC (src/network/ntp.c): the   *)
(* sanity band, the floor and ceiling around the monotonic projection, and    *)
(* the budget of backward corrections.  Whoever answers may send any          *)
(* timestamp: what is checked is how far the clock can be moved.              *)
(*                                                                           *)
(* Time is in ticks of 1/Hz second, so that the seconds the code truncates    *)
(* are visible.  The RTC and the monotonic timer run from one crystal; the    *)
(* RTC shows whole seconds since it was set.                                  *)
(***************************************************************************)
EXTENDS Integers

CONSTANTS
    Hz,            \* ticks per second; the code counts microseconds
    BuildTime,     \* BUILD_UNIX_TIME
    SaneMaxAge,    \* NTP_SANE_MAX_AGE_S
    Epsilon,       \* NTP_ROLLBACK_EPSILON_S
    Budget,        \* NTP_ROLLBACK_BUDGET_S
    MaxForward,    \* NTP_MAX_FORWARD_STEP_S
    UintMax,       \* UINT32_MAX
    TotpStep,      \* TOTP_STEP_SECONDS
    MaxNow,        \* ticks since boot (a bound of the model)
    MaxSyncs       \* accepted replies since boot (a bound of the model)

ASSUME ClockAssumption ==
    /\ Hz \in Nat \ {0} /\ TotpStep \in Nat \ {0}
    /\ BuildTime \in Nat /\ SaneMaxAge \in Nat /\ UintMax \in Nat
    /\ Epsilon \in Nat /\ Budget \in Nat /\ MaxForward \in Nat
    /\ MaxNow \in Nat /\ MaxSyncs \in Nat
    (* 2^32 seconds end in 2106: no sane timestamp plus the uptime, in seconds, *)
    (* gets there                                                             *)
    /\ BuildTime + SaneMaxAge + (MaxNow \div Hz) <= UintMax
    /\ Budget <= UintMax

VARIABLES
    now,        \* time_us_64, in ticks
    synced,
    lastUnix,   \* last_sync_unix, which is also what the RTC was set to
    lastMono,   \* last_sync_monotonic_us, the instant the RTC was set
    used,       \* rollback_budget_used_s
    (* history *)
    firstUnix, firstMono,   \* the first accepted reply
    syncs                   \* how many were accepted

sync == <<synced, lastUnix, lastMono, used, firstUnix, firstMono, syncs>>
vars == <<now, sync>>

Timestamps == 0..UintMax

Init ==
    /\ now = 0
    /\ synced = FALSE
    /\ lastUnix = 0 /\ lastMono = 0
    /\ used = 0
    /\ firstUnix = 0 /\ firstMono = 0 /\ syncs = 0

-----------------------------------------------------------------------------
(* clock_get_unix_time: what the RTC shows once it was set.                  *)
Clock == lastUnix + (now - lastMono) \div Hz

(* rollback_check's "elapsed_s", a uint32_t, and the saturating sum.          *)
Elapsed == ((now - lastMono) \div Hz) % (UintMax + 1)
Projected ==
    IF lastUnix > UintMax - Elapsed THEN UintMax ELSE lastUnix + Elapsed
Floor == IF Projected > Epsilon THEN Projected - Epsilon ELSE 0

InSaneBand(t) == t >= BuildTime /\ t - BuildTime <= SaneMaxAge

NotTooFarAhead(t) ==
    Projected <= UintMax - MaxForward => t <= Projected + MaxForward

BackStep(t) == IF t < Projected THEN Projected - t ELSE 0

(* A mutant: the budget bounds each correction, not their sum.               *)
BudgetPerStep(t) ==
    synced => t >= Floor /\ NotTooFarAhead(t) /\ BackStep(t) <= Budget

(* A mutant: no ceiling.                                                     *)
NoCeiling(t) ==
    synced => t >= Floor /\ BackStep(t) <= (Budget - used) % (UintMax + 1)

(* A mutant: no floor.                                                       *)
NoFloor(t) ==
    synced => NotTooFarAhead(t) /\ BackStep(t) <= (Budget - used) % (UintMax + 1)

RollbackCheck(t) ==
    synced => /\ t >= Floor
              /\ NotTooFarAhead(t)
              /\ BackStep(t) <= (Budget - used) % (UintMax + 1)

(* apply_time, and the history of this boot.                                 *)
ApplyTime(t) ==
    /\ lastUnix' = t
    /\ lastMono' = now
    /\ synced' = TRUE
    /\ firstUnix' = IF synced THEN firstUnix ELSE t
    /\ firstMono' = IF synced THEN firstMono ELSE now
    /\ syncs' = syncs + 1

(* A mutant: a correction is not charged.                                    *)
AcceptUncharged(t) ==
    /\ syncs < MaxSyncs
    /\ InSaneBand(t)
    /\ RollbackCheck(t)
    /\ ApplyTime(t)
    /\ UNCHANGED <<now, used>>

(* A reply with timestamp t that passed the header and nonce checks; a reply  *)
(* that fails the band or the rollback check is dropped and changes nothing.  *)
Accept(t) ==
    /\ syncs < MaxSyncs
    /\ InSaneBand(t)
    /\ RollbackCheck(t)
    /\ used' = IF synced THEN used + BackStep(t) ELSE used
    /\ ApplyTime(t)
    /\ UNCHANGED now

Reply == \E t \in Timestamps : Accept(t)

Tick == now < MaxNow /\ now' = now + 1 /\ UNCHANGED sync

(* Reset: the RTC, the floor and the budget start afresh.                    *)
Reset ==
    /\ now' = 0
    /\ synced' = FALSE
    /\ lastUnix' = 0 /\ lastMono' = 0
    /\ used' = 0
    /\ firstUnix' = 0 /\ firstMono' = 0 /\ syncs' = 0

Next == Reply \/ Tick \/ Reset

Spec == Init /\ [][Next]_vars

-----------------------------------------------------------------------------
TypeOK ==
    /\ now \in 0..MaxNow
    /\ synced \in BOOLEAN
    /\ lastUnix \in Timestamps
    /\ lastMono \in 0..now
    /\ used \in Nat
    /\ firstUnix \in Timestamps
    /\ firstMono \in 0..now
    /\ syncs \in 0..MaxSyncs

(* NTP_ROLLBACK_BUDGET_S - rollback_budget_used_s is an unsigned subtraction:  *)
(* it must never wrap, or every rollback would fit.                          *)
BudgetNeverOverrun == used <= Budget

(* The RTC in ticks, and what an RTC set once, by the first reply, would show. *)
ClockTicks == Hz * lastUnix + (now - lastMono)
Undisturbed == Hz * firstUnix + (now - firstMono)

(* NTP_ROLLBACK_BUDGET_S - "stops a loop from walking the clock back without   *)
(* bound": however many replies are accepted, together they take the clock     *)
(* back by no more than the budget, and the part of a second each of them      *)
(* truncates.                                                                *)
WalkBackBounded ==
    synced => Undisturbed - ClockTicks <= Hz * Budget + (syncs - 1) * (Hz - 1)

(* NTP_MAX_FORWARD_STEP_S - nor do they take it further ahead than one step    *)
(* each.                                                                     *)
WalkAheadBounded ==
    synced => ClockTicks - Undisturbed <= Hz * (syncs - 1) * MaxForward

(* NTP_ROLLBACK_EPSILON_S - one accepted reply moves the clock back by less    *)
(* than a TOTP step, so the displayed window falls back by one at most.        *)
RollbackUnderOneStep ==
    [][synced /\ synced' => Clock' \div TotpStep >= Clock \div TotpStep - 1]_vars
=============================================================================
