---------------------------- MODULE NtpClockProofs ----------------------------
(***************************************************************************)
(* For every tick rate, band, epsilon, budget and cap: the budget never wraps, *)
(* and no accepted reply, nor any sequence of them, moves the clock further     *)
(* than the constants of ntp.h allow.                                        *)
(***************************************************************************)
EXTENDS NtpClock, TLAPS

USE ClockAssumption DEF ClockAssumption, sync, vars, Timestamps

(* What the model's arithmetic needs of the state; the drift bound is the      *)
(* inductive form of WalkBackBounded: it counts what was charged so far.       *)
DriftCharged ==
    synced => Undisturbed - ClockTicks <= Hz * used + (syncs - 1) * (Hz - 1)

ClockInv ==
    /\ TypeOK
    /\ synced => syncs >= 1 /\ lastUnix <= BuildTime + SaneMaxAge
    /\ ~synced => lastUnix = 0
    /\ BudgetNeverOverrun
    /\ DriftCharged
    /\ WalkAheadBounded

(* What \div leaves out is less than its divisor.                            *)
LEMMA DivBounds ==
    ASSUME NEW d \in Nat \ {0}, NEW n \in Nat
    PROVE  /\ n \div d \in Nat
           /\ d * (n \div d) <= n
           /\ n <= d * (n \div d) + (d - 1)
           /\ n \div d <= n
<1>1. n \div d \in Nat /\ n % d \in 0..(d - 1)
  BY SMT
<1>2. n = d * (n \div d) + (n % d)
  BY SMT
<1>3. n \div d <= d * (n \div d)
  BY <1>1, SMT
<1> QED
  BY <1>1, <1>2, <1>3, SMT

(* Fewer ticks make no more whole seconds.                                    *)
LEMMA DivMonotone ==
    ASSUME NEW d \in Nat \ {0}, NEW m \in Nat, NEW n \in 0..m
    PROVE  n \div d <= m \div d
<1>1. /\ n \div d \in Nat /\ d * (n \div d) <= n
      /\ m \div d \in Nat /\ m <= d * (m \div d) + (d - 1)
  <2>1. n \in Nat
    OBVIOUS
  <2> QED
    BY <2>1, DivBounds
<1> DEFINE a == n \div d  b == m \div d
<1>2. a \in Nat /\ b \in Nat /\ d * a < d * b + d
  BY <1>1
<1> HIDE DEF a, b
<1>3. d * b + d = d * (b + 1)
  BY <1>2
<1>4. ASSUME a >= b + 1 PROVE d * a >= d * (b + 1)
  BY <1>2, <1>4
<1>5. d * a \in Int /\ d * b \in Int /\ d * (b + 1) \in Int
  BY <1>2
<1>6. ~(a >= b + 1)
  BY <1>2, <1>3, <1>4, <1>5
<1>7. a <= b
  BY <1>2, <1>6
<1> QED
  BY <1>7 DEF a, b

(* While the calendar fits 32 bits, rollback_check's projection is the time    *)
(* the RTC shows: neither the cast nor the saturation ever takes effect.       *)
LEMMA ProjectionIsClock ==
    ASSUME TypeOK, lastUnix <= BuildTime + SaneMaxAge
    PROVE  /\ Elapsed = (now - lastMono) \div Hz
           /\ Elapsed \in Nat
           /\ Projected = lastUnix + Elapsed
           /\ Projected = Clock
           /\ Projected \in Nat
<1> DEFINE n == now - lastMono  uptime == MaxNow \div Hz
<1>0. BuildTime + SaneMaxAge + uptime <= UintMax
  BY ClockAssumption, Zenon DEF ClockAssumption
<1>1. n \in 0..MaxNow
  BY DEF TypeOK
<1>a. BuildTime + SaneMaxAge + uptime <= UintMax /\ uptime \in Nat
  <2>1. MaxNow \in Nat /\ Hz \in Nat \ {0}
    OBVIOUS
  <2>2. uptime \in Nat
    BY <2>1, DivBounds
  <2> QED
    BY <1>0, <2>2
<1> HIDE DEF n, uptime
<1>b. n \div Hz \in Nat /\ n \div Hz <= uptime
  <2>1. n \in Nat /\ MaxNow \in Nat /\ Hz \in Nat \ {0}
    BY <1>1
  <2>2. n \div Hz \in Nat
    BY <2>1, DivBounds
  <2>3. n \div Hz <= MaxNow \div Hz
    BY <1>1, <2>1, DivMonotone
  <2> QED
    BY <2>2, <2>3 DEF uptime
<1>2. (now - lastMono) \div Hz \in Nat /\ (now - lastMono) \div Hz <= uptime
  BY <1>b DEF n
<1>3. Elapsed = (now - lastMono) \div Hz
  BY <1>a, <1>2 DEF Elapsed
<1>4. ~(lastUnix > UintMax - Elapsed)
  BY <1>a, <1>2, <1>3 DEF TypeOK
<1> QED
  BY <1>2, <1>3, <1>4 DEF Projected, Clock, TypeOK

(* An accepted reply is charged at most what was left of the budget.          *)
LEMMA ChargeFits ==
    ASSUME ClockInv, NEW t \in Timestamps, RollbackCheck(t), synced
    PROVE  BackStep(t) \in Nat /\ used + BackStep(t) <= Budget
<1>1. Projected \in Nat
  BY ProjectionIsClock DEF ClockInv
<1>2. BackStep(t) \in Nat
  BY <1>1 DEF BackStep
<1>3. Budget - used \in Nat /\ Budget - used <= UintMax
  BY DEF ClockInv, TypeOK, BudgetNeverOverrun
<1>4. (Budget - used) % (UintMax + 1) = Budget - used
  BY <1>3
<1> QED
  BY <1>2, <1>3, <1>4 DEF RollbackCheck, ClockInv, TypeOK

(* The arithmetic of one accepted reply, with the products named: u is where   *)
(* the undisturbed clock is ahead, c a charge, k the replies so far.           *)
LEMMA BackArithmetic ==
    ASSUME NEW a \in Int, NEW l \in Int, NEW e \in Nat, NEW r \in Nat,
           NEW t \in Int, NEW b \in Nat, NEW c \in Nat, NEW k \in Int,
           a <= Hz * c + (k - 1) * (Hz - 1),
           r <= Hz * e + (Hz - 1),
           l + e - t <= b
    PROVE  a + Hz * l + r - Hz * t <= Hz * (c + b) + k * (Hz - 1)
<1>1. Hz * (l + e - t) <= Hz * b
  BY SMT
<1>2. Hz * (l + e - t) = Hz * l + Hz * e - Hz * t
  BY SMT
<1>3. Hz * (c + b) = Hz * c + Hz * b
  BY SMT
<1>4. (k - 1) * (Hz - 1) = k * (Hz - 1) - (Hz - 1)
  BY SMT
<1> DEFINE hl == Hz * l  he == Hz * e  ht == Hz * t  hb == Hz * b  hc == Hz * c
           kh == k * (Hz - 1)
<1>5. hl \in Int /\ he \in Int /\ ht \in Int /\ hb \in Int /\ hc \in Int /\ kh \in Int
  BY SMT
<1>6. a <= hc + kh - (Hz - 1) /\ r <= he + (Hz - 1) /\ hl + he - ht <= hb
  BY <1>1, <1>2, <1>4
<1> HIDE DEF hl, he, ht, hb, hc, kh
<1>7. a + hl + r - ht <= hc + hb + kh
  BY <1>5, <1>6, SMT
<1> QED
  BY <1>3, <1>7 DEF hl, ht, hb, hc, kh

(* The sum that bounds how far accepted answers can carry the clock ahead: one more
   answer adds at most one jump forward to the lead. *)
LEMMA AheadArithmetic ==
    ASSUME NEW a \in Int, NEW l \in Int, NEW e \in Nat, NEW r \in Nat,
           NEW t \in Int, NEW k \in Int,
           a <= Hz * (k - 1) * MaxForward,
           Hz * e <= r,
           t <= l + e + MaxForward
    PROVE  Hz * t + a - Hz * l - r <= Hz * k * MaxForward
<1> DEFINE hm == Hz * MaxForward  hkm == Hz * k * MaxForward
           hl == Hz * l  he == Hz * e  ht == Hz * t
<1>1. Hz * (k - 1) * MaxForward = hkm - hm
  BY SMT
<1>2. Hz * t <= Hz * (l + e + MaxForward)
  BY SMT
<1>3. Hz * (l + e + MaxForward) = hl + he + hm
  BY SMT
<1>4. hl \in Int /\ he \in Int /\ ht \in Int /\ hm \in Int /\ hkm \in Int
  BY SMT
<1>5. a <= hkm - hm /\ he <= r /\ ht <= hl + he + hm
  BY <1>1, <1>2, <1>3
<1> HIDE DEF hl, he, ht, hm, hkm
<1>6. ht + a - hl - r <= hkm
  BY <1>4, <1>5, SMT
<1> QED
  BY <1>6 DEF hl, ht, hkm

(* The clock starts unset, with no answer accepted. *)
LEMMA InitClock == Init => ClockInv
<1> SUFFICES ASSUME Init PROVE ClockInv
  OBVIOUS
<1>1. 0 \in Timestamps /\ 0 \in 0..MaxNow /\ 0 \in 0..MaxSyncs /\ 0 \in 0..0
  OBVIOUS
<1>2. TypeOK
  BY <1>1, Zenon DEF Init, TypeOK
<1> QED
  BY <1>2 DEF Init, ClockInv, BudgetNeverOverrun, DriftCharged, WalkAheadBounded

(* The first accepted reply: there is no projection to compare it with.        *)
LEMMA StepFirst ==
    ASSUME ClockInv, NEW t \in Timestamps, Accept(t), ~synced
    PROVE  ClockInv'
<1> USE DEF Accept, ApplyTime
<1>1. TypeOK'
  BY DEF ClockInv, TypeOK
<1>2. syncs' = syncs + 1 /\ synced' /\ syncs \in Nat
  BY DEF ClockInv, TypeOK
<1>3. lastUnix' <= BuildTime + SaneMaxAge
  BY DEF InSaneBand, ClockInv, TypeOK
<1>4. Undisturbed' = ClockTicks'
  BY DEF Undisturbed, ClockTicks
<1>5. Undisturbed' \in Int
  BY <1>1 DEF Undisturbed, TypeOK
<1>6. /\ Hz * used' \in Nat
      /\ (syncs' - 1) * (Hz - 1) \in Nat
      /\ Hz * (syncs' - 1) * MaxForward \in Nat
  <2>1. syncs' - 1 \in Nat /\ Hz - 1 \in Nat /\ used' \in Nat
    BY <1>1, <1>2 DEF TypeOK
  <2> QED
    BY <2>1, SMT
<1>7. DriftCharged' /\ WalkAheadBounded'
  BY <1>4, <1>5, <1>6 DEF DriftCharged, WalkAheadBounded
<1>8. BudgetNeverOverrun'
  BY DEF ClockInv, BudgetNeverOverrun
<1> QED
  BY <1>1, <1>2, <1>3, <1>7, <1>8 DEF ClockInv

(* A later reply: between the floor and the ceiling, and charged.             *)
LEMMA StepResync ==
    ASSUME ClockInv, NEW t \in Timestamps, Accept(t), synced
    PROVE  ClockInv'
<1> USE DEF Accept, ApplyTime
<1> DEFINE r == now - lastMono
           a == Undisturbed - ClockTicks
<1>1. /\ Projected = lastUnix + Elapsed
      /\ Elapsed = r \div Hz
      /\ Elapsed \in Nat
      /\ Projected \in Nat
  BY ProjectionIsClock DEF ClockInv
<1>2. r \in Nat
  BY DEF ClockInv, TypeOK
<1>3. Hz * Elapsed <= r /\ r <= Hz * Elapsed + (Hz - 1)
  <2> HIDE DEF r
  <2> QED
    BY <1>1, <1>2, DivBounds
<1>4. BackStep(t) \in Nat /\ used + BackStep(t) <= Budget
  BY ChargeFits
<1>5. used' = used + BackStep(t) /\ used \in Nat /\ syncs \in Nat
  BY DEF ClockInv, TypeOK
<1>6. TypeOK'
  BY <1>4 DEF ClockInv, TypeOK
<1>7. BudgetNeverOverrun'
  BY <1>4, <1>5 DEF BudgetNeverOverrun
<1>8. lastUnix' <= BuildTime + SaneMaxAge /\ synced' /\ syncs' = syncs + 1
  BY DEF InSaneBand, ClockInv, TypeOK
<1>9. a \in Int /\ lastUnix \in Nat /\ t \in Nat
  BY DEF ClockInv, TypeOK, Undisturbed, ClockTicks
<1>10. lastUnix + Elapsed - t <= BackStep(t)
  BY <1>1, <1>9 DEF BackStep
<1>11. t <= lastUnix + Elapsed + MaxForward
  <2>1. Projected <= UintMax - MaxForward => t <= Projected + MaxForward
    BY DEF RollbackCheck, NotTooFarAhead
  <2>2. t <= UintMax
    OBVIOUS
  <2> QED
    BY <1>1, <2>1, <2>2
<1>12. a <= Hz * used + (syncs - 1) * (Hz - 1)
  BY DEF ClockInv, DriftCharged
<1>13. 0 - a <= Hz * (syncs - 1) * MaxForward
  <2>1. ClockTicks - Undisturbed <= Hz * (syncs - 1) * MaxForward
    BY DEF ClockInv, WalkAheadBounded
  <2>2. ClockTicks \in Int /\ Undisturbed \in Int
    BY DEF ClockInv, TypeOK, Undisturbed, ClockTicks
  <2> QED
    BY <2>1, <2>2
<1>14. Undisturbed' - ClockTicks' = a + Hz * lastUnix + r - Hz * t
  <2>1. ClockTicks' = Hz * t
    BY <1>9 DEF ClockTicks, ClockInv, TypeOK
  <2>2. Undisturbed' = Undisturbed
    BY DEF Undisturbed
  <2>3. ClockTicks = Hz * lastUnix + r
    BY DEF ClockTicks
  <2>4. Undisturbed \in Int /\ Hz * lastUnix \in Int /\ Hz * t \in Int
    BY <1>9 DEF Undisturbed, ClockInv, TypeOK
  <2> QED
    BY <1>2, <2>1, <2>2, <2>3, <2>4
<1> HIDE DEF a, r
<1>15. a + Hz * lastUnix + r - Hz * t
          <= Hz * (used + BackStep(t)) + syncs * (Hz - 1)
  BY <1>1, <1>2, <1>3, <1>4, <1>5, <1>9, <1>10, <1>12, BackArithmetic
<1>16. DriftCharged'
  BY <1>5, <1>8, <1>14, <1>15 DEF DriftCharged
<1>17. Hz * t + (0 - a) - Hz * lastUnix - r <= Hz * syncs * MaxForward
  BY <1>1, <1>2, <1>3, <1>5, <1>9, <1>11, <1>13, AheadArithmetic
<1>18. WalkAheadBounded'
  <2>1. Undisturbed' \in Int /\ ClockTicks' \in Int
    BY <1>6 DEF Undisturbed, ClockTicks, TypeOK
  <2>2. Hz * t \in Int /\ Hz * lastUnix \in Int
    BY <1>9
  <2>3. ClockTicks' - Undisturbed' = Hz * t + (0 - a) - Hz * lastUnix - r
    <3> DEFINE c == ClockTicks'  u == Undisturbed'  ht == Hz * t  hl == Hz * lastUnix
    <3>1. c \in Int /\ u \in Int /\ ht \in Int /\ hl \in Int /\ a \in Int /\ r \in Int
      BY <1>2, <1>9, <2>1, <2>2
    <3>2. u - c = a + hl + r - ht
      BY <1>14
    <3> HIDE DEF c, u, ht, hl
    <3>3. c - u = ht + (0 - a) - hl - r
      BY <3>1, <3>2, SMT
    <3> QED
      BY <3>3 DEF c, u, ht, hl
  <2>4. syncs' - 1 = syncs
    BY <1>5, <1>8
  <2>5. ClockTicks' - Undisturbed' <= Hz * (syncs' - 1) * MaxForward
    <3> DEFINE x == ClockTicks' - Undisturbed'
    <3>1. x = Hz * t + (0 - a) - Hz * lastUnix - r
      BY <2>3
    <3> HIDE DEF x
    <3>2. x <= Hz * syncs * MaxForward
      BY <1>17, <3>1
    <3>3. x <= Hz * (syncs' - 1) * MaxForward
      BY <2>4, <3>2, Zenon
    <3> QED
      BY <3>3 DEF x
  <2> QED
    BY <2>5, Zenon DEF WalkAheadBounded
<1>19. synced' => syncs' >= 1
  BY <1>5, <1>8
<1> QED
  BY <1>6, <1>7, <1>8, <1>16, <1>18, <1>19, Zenon DEF ClockInv

(* Every answer, tick and loss of the clock keeps the invariant of the clock. *)
LEMMA StepClock == ClockInv /\ [Next]_vars => ClockInv'
<1> SUFFICES ASSUME ClockInv, [Next]_vars PROVE ClockInv'
  OBVIOUS
<1>1. CASE Reply
  <2>1. PICK t \in Timestamps : Accept(t)
    BY <1>1 DEF Reply
  <2> QED
    BY <2>1, StepFirst, StepResync
<1>2. CASE Tick
  <2>1. TypeOK'
    BY <1>2 DEF Tick, ClockInv, TypeOK
  <2>2. synced => Undisturbed' - ClockTicks' = Undisturbed - ClockTicks
    BY <1>2 DEF Tick, ClockInv, TypeOK, Undisturbed, ClockTicks
  <2>3. synced => ClockTicks' - Undisturbed' = ClockTicks - Undisturbed
    BY <1>2 DEF Tick, ClockInv, TypeOK, Undisturbed, ClockTicks
  <2>4. DriftCharged' /\ WalkAheadBounded'
    BY <1>2, <2>2, <2>3 DEF Tick, ClockInv, DriftCharged, WalkAheadBounded
  <2> QED
    BY <1>2, <2>1, <2>4 DEF Tick, ClockInv, BudgetNeverOverrun
<1>3. CASE Reset
  <2>0. 0 \in Timestamps /\ 0 \in 0..MaxNow /\ 0 \in 0..MaxSyncs /\ 0 \in 0..0
    OBVIOUS
  <2>1. TypeOK'
    BY <1>3, <2>0, Zenon DEF Reset, TypeOK
  <2> QED
    BY <1>3, <2>1
    DEF Reset, ClockInv, BudgetNeverOverrun, DriftCharged, WalkAheadBounded
<1>4. CASE UNCHANGED vars
  BY <1>4 DEF ClockInv, TypeOK, BudgetNeverOverrun, DriftCharged,
              WalkAheadBounded, Undisturbed, ClockTicks
<1> QED
  BY <1>1, <1>2, <1>3, <1>4 DEF Next

(* The strengthened invariant holds in every reachable state. *)
LEMMA ClockInvariant == Spec => []ClockInv
<1> QED
  BY InitClock, StepClock, PTL DEF Spec

(* ntp.c:87 - the unsigned subtraction never wraps, whatever is answered.      *)
THEOREM BudgetHolds == Spec => []BudgetNeverOverrun
<1>1. ClockInv => BudgetNeverOverrun
  BY DEF ClockInv
<1> QED
  BY <1>1, ClockInvariant, PTL

(* ntp.h:16 - "stops a loop from walking the clock back without bound".       *)
THEOREM WalkBack == Spec => []WalkBackBounded
<1>1. ClockInv => WalkBackBounded
  <2> SUFFICES ASSUME ClockInv, synced
               PROVE  Undisturbed - ClockTicks <= Hz * Budget + (syncs - 1) * (Hz - 1)
    BY DEF WalkBackBounded
  <2>1. Undisturbed - ClockTicks <= Hz * used + (syncs - 1) * (Hz - 1)
    BY DEF ClockInv, DriftCharged
  <2>2. Hz * used <= Hz * Budget
    BY SMT DEF ClockInv, BudgetNeverOverrun, TypeOK
  <2>3. /\ Undisturbed - ClockTicks \in Int /\ (syncs - 1) * (Hz - 1) \in Int
        /\ Hz * used \in Int /\ Hz * Budget \in Int
    BY DEF ClockInv, TypeOK, Undisturbed, ClockTicks
  <2> QED
    BY <2>1, <2>2, <2>3
<1> QED
  BY <1>1, ClockInvariant, PTL

(* ntp.h:23 - nor does a sequence of replies yank it ahead without bound.      *)
THEOREM WalkAhead == Spec => []WalkAheadBounded
<1>1. ClockInv => WalkAheadBounded
  BY DEF ClockInv
<1> QED
  BY <1>1, ClockInvariant, PTL
-----------------------------------------------------------------------------
(* What a single correction does to the TOTP window.                         *)

(* A number that falls by no more than a divisor falls by no more than one      *)
(* quotient.                                                                 *)
LEMMA OneQuotient ==
    ASSUME NEW d \in Nat \ {0}, NEW m \in Nat, NEW n \in Nat, m <= n + d
    PROVE  n \div d >= m \div d - 1
<1> DEFINE qm == m \div d
           qn == n \div d
<1>1. /\ qm \in Nat /\ d * qm <= m
      /\ qn \in Nat /\ n <= d * qn + (d - 1)
  BY DivBounds
<1> HIDE DEF qm, qn
<1>2. SUFFICES ASSUME qn + 2 <= qm PROVE FALSE
  <2>1. qn < qm - 1 => qn + 2 <= qm
    BY <1>1
  <2>2. qn >= qm - 1
    BY <1>1, <1>2, <2>1
  <2> QED
    BY <2>2 DEF qm, qn
<1>3. PICK k \in Nat : qm = qn + 2 + k
  <2>1. qm - qn - 2 \in Nat /\ qm = qn + 2 + (qm - qn - 2)
    BY <1>1, <1>2
  <2> QED
    BY <2>1
<1> DEFINE dq == d * qn
           dk == d * k
<1>4. d * qm = dq + 2 * d + dk
  BY <1>1, <1>3, SMT
<1>5. dq \in Nat /\ dk \in Nat
  BY <1>1, SMT
<1>6. dq + 2 * d + dk <= m /\ n <= dq + (d - 1)
  BY <1>1, <1>4
<1> HIDE DEF dq, dk
<1> QED
  BY <1>5, <1>6

(* Between two replies the RTC only goes on.                                  *)
LEMMA ClockGoesOn ==
    ASSUME ClockInv, Tick
    PROVE  Clock \in Nat /\ Clock' \in Nat /\ Clock <= Clock'
<1> DEFINE n == now - lastMono
<1>1. n \in Nat /\ lastUnix \in Nat
  BY DEF ClockInv, TypeOK
<1>2. lastUnix' = lastUnix /\ (now - lastMono)' = n + 1
  BY DEF Tick, ClockInv, TypeOK
<1>3. Clock = lastUnix + n \div Hz /\ Clock' = lastUnix + (n + 1) \div Hz
  BY <1>2 DEF Clock
<1> HIDE DEF n
<1> DEFINE q == n \div Hz
           p == (n + 1) \div Hz
<1>4. /\ q \in Nat /\ Hz * q <= n
      /\ p \in Nat /\ n + 1 <= Hz * p + (Hz - 1)
  <2>1. n + 1 \in Nat /\ Hz \in Nat \ {0}
    BY <1>1
  <2>2. q \in Nat /\ Hz * q <= n
    BY <1>1, <2>1, DivBounds, Zenon
  <2>3. p \in Nat /\ n + 1 <= Hz * p + (Hz - 1)
    BY <2>1, DivBounds, Zenon
  <2> QED
    BY <2>2, <2>3
<1>5. Clock = lastUnix + q /\ Clock' = lastUnix + p
  BY <1>3
<1> HIDE DEF q, p
<1>6. q <= p
  <2>1. SUFFICES ASSUME p + 1 <= q PROVE FALSE
    BY <1>4
  <2>2. PICK k \in Nat : q = p + 1 + k
    <3>1. q - p - 1 \in Nat /\ q = p + 1 + (q - p - 1)
      BY <1>4, <2>1
    <3> QED
      BY <3>1
  <2> DEFINE hp == Hz * p
             hk == Hz * k
  <2>3. Hz * q = hp + Hz + hk
    BY <1>4, <2>2, SMT
  <2>4. hp \in Nat /\ hk \in Nat
    BY <1>4, SMT
  <2>5. hp + Hz + hk <= n /\ n + 1 <= hp + (Hz - 1)
    BY <1>4, <2>3
  <2> HIDE DEF hp, hk
  <2> QED
    BY <1>1, <2>4, <2>5
<1> QED
  BY <1>1, <1>4, <1>5, <1>6

(* An accepted reply takes the clock back by no more than the epsilon.         *)
LEMMA ReplyAboveFloor ==
    ASSUME ClockInv, synced, NEW t \in Timestamps, Accept(t)
    PROVE  Clock \in Nat /\ Clock' = t /\ Clock <= t + Epsilon
<1>1. Projected = Clock /\ Projected \in Nat
  BY ProjectionIsClock DEF ClockInv
<1>2. Projected <= t + Epsilon
  BY <1>1 DEF Accept, RollbackCheck, Floor
<1>3. (now - lastMono)' = 0 /\ lastUnix' = t
  BY DEF Accept, ApplyTime, ClockInv, TypeOK
<1>4. Clock' = t
  <2>1. 0 \div Hz = 0
    BY SMT
  <2> QED
    BY <1>3, <2>1 DEF Clock
<1> QED
  BY <1>1, <1>2, <1>4

(* ntp.h:11 - a correction falls back by one TOTP window at most, for any       *)
(* epsilon that is not longer than a window; ntp.h keeps it "well under" one.   *)
THEOREM OneWindowBack ==
    ASSUME Epsilon <= TotpStep
    PROVE  Spec => RollbackUnderOneStep
<1>1. ASSUME ClockInv, [Next]_vars
      PROVE  [synced /\ synced' =>
                 Clock' \div TotpStep >= Clock \div TotpStep - 1]_vars
  <2> SUFFICES ASSUME Next, synced, synced'
               PROVE  Clock' \div TotpStep >= Clock \div TotpStep - 1
    BY <1>1
  <2>1. Clock \in Nat /\ Clock' \in Nat /\ Clock <= Clock' + TotpStep
    <3>1. CASE Reply
      <4>1. PICK t \in Timestamps : Accept(t)
        BY <3>1 DEF Reply
      <4>2. Clock \in Nat /\ Clock' = t /\ Clock <= t + Epsilon
        BY <1>1, <4>1, ReplyAboveFloor
      <4> QED
        BY <4>2
    <3>2. CASE Tick
      BY <1>1, <3>2, ClockGoesOn
    <3>3. ~Reset
      BY DEF Reset
    <3> QED
      BY <3>1, <3>2, <3>3 DEF Next
  <2> QED
    BY <2>1, OneQuotient
<1> QED
  BY <1>1, ClockInvariant, PTL DEF Spec, RollbackUnderOneStep
=============================================================================
