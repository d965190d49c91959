-------------------------- MODULE LockTimingProofs --------------------------
(***************************************************************************)
(* Proofs about LockTiming for all durations that satisfy its assumptions.    *)
(***************************************************************************)
EXTENDS LockTiming, TLAPS

(* The constants as numbers.                                                 *)
LEMMA Times ==
    /\ Short \in Nat /\ Medium \in Nat /\ Hold \in Nat /\ Verify \in Nat
    /\ Watchdog \in Nat /\ RebootDelay \in Nat /\ Pause \in Nat
    /\ Short > 0 /\ Medium > 0 /\ Hold > 0 /\ Watchdog > 0 /\ Pause > 0
    /\ Prompt \in Nat /\ Paste \in Nat /\ Connect \in Nat /\ Sync \in Nat
    /\ Lights \in Nat /\ Save \in Nat /\ Import \in Nat /\ MaxAway \in Nat
    /\ Judge \in Nat /\ Output \in Nat
BY TimesAssumption

(* The number of pauses of each melody, as the buzzer plays it. *)
LEMMA NapCounts ==
    /\ Naps["beep"] = 2 /\ Naps["fail"] = 4 /\ Naps["bell"] = 12 /\ Naps["grant"] = 9
    /\ \A m \in Melodies : Naps[m] \in 1..12
BY DEF Naps, Melodies

(* Every sleep of a melody takes time, and the times left add up.            *)
LEMMA PlanFalls ==
    ASSUME NEW m \in Melodies
    PROVE  /\ \A i \in 0..Naps[m] : Plan[m][i] \in Nat
           /\ \A i \in 0..(Naps[m] - 1) : Plan[m][i + 1] < Plan[m][i]
           /\ Plan["grant"][8] - Plan["grant"][9] = Hold
<1>. USE Times, NapCounts
<1>1. CASE m = "beep"
  <2>1. \A i \in 0..2 : Plan["beep"][i] = (2 - i) * Short
    BY DEF Plan
  <2>2. /\ Plan["beep"][0] = 2 * Short /\ Plan["beep"][1] = Short
        /\ Plan["beep"][2] = 0
    BY <2>1
  <2>3. 0..2 = {0, 1, 2} /\ 0..1 = {0, 1}
    OBVIOUS
  <2>4. Plan["grant"][8] = Hold /\ Plan["grant"][9] = 0
    BY DEF Plan
  <2>. QED BY <1>1, <2>2, <2>3, <2>4
<1>2. CASE m = "fail"
  <2>1. \A i \in 0..4 : Plan["fail"][i] = (4 - i) * Medium
    BY DEF Plan
  <2>2. /\ Plan["fail"][0] = 4 * Medium /\ Plan["fail"][1] = 3 * Medium
        /\ Plan["fail"][2] = 2 * Medium /\ Plan["fail"][3] = Medium
        /\ Plan["fail"][4] = 0
    BY <2>1
  <2>3. 0..4 = {0, 1, 2, 3, 4} /\ 0..3 = {0, 1, 2, 3}
    OBVIOUS
  <2>4. Plan["grant"][8] = Hold /\ Plan["grant"][9] = 0
    BY DEF Plan
  <2>. QED BY <1>2, <2>2, <2>3, <2>4
<1>3. CASE m = "bell"
  <2>1. /\ Plan["bell"][0] = 6 * Medium + 6 * Short
        /\ Plan["bell"][1] = 5 * Medium + 6 * Short
        /\ Plan["bell"][2] = 4 * Medium + 6 * Short
        /\ Plan["bell"][3] = 4 * Medium + 5 * Short
        /\ Plan["bell"][4] = 4 * Medium + 4 * Short
        /\ Plan["bell"][5] = 3 * Medium + 4 * Short
        /\ Plan["bell"][6] = 2 * Medium + 4 * Short
        /\ Plan["bell"][7] = 2 * Medium + 3 * Short
        /\ Plan["bell"][8] = 2 * Medium + 2 * Short
        /\ Plan["bell"][9] = Medium + 2 * Short
        /\ Plan["bell"][10] = 2 * Short
        /\ Plan["bell"][11] = Short
        /\ Plan["bell"][12] = 0
    BY DEF Plan
  <2>2. /\ 0..12 = {0, 1, 2, 3, 4, 5, 6, 7, 8, 9, 10, 11, 12}
        /\ 0..11 = {0, 1, 2, 3, 4, 5, 6, 7, 8, 9, 10, 11}
    OBVIOUS
  <2>4. Plan["grant"][8] = Hold /\ Plan["grant"][9] = 0
    BY DEF Plan
  <2>. QED BY <1>3, <2>1, <2>2, <2>4
<1>4. CASE m = "grant"
  <2>1. /\ Plan["grant"][0] = Hold + 8 * Short /\ Plan["grant"][1] = Hold + 7 * Short
        /\ Plan["grant"][2] = Hold + 6 * Short /\ Plan["grant"][3] = Hold + 5 * Short
        /\ Plan["grant"][4] = Hold + 4 * Short /\ Plan["grant"][5] = Hold + 3 * Short
        /\ Plan["grant"][6] = Hold + 2 * Short /\ Plan["grant"][7] = Hold + Short
        /\ Plan["grant"][8] = Hold /\ Plan["grant"][9] = 0
    BY DEF Plan
  <2>2. /\ 0..9 = {0, 1, 2, 3, 4, 5, 6, 7, 8, 9}
        /\ 0..8 = {0, 1, 2, 3, 4, 5, 6, 7, 8}
    OBVIOUS
  <2>. QED BY <1>4, <2>1, <2>2
<1>. QED BY <1>1, <1>2, <1>3, <1>4 DEF Melodies

(* A whole melody, with the pauses between its notes, is shorter than the watchdog's period. *)
LEMMA Budget ==
    ASSUME NEW m \in Melodies
    PROVE  Plan[m][0] + Naps[m] * Pause + Pause + 1 < Watchdog
BY WatchdogAssumption

(* One sleep fewer is one flash operation less to allow for.                 *)
LEMMA Pauses ==
    \A k \in 0..12 : k * Pause \in Nat /\ (k + 1) * Pause = k * Pause + Pause
<1>1. SUFFICES ASSUME NEW k \in 0..12
               PROVE  k * Pause \in Nat /\ (k + 1) * Pause = k * Pause + Pause
  OBVIOUS
<1>2. k \in {0, 1, 2, 3, 4, 5, 6, 7, 8, 9, 10, 11, 12}
  OBVIOUS
<1>. QED BY <1>2, Times

-----------------------------------------------------------------------------
(* The tables of core 0, entry by entry.                                     *)
LEMMA AllDuties ==
    Duties = {"boot", "look", "console", "wifi", "ntp", "rest", "spin", "answer", "lights", "test",
              "save", "set_connect", "sync_now", "confirm", "backup", "paste", "backup_again", "import",
              "format_prompt", "format", "farewell", "reboot", "connect", "sync", "sync_error"}
BY DEF Duties, Limit

(* Every duty of the main loop has a bound on its length. *)
LEMMA Limits ==
    \A d \in Duties : Limit[d] \in Nat
BY Times, AllDuties DEF Limit

After == Limit.answer + Connect + Sync + Limit.sync_error

(* The bounds of the duties fit, sum by sum, into the time away from the mailbox. *)
LEMMA AfterFacts ==
    /\ After \in Nat
    /\ Limit.answer = Output + 2 * Short + 2 * Medium
    /\ Limit.backup = Output + 2 * Short /\ Limit.backup_again = Output + 2 * Short
    /\ Limit.sync_error = 4 * Short + 4 * Medium
    /\ After = Output + 6 * Short + 6 * Medium + Connect + Sync
    /\ Judge + Save + Connect + Sync + After <= MaxAway
    /\ Judge + Prompt + Limit.backup + After <= MaxAway
    /\ Judge + Limit.backup_again + Import + After <= MaxAway
    /\ Judge + Lights + Hold + After <= MaxAway
    /\ Judge + Import + 4 * Short + After <= MaxAway
    /\ Judge < MaxAway /\ Verify <= MaxAway
<1>1. /\ Limit.answer = Output + 2 * Short + 2 * Medium
      /\ Limit.backup = Output + 2 * Short /\ Limit.backup_again = Output + 2 * Short
      /\ Limit.sync_error = 4 * Short + 4 * Medium
  BY DEF Limit
<1>2. After \in Nat /\ After = Output + 6 * Short + 6 * Medium + Connect + Sync
  BY <1>1, Times DEF After
<1>3. /\ Judge + Save + Connect + Sync + After <= MaxAway
      /\ Judge + Prompt + Limit.backup + After <= MaxAway
      /\ Judge + Limit.backup_again + Import + After <= MaxAway
      /\ Judge + Lights + Hold + After <= MaxAway
      /\ Judge + Import + 4 * Short + After <= MaxAway
      /\ Verify <= MaxAway
  BY AwayAssumption DEF After
<1>4. Judge < MaxAway
  BY <1>2, <1>3, Times
<1>. QED BY <1>1, <1>2, <1>3, <1>4

(* What can still follow each duty before the loop looks at the mailbox again. *)
LEMMA Tails ==
    /\ \A d \in {"boot", "look", "rest", "sync_error", "spin", "reboot",
                 "farewell", "console", "backup", "paste", "format_prompt"} : Tail[d] = 0
    /\ Tail["ntp"] = Sync + Limit.sync_error
    /\ Tail["connect"] = Sync + Limit.sync_error
    /\ Tail["sync"] = Limit.sync_error
    /\ Tail["wifi"] = Connect + Sync + Limit.sync_error
    /\ Tail["answer"] = Connect + Sync + Limit.sync_error
    /\ Tail["test"] = After /\ Tail["sync_now"] = After /\ Tail["import"] = After
    /\ Tail["lights"] = Hold + After
    /\ Tail["set_connect"] = Sync + After
    /\ Tail["save"] = Connect + Sync + After
    /\ Tail["confirm"] = Limit.backup + After
    /\ Tail["backup_again"] = Import + After
    /\ Tail["format"] = 4 * Short + After
BY AllDuties DEF Tail, After

(* What can still follow a duty is a length of time. *)
LEMMA TailNat == \A d \in Duties : Tail[d] \in Nat
BY Times, AfterFacts, Tails, AllDuties

Timeless == {"boot", "look", "spin"}

(* A duty leaves the duties that may follow it the time that they may take.   *)
LEMMA Edges ==
    ASSUME NEW e \in Duties, NEW d \in Follow[e], e # "look",
           d \notin Timeless \cup Pumping
    PROVE  /\ d \in Duties /\ d # "console" /\ e \notin Timeless
           /\ e \in {"console"} \cup Pumping => Judge + Limit[d] + Tail[d] <= MaxAway
           /\ e \notin {"console"} \cup Pumping => Limit[d] + Tail[d] <= Tail[e]
<1>. USE Times, AfterFacts, Tails DEF Timeless, Pumping
<1>1. CASE e \in {"boot", "spin", "rest", "reboot", "sync_error"}
  <2>1. CASE e = "boot"  BY <2>1, AllDuties DEF Follow, Limit
  <2>2. CASE e = "spin"  BY <2>2, AllDuties DEF Follow, Limit
  <2>3. CASE e = "rest"  BY <2>3, AllDuties DEF Follow, Limit
  <2>4. CASE e = "reboot"  BY <2>4, AllDuties DEF Follow, Limit
  <2>5. CASE e = "sync_error"  BY <2>5, AllDuties DEF Follow, Limit
  <2>. QED BY <1>1, <2>1, <2>2, <2>3, <2>4, <2>5
<1>2. CASE e \in {"console"}
  BY <1>2, AllDuties DEF Follow, Limit
<1>3. CASE e \in {"paste", "format_prompt"}
  <2>1. CASE e = "paste"  BY <2>1, AllDuties DEF Follow, Limit
  <2>2. CASE e = "format_prompt"  BY <2>2, AllDuties DEF Follow, Limit
  <2>. QED BY <1>3, <2>1, <2>2
<1>4. CASE e \in {"answer", "wifi"}
  <2>1. CASE e = "answer"  BY <2>1, AllDuties DEF Follow, Limit
  <2>2. CASE e = "wifi"  BY <2>2, AllDuties DEF Follow, Limit
  <2>. QED BY <1>4, <2>1, <2>2
<1>5. CASE e \in {"connect", "ntp", "sync"}
  <2>1. CASE e = "connect"  BY <2>1, AllDuties DEF Follow, Limit
  <2>2. CASE e = "ntp"  BY <2>2, AllDuties DEF Follow, Limit
  <2>3. CASE e = "sync"  BY <2>3, AllDuties DEF Follow, Limit
  <2>. QED BY <1>5, <2>1, <2>2, <2>3
<1>6. CASE e \in {"lights", "test", "save"}
  <2>1. CASE e = "lights"  BY <2>1, AllDuties DEF Follow, Limit
  <2>2. CASE e = "test"  BY <2>2, AllDuties DEF Follow, Limit
  <2>3. CASE e = "save"  BY <2>3, AllDuties DEF Follow, Limit
  <2>. QED BY <1>6, <2>1, <2>2, <2>3
<1>7. CASE e \in {"set_connect", "sync_now"}
  <2>1. CASE e = "set_connect"  BY <2>1, AllDuties DEF Follow, Limit
  <2>2. CASE e = "sync_now"  BY <2>2, AllDuties DEF Follow, Limit
  <2>. QED BY <1>7, <2>1, <2>2
<1>8. CASE e \in {"confirm", "backup"}
  <2>1. CASE e = "confirm"  BY <2>1, AllDuties DEF Follow, Limit
  <2>2. CASE e = "backup"  BY <2>2, AllDuties DEF Follow, Limit
  <2>. QED BY <1>8, <2>1, <2>2
<1>9. CASE e \in {"backup_again", "import"}
  <2>1. CASE e = "backup_again"  BY <2>1, AllDuties DEF Follow, Limit
  <2>2. CASE e = "import"  BY <2>2, AllDuties DEF Follow, Limit
  <2>. QED BY <1>9, <2>1, <2>2
<1>10. CASE e \in {"format", "farewell"}
  <2>1. CASE e = "format"  BY <2>1, AllDuties DEF Follow, Limit
  <2>2. CASE e = "farewell"  BY <2>2, AllDuties DEF Follow, Limit
  <2>. QED BY <1>10, <2>1, <2>2
<1>. QED BY <1>1, <1>2, <1>3, <1>4, <1>5, <1>6, <1>7, <1>8, <1>9, <1>10, AllDuties

-----------------------------------------------------------------------------
(* At boot both cores are within their time budgets and the latch is released. *)
THEOREM InitTiming == Init => TimingInv
<1>. SUFFICES ASSUME Init PROVE TimingInv
  OBVIOUS
<1>. USE Times, NapCounts, AllDuties DEF Init, BootState
<1>1. TypeOK
  <2>1. job \in {"keypad", "rd_granted"} \cup Waits \cup Melodies /\ job \notin Melodies
    BY DEF Melodies
  <2>2. /\ duty \in Duties /\ left0 \in Nat /\ left \in Nat /\ deadline \in 0..Verify
        /\ pause \in 0..Pause /\ wd \in Nat
        /\ sinceLook \in 0..(MaxAway + 1) /\ sinceAnswer \in Nat
        /\ high \in Nat /\ nap \in 0..12
        /\ judging \in {"no", "mine", "stale"} /\ answer \in {"none", "granted", "denied"}
    OBVIOUS
  <2>3. /\ turned \in BOOLEAN /\ looked \in BOOLEAN /\ held \in BOOLEAN
        /\ mounted \in BOOLEAN /\ latch \in BOOLEAN /\ asked \in BOOLEAN
    OBVIOUS
  <2>. QED BY <2>1, <2>2, <2>3 DEF TypeOK
<1>2. FeedInv
  BY DEF FeedInv, Melodies, Delay, Slack
<1>3. PulseInv /\ AwayInv /\ MailInv
  BY DEF PulseInv, AwayInv, MailInv, Pumping, Waits
<1>. QED BY <1>1, <1>2, <1>3 DEF TimingInv

(* A step of core 1 that is due waits for one flash operation at most.         *)
LEMMA DelayBound == TypeOK => Delay \in Nat /\ Delay <= Pause
BY Times DEF TypeOK, Delay

(* What a melody needs when it starts is there: the watchdog has been fed at   *)
(* most one tick and one flash operation ago.                                 *)
LEMMA PlayFeeds ==
    ASSUME TimingInv, NEW m \in Melodies, Play(m),
           job \in {"keypad", "deadline", "rd_granted"}, job = "keypad" => ~turned,
           UNCHANGED <<turned, pause, held, duty, wd, reload>>
    PROVE  /\ job' = m /\ nap' \in 1..Naps[m] /\ nap' \in 0..12 /\ left' \in Nat
           /\ FeedInv'
           /\ nap' = 1
<1>. USE Times, NapCounts DEF TimingInv
<1>1. /\ job' = m /\ nap' = 1 /\ left' = Plan[m][0] - Plan[m][1]
      /\ Plan[m][0] \in Nat /\ Plan[m][1] \in Nat /\ Plan[m][1] < Plan[m][0]
      /\ Naps[m] \in 1..12
  <2>1. Naps[m] \in 1..12
    BY NapCounts
  <2>2. /\ \A i \in 0..Naps[m] : Plan[m][i] \in Nat
        /\ \A i \in 0..(Naps[m] - 1) : Plan[m][i + 1] < Plan[m][i]
    BY PlanFalls
  <2>3. Plan[m][0] \in Nat /\ Plan[m][1] \in Nat /\ Plan[m][0 + 1] < Plan[m][0]
    BY <2>1, <2>2
  <2>. QED BY <2>1, <2>3 DEF Play
<1>2. left' \in Nat /\ left' # 0
  BY <1>1
<1>3. ASSUME duty # "spin"
      PROVE  ~turned /\ reload = Watchdog /\ wd + Pause + 1 >= Watchdog
  <2>1. job \notin Melodies /\ Slack = 0
    BY DEF Melodies, Slack
  <2>2. ~turned /\ reload = Watchdog /\ wd + Slack + Pause + 1 >= Watchdog + Delay
    BY <1>3, <2>1 DEF FeedInv
  <2>3. wd \in Nat /\ Delay \in Nat /\ Delay <= Pause
    BY DelayBound DEF TypeOK
  <2>. QED BY <2>1, <2>2, <2>3
<1>4. ASSUME duty # "spin"
      PROVE  left' + Plan[m][1] + (Naps[m] - 1) * Pause + Pause < wd'
  <2>1. Plan[m][0] + Naps[m] * Pause + Pause + 1 < Watchdog
    BY Budget
  <2>2. Naps[m] - 1 \in 0..12 /\ (Naps[m] - 1) + 1 = Naps[m]
    BY <1>1
  <2>3. /\ (Naps[m] - 1) * Pause \in Nat
        /\ Naps[m] * Pause = (Naps[m] - 1) * Pause + Pause
    BY <2>2, Pauses
  <2>4. wd \in Nat
    BY DEF TypeOK
  <2>5. wd + Pause + 1 >= Watchdog /\ wd' = wd
    BY <1>3, <1>4
  <2>6. left' + Plan[m][1] = Plan[m][0]
    BY <1>1
  <2>. DEFINE p0 == Plan[m][0]
              n0 == Naps[m] * Pause
              n1 == (Naps[m] - 1) * Pause
  <2>7. p0 \in Nat /\ n0 \in Nat /\ n1 \in Nat /\ n0 = n1 + Pause
    BY <1>1, <2>3
  <2>8. p0 + n0 + Pause + 1 < Watchdog
    BY <2>1
  <2>. HIDE DEF p0, n0, n1
  <2>9. ASSUME NEW w \in Nat, w + Pause + 1 >= Watchdog
        PROVE  p0 + n1 + Pause < w
    BY <2>7, <2>8, <2>9
  <2>10. p0 + n1 + Pause < wd'
    BY <2>4, <2>5, <2>9
  <2>. QED BY <2>6, <2>10 DEF p0, n1
<1>5. FeedInv'
  BY <1>1, <1>2, <1>3, <1>4 DEF FeedInv, Unfed, Rest
<1>. QED BY <1>1, <1>2, <1>5

-----------------------------------------------------------------------------
(* What is left of a melody after its current sleep.                         *)
LEMMA RestNat ==
    ASSUME TypeOK, job \in Melodies
    PROVE  Rest \in Nat
<1>1. nap \in 1..12 /\ Naps[job] \in 1..12 /\ nap <= Naps[job]
  BY NapCounts DEF TypeOK
<1>2. nap \in 0..Naps[job]
  BY <1>1
<1>3. Plan[job][nap] \in Nat
  BY <1>2, PlanFalls
<1>4. \A n \in 1..12, t \in 1..12 : n <= t => t - n \in 0..12
  OBVIOUS
<1>5. (Naps[job] - nap) * Pause \in Nat
  BY <1>1, <1>4, Pauses
<1>. QED BY <1>3, <1>5 DEF Rest

(* What each part of the invariant depends on.                               *)
LEMMA FeedFrame ==
    FeedInv /\ UNCHANGED <<duty, reload, job, turned, wd, left, nap, pause, held>>
      => FeedInv'
BY DEF FeedInv, Unfed, Rest, Delay, Slack

(* A step that leaves the latch and core 1's melody alone keeps their invariant. *)
LEMMA PulseFrame ==
    PulseInv /\ UNCHANGED <<latch, job, nap, left, high, pause, held, duty, left0>>
      => PulseInv'
BY DEF PulseInv, Delay

(* A step that leaves core 0's duty and its clock alone keeps their invariant. *)
LEMMA AwayFrame ==
    AwayInv /\ UNCHANGED <<duty, sinceLook, left0, looked, judging>> => AwayInv'
BY DEF AwayInv

(* A step that leaves the mailbox and its deadline alone keeps their invariant. *)
LEMMA MailFrame ==
    MailInv /\ UNCHANGED <<mailbox, job, sinceLook, deadline, turned, held, pause>>
      => MailInv'
BY DEF MailInv, mailbox, Delay

(* The steps of core 1.                                                      *)
LEMMA Core1Keeps == TimingInv /\ Core1Step => TimingInv'
<1>. SUFFICES ASSUME TimingInv, Core1Step PROVE TimingInv'
  OBVIOUS
<1>. USE Times, NapCounts DEF core0, core1, dog, mailbox, TimingInv, Core1Runs
<1>1. CASE KeypadTurn
  <2>1. TypeOK'
    BY <1>1 DEF KeypadTurn, TypeOK
  <2>2. FeedInv'
    BY <1>1 DEF KeypadTurn, FeedInv, TypeOK, Melodies, Slack
  <2>3. PulseInv' /\ AwayInv'
    BY <1>1, PulseFrame, AwayFrame DEF KeypadTurn
  <2>4. MailInv'
    BY <1>1 DEF KeypadTurn, MailInv, Waits
  <2>. QED BY <2>1, <2>2, <2>3, <2>4
<1>2. CASE KeyHeard
  <2>1. PICK m \in Melodies : Play(m)
    BY <1>2 DEF KeyHeard, Melodies
  <2>2. /\ job = "keypad" /\ job \notin Melodies
        /\ job' = m /\ nap' \in 1..Naps[m] /\ nap' \in 0..12 /\ left' \in Nat
        /\ FeedInv'
    BY <1>2, <2>1, PlayFeeds DEF KeyHeard, Melodies
  <2>3. TypeOK'
    BY <1>2, <2>2 DEF KeyHeard, TypeOK
  <2>4. PulseInv'
    BY <1>2, <2>2 DEF KeyHeard, PulseInv
  <2>5. AwayInv'
    BY <1>2, AwayFrame DEF KeyHeard
  <2>6. MailInv'
    <3>1. job' \notin {"rd_granted"} \cup Waits
      BY <2>2 DEF Melodies, Waits
    <3>2. answer' = "none" /\ judging' # "mine"
      BY <1>2, <2>2 DEF KeyHeard, MailInv, Waits
    <3>. QED BY <3>1, <3>2 DEF MailInv, Waits
  <2>. QED BY <2>2, <2>3, <2>4, <2>5, <2>6
<1>3. CASE Submit
  <2>1. TypeOK'
    BY <1>3 DEF Submit, TypeOK, Melodies, Waits
  <2>2. FeedInv'
    BY <1>3, DelayBound DEF Submit, FeedInv, TypeOK, Melodies, Slack, Delay
  <2>3. PulseInv'
    BY <1>3 DEF Submit, PulseInv
  <2>4. AwayInv'
    BY <1>3, AwayFrame DEF Submit
  <2>5. MailInv'
    BY <1>3 DEF Submit, MailInv, TypeOK, Waits
  <2>. QED BY <2>1, <2>2, <2>3, <2>4, <2>5
<1>4. CASE PollResponse
  <2>1. job' \in {"deadline", "rd_granted"} /\ job = "verify" /\ ~turned
    BY <1>4 DEF PollResponse
  <2>2. TypeOK'
    BY <1>4, <2>1 DEF PollResponse, TypeOK, Melodies, Waits
  <2>3. FeedInv'
    <3>1. Delay' \in Nat /\ Delay' <= Pause /\ Slack' = 0
      BY <1>4, <2>1, DelayBound DEF PollResponse, Delay, Slack
    <3>2. job' \notin Melodies /\ ~turned' /\ UNCHANGED <<duty, reload>> /\ wd' = reload
      BY <1>4, <2>1 DEF PollResponse, Melodies
    <3>3. duty # "spin" => reload = Watchdog
      BY DEF FeedInv
    <3>4. \A d \in Nat : d <= Pause => Watchdog + 0 + Pause + 1 >= Watchdog + d
      OBVIOUS
    <3>5. Watchdog + 0 + Pause + 1 >= Watchdog + Delay'
      BY <3>1, <3>4
    <3>. QED BY <3>1, <3>2, <3>3, <3>5 DEF FeedInv
  <2>4. PulseInv'
    BY <1>4, <2>1 DEF PollResponse, PulseInv
  <2>5. AwayInv'
    BY <1>4, AwayFrame DEF PollResponse
  <2>6. MailInv'
    BY <1>4, <2>1 DEF PollResponse, MailInv, Waits
  <2>. QED BY <2>2, <2>3, <2>4, <2>5, <2>6
<1>5. CASE PollAgain
  <2>1. TypeOK'
    BY <1>5 DEF PollAgain, TypeOK, Melodies, Waits
  <2>2. FeedInv'
    <3>. SUFFICES ASSUME duty # "spin" PROVE FeedInv'
      BY <1>5 DEF PollAgain, FeedInv
    <3>1. reload = Watchdog /\ wd + Slack + Pause + 1 >= Watchdog + Delay
      BY <1>5 DEF PollAgain, FeedInv, Melodies, MailInv
    <3>2. Slack = 0 /\ Slack' = Pause + 1
      BY <1>5 DEF PollAgain, Slack
    <3>3. wd \in Nat /\ Delay \in Nat /\ Delay <= Pause
      BY DelayBound DEF TypeOK
    <3>4. wd + Slack' >= Watchdog
      BY <3>1, <3>2, <3>3
    <3>. QED BY <1>5, <3>1, <3>4 DEF PollAgain, FeedInv, Melodies
  <2>3. PulseInv'
    BY <1>5 DEF PollAgain, PulseInv
  <2>4. AwayInv'
    BY <1>5, AwayFrame DEF PollAgain
  <2>5. MailInv'
    BY <1>5 DEF PollAgain, MailInv, Waits
  <2>. QED BY <2>1, <2>2, <2>3, <2>4, <2>5
<1>6. ASSUME NEW m \in Melodies, job \in {"deadline", "rd_granted"}, Play(m), Forget,
             UNCHANGED <<turned, core0, asked, latch, dog, sinceLook, high>>
      PROVE  TimingInv'
  <2>1. /\ job \notin Melodies
        /\ job' = m /\ nap' \in 1..Naps[m] /\ nap' \in 0..12 /\ left' \in Nat
        /\ FeedInv'
    BY <1>6, PlayFeeds DEF Melodies
  <2>2. TypeOK'
    <3>1. /\ judging' \in {"no", "mine", "stale"} /\ answer' = "none" /\ sinceAnswer' = 0
          /\ deadline' = 0
      BY <1>6 DEF Forget, TypeOK
    <3>. QED BY <1>6, <2>1, <3>1 DEF TypeOK
  <2>3. PulseInv'
    BY <1>6 DEF PulseInv
  <2>4. AwayInv'
    <3>1. judging' # "no" <=> judging # "no"
      BY <1>6 DEF Forget
    <3>. QED BY <1>6, <3>1 DEF AwayInv
  <2>5. MailInv'
    <3>1. job' \notin {"rd_granted"} \cup Waits
      BY <2>1 DEF Melodies, Waits
    <3>2. answer' = "none" /\ judging' # "mine"
      BY <1>6 DEF Forget
    <3>. QED BY <3>1, <3>2 DEF MailInv, Waits
  <2>. QED BY <2>1, <2>2, <2>3, <2>4, <2>5
<1>7. CASE GiveUp \/ ReadVerdict
  <2>1. PICK m \in Melodies : Play(m)
    BY <1>7 DEF GiveUp, ReadVerdict, Melodies
  <2>2. /\ job \in {"deadline", "rd_granted"} /\ Forget
        /\ UNCHANGED <<turned, core0, asked, latch, dog, sinceLook, high>>
    BY <1>7 DEF GiveUp, ReadVerdict
  <2>. QED BY <1>6, <2>1, <2>2
<1>8. CASE NapOver
  <2>1. /\ job \in Melodies /\ left = 0 /\ nap \in 1..12 /\ Naps[job] \in 1..12
        /\ nap < Naps[job] /\ nap' = nap + 1 /\ pause = 0
        /\ left' = Plan[job][nap] - Plan[job][nap + 1]
    BY <1>8 DEF NapOver, TypeOK
  <2>2. /\ Plan[job][nap] \in Nat /\ Plan[job][nap + 1] \in Nat
        /\ Plan[job][nap + 1] < Plan[job][nap]
        /\ Plan["grant"][8] - Plan["grant"][9] = Hold
    <3>1. nap \in 0..Naps[job] /\ nap + 1 \in 0..Naps[job] /\ nap \in 0..(Naps[job] - 1)
      BY <2>1
    <3>. QED BY <2>1, <3>1, PlanFalls
  <2>3. left' \in Nat /\ left' # 0
    BY <2>1, <2>2
  <2>4. TypeOK'
    <3>1. nap' \in 1..Naps[job] /\ nap' \in 0..12
      <4>1. \A n \in 1..12, t \in 1..12 : n < t => n + 1 \in 1..t /\ n + 1 \in 0..12
        OBVIOUS
      <4>. QED BY <2>1, <4>1
    <3>2. latch' \in BOOLEAN /\ high' \in Nat
      BY <1>8 DEF NapOver, TypeOK
    <3>. QED BY <1>8, <2>3, <3>1, <3>2 DEF NapOver, TypeOK
  <2>5. FeedInv'
    <3>1. /\ Naps[job] - (nap + 1) \in 0..12
          /\ (Naps[job] - (nap + 1)) + 1 = Naps[job] - nap
      <4>1. \A n \in 1..12, t \in 1..12 :
               n < t => t - (n + 1) \in 0..12 /\ (t - (n + 1)) + 1 = t - n
        OBVIOUS
      <4>. QED BY <2>1, <4>1
    <3>2. /\ (Naps[job] - (nap + 1)) * Pause \in Nat
          /\ (Naps[job] - nap) * Pause = (Naps[job] - (nap + 1)) * Pause + Pause
      BY <3>1, Pauses
    <3>3. left' + Plan[job][nap + 1] = Plan[job][nap]
      BY <2>1, <2>2
    <3>4. /\ Unfed = Plan[job][nap] + (Naps[job] - nap) * Pause + Delay
          /\ Delay \in Nat /\ Delay <= Pause
      BY <2>1, <2>2, <3>2, DelayBound DEF Unfed, Rest
    <3>5. Unfed' = left' + (Plan[job][nap + 1] + (Naps[job] - (nap + 1)) * Pause) + Pause
      BY <1>8, <2>1, <2>3 DEF Unfed, Rest, NapOver
    <3>6. \A l, p, q, a, b, f \in Int :
             l + q = p /\ b = a + f => l + (q + a) + f = p + b
      OBVIOUS
    <3>7. (Naps[job] - nap) * Pause \in Int
      BY <3>2
    <3>8. Unfed' <= Unfed /\ Unfed \in Int /\ Unfed' \in Int
      BY <2>2, <2>3, <3>2, <3>3, <3>4, <3>5, <3>6, <3>7
    <3>9. UNCHANGED <<duty, reload, job, turned, wd>> /\ wd \in Nat
      BY <1>8 DEF NapOver, TypeOK
    <3>. QED BY <2>1, <3>8, <3>9 DEF FeedInv
  <2>6. PulseInv'
    <3>1. CASE job = "grant" /\ nap + 1 = Naps.grant
      <4>1. nap = 8 /\ nap' = 9 /\ job' = "grant" /\ pause' = 0
        BY <1>8, <2>1, <3>1 DEF NapOver
      <4>2. left' = Hold
        BY <2>1, <2>2, <3>1, <4>1
      <4>3. CASE latch
        <5>1. duty = "test" /\ high + left0 <= Hold
          BY <4>1, <4>3 DEF PulseInv
        <5>. QED BY <1>8, <3>1, <4>3, <5>1 DEF NapOver, PulseInv
      <4>4. CASE ~latch
        <5>1. high' = 0 /\ nap' = Naps["grant"]
          BY <1>8, <3>1, <4>1, <4>4 DEF NapOver
        <5>. QED BY <4>1, <4>2, <5>1 DEF PulseInv
      <4>. QED BY <4>3, <4>4
    <3>2. CASE ~(job = "grant" /\ nap + 1 = Naps.grant)
      <4>1. UNCHANGED <<latch, high, duty, left0>>
        BY <1>8, <3>2 DEF NapOver
      <4>2. ~(job = "grant" /\ nap = Naps.grant)
        BY <2>1
      <4>. QED BY <4>1, <4>2 DEF PulseInv
    <3>. QED BY <3>1, <3>2
  <2>7. AwayInv' /\ MailInv'
    BY <1>8, AwayFrame, MailFrame DEF NapOver
  <2>. QED BY <2>4, <2>5, <2>6, <2>7
<1>9. CASE MelodyOver
  <2>1. TypeOK'
    BY <1>9 DEF MelodyOver, TypeOK, Melodies
  <2>2. FeedInv'
    BY <1>9 DEF MelodyOver, FeedInv, TypeOK, Melodies, Slack
  <2>3. PulseInv'
    BY <1>9 DEF MelodyOver, PulseInv
  <2>4. AwayInv'
    BY <1>9, AwayFrame DEF MelodyOver
  <2>5. MailInv'
    BY <1>9 DEF MelodyOver, MailInv, Melodies, Waits
  <2>. QED BY <2>1, <2>2, <2>3, <2>4, <2>5
<1>. QED BY <1>1, <1>2, <1>3, <1>4, <1>5, <1>7, <1>8, <1>9 DEF Core1Step

(* The steps of core 0.                                                      *)
LEMMA Core0Keeps == TimingInv /\ Core0Step => TimingInv'
<1>. SUFFICES ASSUME TimingInv, Core0Step PROVE TimingInv'
  OBVIOUS
<1>. USE Times, NapCounts, AfterFacts DEF core0, core1, dog, mailbox, TimingInv
<1>1. CASE Look
  <2>1. TypeOK'
    <3>1. duty' \in Duties /\ judging' \in {"no", "mine", "stale"}
      BY <1>1, AllDuties DEF Look, Handled, TypeOK
    <3>2. looked' \in BOOLEAN /\ asked' \in BOOLEAN
      BY <1>1, Zenon DEF Look, Handled, TypeOK
    <3>3. sinceLook' \in 0..(MaxAway + 1)
      BY <1>1 DEF Look
    <3>. QED BY <1>1, <3>1, <3>2, <3>3 DEF Look, TypeOK
  <2>2. FeedInv'
    BY <1>1 DEF Look, Handled, FeedInv, Unfed, Rest, Delay, Slack, Pumping
  <2>3. PulseInv'
    BY <1>1 DEF Look, PulseInv, Delay, Pumping
  <2>4. AwayInv'
    BY <1>1 DEF Look, Handled, AwayInv, Pumping
  <2>5. MailInv'
    BY <1>1 DEF Look, MailInv, Delay, Waits
  <2>. QED BY <2>1, <2>2, <2>3, <2>4, <2>5
<1>2. CASE Answer
  <2>1. TypeOK'
    <3>1. duty' \in Duties
      BY <1>2, AllDuties DEF Answer, Handled, TypeOK
    <3>2. looked' \in BOOLEAN
      BY <1>2, Zenon DEF Answer, Handled, TypeOK
    <3>3. answer' \in {"none", "granted", "denied"} /\ sinceAnswer' \in Nat
      BY <1>2 DEF Answer, TypeOK
    <3>. QED BY <1>2, <3>1, <3>2, <3>3 DEF Answer, TypeOK
  <2>2. duty = "look" \/ duty \in Pumping
    BY <1>2 DEF Answer, AwayInv
  <2>3. FeedInv'
    BY <1>2, <2>2 DEF Answer, Handled, FeedInv, Unfed, Rest, Delay, Slack, Pumping
  <2>4. PulseInv'
    BY <1>2, <2>2 DEF Answer, PulseInv, Delay, Pumping
  <2>5. AwayInv'
    BY <1>2, <2>2 DEF Answer, Handled, AwayInv, Pumping, TypeOK
  <2>6. MailInv'
    <3>1. Delay' = Delay /\ Delay \in Nat /\ Delay <= Pause
      BY <1>2, DelayBound DEF Answer, Delay
    <3>2. CASE judging = "mine"
      BY <1>2, <3>1, <3>2 DEF Answer, MailInv, Waits
    <3>3. CASE judging # "mine"
      BY <1>2, <3>1, <3>3 DEF Answer, MailInv, Waits
    <3>. QED BY <3>2, <3>3
  <2>. QED BY <2>1, <2>3, <2>4, <2>5, <2>6
<1>3. CASE FlashWrite
  <2>1. TypeOK' /\ pause = 0 /\ pause' \in 1..Pause /\ held' = held
    BY <1>3 DEF FlashWrite, TypeOK
  <2>2. Core1Due => Delay' = Delay
    BY <1>3, <2>1 DEF FlashWrite, Delay
  <2>3. FeedInv'
    <3>1. CASE job \in Melodies
      BY <1>3, <2>2, <3>1 DEF FlashWrite, FeedInv, Unfed, Rest, Core1Due
    <3>2. CASE job \notin Melodies
      BY <1>3, <2>2, <3>2 DEF FlashWrite, FeedInv, Slack, Core1Due
    <3>. QED BY <3>1, <3>2
  <2>4. PulseInv'
    <3>1. job = "grant" /\ left = 0 => Delay' = Delay
      BY <2>2 DEF Core1Due, Melodies
    <3>. QED BY <1>3, <3>1 DEF FlashWrite, PulseInv
  <2>5. AwayInv'
    BY <1>3, AwayFrame DEF FlashWrite
  <2>6. MailInv'
    <3>1. job = "deadline" => Delay' = Delay
      BY <2>2 DEF Core1Due, Melodies, MailInv
    <3>. QED BY <1>3, <3>1 DEF FlashWrite, MailInv
  <2>. QED BY <2>1, <2>3, <2>4, <2>5, <2>6
<1>4. ASSUME NEW d \in Duties, NextDuty(d) PROVE TimingInv'
  <2>1. /\ duty \in Duties /\ d \in Follow[duty] /\ duty # "look" /\ duty # "spin"
        /\ d # "console"
    BY <1>4, AllDuties DEF NextDuty, TypeOK, Follow
  <2>2. TypeOK'
    <3>1. left0' \in Nat
      BY <1>4, Limits DEF NextDuty
    <3>2. wd' \in Nat /\ reload' \in {Watchdog, RebootDelay}
      BY <1>4 DEF NextDuty, TypeOK
    <3>3. latch' \in BOOLEAN /\ high' \in Nat
      <4>1. CASE d = "test"  BY <1>4, <4>1 DEF NextDuty, TypeOK
      <4>2. CASE d # "test"  BY <1>4, <4>2 DEF NextDuty, TypeOK
      <4>. QED BY <4>1, <4>2
    <3>4. mounted' \in BOOLEAN
      BY <1>4 DEF NextDuty
    <3>. QED BY <1>4, <3>1, <3>2, <3>3, <3>4 DEF NextDuty, TypeOK
  <2>3. FeedInv'
    BY <1>4, <2>1 DEF NextDuty, FeedInv, Unfed, Rest, Delay, Slack
  <2>4. PulseInv'
    <3>1. CASE d = "test"
      <4>1. left0' = Hold /\ duty' = "test" /\ duty # "test"
        BY <1>4, <2>1, <3>1 DEF NextDuty, Limit, Follow
      <4>2. CASE latch
        BY <1>4, <3>1, <4>1, <4>2 DEF NextDuty, PulseInv, Delay
      <4>3. CASE ~latch
        BY <1>4, <3>1, <4>1, <4>3 DEF NextDuty, PulseInv
      <4>. QED BY <4>2, <4>3
    <3>2. CASE d # "test"
      BY <1>4, <3>2 DEF NextDuty, PulseInv, Delay
    <3>. QED BY <3>1, <3>2
  <2>5. AwayInv'
    <3>1. /\ duty' = d /\ left0' = Limit[d] /\ looked' = FALSE /\ sinceLook' = sinceLook
          /\ judging = "no" /\ judging' = "no"
      BY <1>4 DEF NextDuty, AwayInv
    <3>2. d \notin Timeless => duty \notin Timeless
      BY <2>1, AllDuties DEF Follow, Timeless
    <3>3. d \notin Timeless => sinceLook <= MaxAway
      BY <3>2 DEF AwayInv, Timeless
    <3>4. ASSUME d \notin Timeless \cup Pumping
          PROVE  sinceLook + Limit[d] + Tail[d] <= MaxAway
      <4>1. /\ duty \in {"console"} \cup Pumping => Judge + Limit[d] + Tail[d] <= MaxAway
            /\ duty \notin {"console"} \cup Pumping => Limit[d] + Tail[d] <= Tail[duty]
        BY <2>1, <3>4, Edges
      <4>2. sinceLook \in Nat /\ left0 \in Nat /\ Limit[d] \in Nat
        BY Limits DEF TypeOK
      <4>3. Tail[d] \in Nat /\ Tail[duty] \in Nat
        BY <2>1, TailNat
      <4>4. CASE duty \in {"console"} \cup Pumping
        <5>1. sinceLook <= Judge
          BY <1>4, <4>4 DEF NextDuty, AwayInv
        <5>. QED BY <4>1, <4>2, <4>3, <4>4, <5>1
      <4>5. CASE duty \notin {"console"} \cup Pumping
        <5>1. sinceLook + left0 + Tail[duty] <= MaxAway
          BY <3>2, <3>4, <4>5 DEF AwayInv, Timeless
        <5>. QED BY <4>1, <4>2, <4>3, <4>5, <5>1
      <4>. QED BY <4>4, <4>5
    <3>. QED BY <2>1, <3>1, <3>3, <3>4 DEF AwayInv, Timeless
  <2>6. MailInv'
    BY <1>4, MailFrame DEF NextDuty
  <2>. QED BY <2>2, <2>3, <2>4, <2>5, <2>6
<1>. QED BY <1>1, <1>2, <1>3, <1>4 DEF Core0Step

(* A restart, after a watchdog bite or a reboot, brings back a state of the invariant. *)
LEMMA BootKeeps == TimingInv /\ Boot => TimingInv'
<1>. SUFFICES ASSUME Boot PROVE TimingInv'
  OBVIOUS
<1>. USE Times, NapCounts, AllDuties DEF Boot
<1>1. TypeOK'
  <2>1. /\ job' \in {"keypad", "rd_granted"} \cup Waits \cup Melodies
        /\ job' \notin Melodies
    BY DEF Melodies
  <2>2. /\ duty' \in Duties /\ left0' \in Nat /\ left' \in Nat /\ deadline' \in 0..Verify
        /\ pause' \in 0..Pause /\ wd' \in Nat
        /\ sinceLook' \in 0..(MaxAway + 1) /\ sinceAnswer' \in Nat
        /\ high' \in Nat /\ nap' \in 0..12
    OBVIOUS
  <2>. QED BY <2>1, <2>2 DEF TypeOK
<1>2. FeedInv'
  BY DEF FeedInv, Melodies, Delay, Slack
<1>3. PulseInv' /\ AwayInv' /\ MailInv'
  BY DEF PulseInv, AwayInv, MailInv, Pumping, Waits
<1>. QED BY <1>1, <1>2, <1>3 DEF TimingInv

(* A tick: what counts down and what counts up stay balanced.                *)
LEMMA TickKeeps == TimingInv /\ Tick => TimingInv'
<1>. SUFFICES ASSUME TimingInv, Tick PROVE TimingInv'
  OBVIOUS
<1>. USE Times DEF TimingInv
<1>1. /\ wd \in Nat /\ wd > 0 /\ left \in Nat /\ left0 \in Nat /\ deadline \in 0..Verify
      /\ pause \in 0..Pause /\ sinceLook \in 0..(MaxAway + 1) /\ high \in Nat
      /\ duty \in Duties /\ Delay \in Nat /\ Delay <= Pause /\ sinceAnswer \in Nat
  BY DelayBound DEF Tick, Powered, TypeOK
<1>2. /\ wd' = wd - 1 /\ left' = OneLess(left) /\ deadline' = OneLess(deadline)
      /\ turned' = FALSE /\ left0' = OneLess(left0) /\ looked' = FALSE
      /\ pause' = OneLess(pause)
      /\ duty' = IF duty = "rest" THEN "look" ELSE duty
      /\ sinceLook' = IF sinceLook <= MaxAway THEN sinceLook + 1 ELSE sinceLook
      /\ sinceAnswer' = IF answer # "none" THEN sinceAnswer + 1 ELSE sinceAnswer
      /\ high' = IF latch THEN high + 1 ELSE high
      /\ held' = (pause > 0)
      /\ UNCHANGED <<job, nap, mounted, asked, judging, answer, latch, reload>>
  BY DEF Tick
<1>3. /\ pause > 0 \/ (IF job \in Melodies THEN left # 0 ELSE turned)
      /\ judging # "no" => sinceLook < Judge
      /\ judging = "no" =>
            /\ duty \notin {"look"} \cup Instant
            /\ duty \in Pumping => looked
            /\ duty \notin Untimed => left0 > 0
  BY DEF Tick, Core1Waits, Core0Waits, Core1Due
<1>4. \A n \in Nat : OneLess(n) \in Nat /\ (n > 0 => OneLess(n) = n - 1) /\ OneLess(0) = 0
  BY DEF OneLess
<1>5. /\ Delay' \in Nat /\ Delay' <= Pause
      /\ pause > 0 => Delay' + 1 <= Delay
  <2>1. CASE pause > 0
    <3>1. held' = TRUE
      BY <2>1, Zenon DEF Tick
    <3>2. pause' = pause - 1 /\ Delay' = pause'
      BY <1>1, <1>2, <1>4, <2>1, <3>1 DEF Delay
    <3>3. pause <= Delay
      BY <1>1 DEF Delay
    <3>. QED BY <1>1, <2>1, <3>2, <3>3
  <2>2. CASE ~(pause > 0)
    <3>1. pause' = 0
      BY <1>1, <1>2, <1>4, <2>2
    <3>. QED BY <2>2, <3>1 DEF Delay
  <2>. QED BY <2>1, <2>2
<1>6. TypeOK'
  <2>1. /\ sinceAnswer' \in Nat /\ held' \in BOOLEAN
    BY <1>1, <1>2
  <2>2. /\ wd' \in Nat /\ left' \in Nat /\ left0' \in Nat /\ deadline' \in 0..Verify
        /\ pause' \in 0..Pause /\ sinceLook' \in 0..(MaxAway + 1) /\ high' \in Nat
    BY <1>1, <1>2 DEF OneLess
  <2>3. duty' \in Duties
    BY <1>1, <1>2, AllDuties
  <2>. QED BY <1>2, <2>1, <2>2, <2>3 DEF TypeOK
<1>7. FeedInv'
  <2>. SUFFICES ASSUME duty' # "spin" PROVE FeedInv'
    BY DEF FeedInv
  <2>1. duty # "spin"
    BY <1>2
  <2>2. reload' = Watchdog
    BY <1>2, <2>1 DEF FeedInv
  <2>3. CASE job \in Melodies
    <3>1. wd > Unfed
      BY <2>1, <2>3 DEF FeedInv
    <3>2. Rest \in Nat /\ Rest' = Rest
      BY <1>2, <2>3, RestNat DEF Rest
    <3>3. Unfed = left + Rest + (IF left = 0 THEN Delay ELSE Pause)
      BY DEF Unfed
    <3>4. Unfed' = left' + Rest + (IF left' = 0 THEN Delay' ELSE Pause)
      BY <3>2 DEF Unfed
    <3>5. Unfed' <= Unfed - 1 /\ Unfed' \in Nat /\ Unfed \in Nat
      <4>1. CASE left = 0
        <5>1. Unfed = 0 + Rest + Delay /\ Unfed' = 0 + Rest + Delay'
          BY <1>2, <1>4, <3>3, <3>4, <4>1
        <5>2. Delay' + 1 <= Delay
          BY <1>3, <1>5, <2>3, <4>1
        <5>3. \A r, d, e \in Nat : e + 1 <= d =>
                 /\ 0 + r + e <= (0 + r + d) - 1
                 /\ 0 + r + e \in Nat /\ 0 + r + d \in Nat
          OBVIOUS
        <5>. QED BY <1>1, <1>5, <3>2, <5>1, <5>2, <5>3
      <4>2. CASE left # 0
        BY <1>1, <1>2, <1>4, <1>5, <3>2, <3>3, <3>4, <4>2
      <4>. QED BY <4>1, <4>2
    <3>6. wd' > Unfed'
      BY <1>1, <1>2, <3>1, <3>5
    <3>. QED BY <1>2, <2>2, <2>3, <3>6 DEF FeedInv
  <2>4. CASE job \notin Melodies
    <3>1. Slack \in Nat /\ Slack <= Pause + 1 /\ Slack' = Slack /\ wd' = wd - 1
      BY <1>2 DEF Slack
    <3>2. CASE turned
      <4>1. wd + Slack >= Watchdog
        BY <2>1, <2>4, <3>2 DEF FeedInv
      <4>2. \A w, t, e \in Nat : w + t >= Watchdog /\ e <= Pause
               => (w - 1) + t + Pause + 1 >= Watchdog + e
        OBVIOUS
      <4>3. wd' + Slack' + Pause + 1 >= Watchdog + Delay'
        BY <1>1, <1>5, <3>1, <4>1, <4>2
      <4>. QED BY <1>2, <2>2, <2>4, <4>3 DEF FeedInv
    <3>3. CASE ~turned
      <4>1. wd + Slack + Pause + 1 >= Watchdog + Delay
        BY <2>1, <2>4, <3>3 DEF FeedInv
      <4>2. Delay' + 1 <= Delay
        BY <1>1, <1>3, <1>5, <2>4, <3>3
      <4>3. \A w, t, d, e \in Nat :
               w + t + Pause + 1 >= Watchdog + d /\ e + 1 <= d
                 => (w - 1) + t + Pause + 1 >= Watchdog + e
        OBVIOUS
      <4>4. wd' + Slack' + Pause + 1 >= Watchdog + Delay'
        BY <1>1, <1>5, <3>1, <4>1, <4>2, <4>3
      <4>. QED BY <1>2, <2>2, <2>4, <4>4 DEF FeedInv
    <3>. QED BY <3>2, <3>3
  <2>. QED BY <2>3, <2>4
<1>8. PulseInv'
  <2>. SUFFICES ASSUME latch PROVE PulseInv'
    BY <1>2 DEF PulseInv
  <2>1. CASE job = "grant" /\ nap = Naps.grant
             /\ IF left = 0 THEN high + Delay <= Hold + Pause
                ELSE high + left <= Hold
    <3>1. job \in Melodies
      BY <2>1 DEF Melodies
    <3>2. /\ job' = "grant" /\ nap' = Naps.grant /\ high' = high + 1
          /\ left' = OneLess(left)
      BY <1>2, <2>1
    <3>3. left' = 0 => high' + Delay' <= Hold + Pause
      <4>1. CASE left = 0
        <5>1. Delay' + 1 <= Delay /\ high + Delay <= Hold + Pause
          BY <1>3, <1>5, <2>1, <3>1, <4>1
        <5>2. \A h, d, e \in Nat : h + d <= Hold + Pause /\ e + 1 <= d
                 => (h + 1) + e <= Hold + Pause
          OBVIOUS
        <5>. QED BY <1>1, <1>5, <3>2, <5>1, <5>2
      <4>2. CASE left # 0
        <5>1. high + 1 <= Hold
          BY <1>1, <2>1, <4>2
        <5>2. \A h, e \in Nat : h + 1 <= Hold /\ e <= Pause
                 => (h + 1) + e <= Hold + Pause
          OBVIOUS
        <5>. QED BY <1>1, <1>5, <3>2, <5>1, <5>2
      <4>. QED BY <4>1, <4>2
    <3>4. left' # 0 => high' + left' <= Hold
      BY <1>1, <1>4, <2>1, <3>2
    <3>. QED BY <3>2, <3>3, <3>4 DEF PulseInv
  <2>2. CASE duty = "test" /\ high + left0 <= Hold
    <3>1. left0 > 0 /\ duty' = "test"
      BY <1>2, <1>3, <2>2 DEF Untimed, AwayInv, Pumping
    <3>. QED BY <1>1, <1>2, <1>4, <2>2, <3>1 DEF PulseInv
  <2>. QED BY <2>1, <2>2 DEF PulseInv
<1>9. AwayInv'
  <2>1. CASE judging # "no"
    <3>1. duty = "look" \/ duty \in Pumping
      BY <2>1 DEF AwayInv
    <3>2. sinceLook' = sinceLook + 1 /\ sinceLook' <= Judge /\ sinceLook' <= MaxAway
      BY <1>1, <1>2, <1>3, <2>1, AfterFacts
    <3>. QED BY <1>2, <2>1, <3>1, <3>2 DEF AwayInv, Pumping
  <2>2. CASE judging = "no" /\ duty \in {"boot", "spin", "rest"}
    BY <1>2, <2>2 DEF AwayInv, Pumping
  <2>3. CASE judging = "no" /\ duty \in Pumping
    <3>1. duty' = duty /\ sinceLook <= Judge
      BY <1>2, <1>3, <2>3 DEF AwayInv, Pumping
    <3>2. sinceLook' <= MaxAway
      BY <1>1, <1>2, <3>1, AfterFacts
    <3>. QED BY <1>2, <2>3, <3>1, <3>2 DEF AwayInv, Pumping
  <2>4. CASE judging = "no" /\ duty \notin {"boot", "spin", "rest"} \cup Pumping
    <3>1. duty \notin {"look", "console"} /\ duty' = duty /\ left0 > 0
      BY <1>2, <1>3, <2>4 DEF Instant, Untimed
    <3>2. sinceLook + left0 + Tail[duty] <= MaxAway /\ sinceLook <= MaxAway
      BY <2>4, <3>1 DEF AwayInv
    <3>3. Tail[duty] \in Nat
      BY <1>1, TailNat
    <3>4. sinceLook' = sinceLook + 1 /\ left0' = left0 - 1
      BY <1>1, <1>2, <1>4, <3>1, <3>2
    <3>5. sinceLook' + left0' + Tail[duty] <= MaxAway /\ sinceLook' <= MaxAway
      BY <1>1, <3>1, <3>2, <3>3, <3>4
    <3>. QED BY <1>2, <2>4, <3>1, <3>5 DEF AwayInv
  <2>. QED BY <2>1, <2>2, <2>3, <2>4
<1>10. MailInv'
  <2>1. sinceLook + deadline >= Verify => sinceLook' + deadline' >= Verify
    BY <1>1, <1>2, <1>4, Times, AfterFacts
  <2>2. ASSUME job = "deadline", answer # "none"
        PROVE  sinceAnswer' + Delay' <= Pause
    <3>1. sinceAnswer + Delay <= Pause
      BY <2>2 DEF MailInv
    <3>2. Delay' + 1 <= Delay
      BY <1>1, <1>3, <1>5, <2>2 DEF MailInv, Melodies
    <3>3. sinceAnswer' = sinceAnswer + 1
      BY <1>2, <2>2
    <3>4. \A n, d, e \in Nat : n + d <= Pause /\ e + 1 <= d => (n + 1) + e <= Pause
      OBVIOUS
    <3>. QED BY <1>1, <1>5, <3>1, <3>2, <3>3, <3>4
  <2>3. UNCHANGED <<job, asked, judging, answer>> /\ ~turned'
    BY <1>2
  <2>. QED BY <2>1, <2>2, <2>3 DEF MailInv
<1>. QED BY <1>6, <1>7, <1>8, <1>9, <1>10

(* Every tick of the clock and every step of either core keeps the invariant of the
   time budgets: the watchdog's, the latch pulse's and the mailbox's. *)
THEOREM StepTiming == TimingInv /\ [Next]_vars => TimingInv'
<1>. SUFFICES ASSUME TimingInv, [Next]_vars PROVE TimingInv'
  OBVIOUS
<1>1. CASE Next
  BY <1>1, Core1Keeps, Core0Keeps, BootKeeps, TickKeeps DEF Next
<1>2. CASE UNCHANGED vars
  <2>1. TypeOK'
    BY <1>2 DEF vars, core1, core0, dog, mailbox, TimingInv, TypeOK
  <2>. QED BY <1>2, <2>1, FeedFrame, PulseFrame, AwayFrame, MailFrame
           DEF vars, core1, core0, dog, mailbox, TimingInv
<1>. QED BY <1>1, <1>2


-----------------------------------------------------------------------------
(* The balance of times holds for every choice of the durations.             *)
THEOREM TimingHolds == Spec => []TimingInv
BY InitTiming, StepTiming, PTL DEF Spec

(* The watchdog of src/main.c:99 never runs out under a working lock, with all *)
(* the beeps and the pulse of a grant (src/core1.c:84-89) between two feeds.   *)
THEOREM NeverStarved == Spec => []FedInTime
<1>1. TimingInv => FedInTime
  <2>. SUFFICES ASSUME TimingInv, duty # "spin" PROVE wd > 0
    BY DEF FedInTime
  <2>. USE Times, NapCounts DEF TimingInv
  <2>1. wd \in Nat /\ left \in Nat /\ pause \in 0..Pause
    BY DEF TypeOK
  <2>2. CASE job \in Melodies
    <3>1. wd > Unfed
      BY <2>2 DEF FeedInv
    <3>2. Rest \in Nat
      BY <2>2, RestNat
    <3>3. Unfed \in Nat
      BY <2>1, <3>2, DelayBound DEF Unfed
    <3>. QED BY <2>1, <3>1, <3>3
  <2>3. CASE job \notin Melodies
    <3>1. wd + Slack + Pause + 1 >= Watchdog /\ Slack \in Nat /\ Slack <= Pause + 1
      <4>1. Slack \in Nat /\ Slack <= Pause + 1 /\ Delay \in Nat /\ Delay <= Pause
        BY DelayBound DEF Slack
      <4>2. wd + Slack >= Watchdog \/ wd + Slack + Pause + 1 >= Watchdog + Delay
        BY <2>1, <2>3 DEF FeedInv
      <4>. QED BY <2>1, <4>1, <4>2
    <3>2. 2 * Pause + 2 < Watchdog
      <4>1. "beep" \in Melodies
        BY DEF Melodies
      <4>2. Plan["beep"][0] = 2 * Short /\ Naps["beep"] * Pause = 2 * Pause
        BY DEF Plan, Naps
      <4>3. 2 * Short + 2 * Pause + Pause + 1 < Watchdog
        BY <4>1, <4>2, Budget
      <4>. QED BY <4>3
    <3>. QED BY <2>1, <3>1, <3>2
  <2>. QED BY <2>2, <2>3
<1>. QED BY <1>1, TimingHolds, PTL

(* The strike is powered for at most one LATCH_OPEN_DELAY and one flash write,  *)
(* though both cores drive its pin (src/hardware/latch.c:18-22).               *)
THEOREM PulseIsBounded == Spec => []PulseBounded
<1>1. TimingInv => PulseBounded
  <2>. SUFFICES ASSUME TimingInv, latch PROVE high <= Hold + Pause
    BY DEF PulseBounded
  <2>1. high \in Nat /\ left \in Nat /\ left0 \in Nat /\ pause \in 0..Pause
    BY DEF TimingInv, TypeOK
  <2>2. PulseInv
    BY DEF TimingInv
  <2>3. \/ IF left = 0 THEN high + Delay <= Hold + Pause ELSE high + left <= Hold
        \/ high + left0 <= Hold
    BY <2>2 DEF PulseInv
  <2>4. Delay \in Nat /\ Delay <= Pause
    BY DelayBound DEF TimingInv
  <2>. QED BY <2>1, <2>3, <2>4, Times
<1>. QED BY <1>1, TimingHolds, PTL

(* Core 0 is back at the mailbox after at most its longest turn.             *)
THEOREM NeverLongAway == Spec => []AwayBounded
<1>1. TimingInv => AwayBounded
  BY DEF TimingInv, AwayInv, AwayBounded
<1>. QED BY <1>1, TimingHolds, PTL

(* A verify timeout (src/core1.c:95) means that core 0 did not look in time, is  *)
(* at the request, or has answered within the last flash operation.             *)
THEOREM TimeoutIsHonest == Spec => TimeoutMeansLate
<1>1. ASSUME TimingInv, [Next]_vars, job' = "fail", job \in Waits
      PROVE  Late
  <2>. USE <1>1 DEF Waits
  <2>1. CASE GiveUp
    <3>1. /\ job = "deadline" /\ deadline = 0 /\ MailInv
          /\ sinceLook \in Nat /\ sinceAnswer \in Nat /\ Delay \in Nat /\ Delay <= Pause
      BY <2>1, Times, DelayBound DEF GiveUp, TimingInv, TypeOK
    <3>2. CASE answer # "none"
      <4>1. sinceAnswer + Delay <= Pause
        BY <3>1, <3>2 DEF MailInv
      <4>2. sinceAnswer <= Pause
        BY <3>1, <4>1, Times
      <4>. QED BY <3>2, <4>2 DEF Late
    <3>3. CASE judging = "mine"
      <4>1. sinceLook <= Judge
        BY <3>3 DEF TimingInv, AwayInv
      <4>. QED BY <3>3, <4>1 DEF Late
    <3>4. CASE answer = "none" /\ judging # "mine"
      <4>1. asked /\ sinceLook + deadline >= Verify
        BY <3>1, <3>4 DEF MailInv
      <4>2. sinceLook >= Verify
        BY <3>1, <4>1, Times
      <4>. QED BY <4>1, <4>2 DEF Late
    <3>. QED BY <3>2, <3>3, <3>4
  <2>2. CASE Core1Step /\ ~GiveUp
    BY <2>2 DEF Core1Step, KeypadTurn, KeyHeard, Submit, PollResponse, PollAgain,
                ReadVerdict, NapOver, MelodyOver, Melodies
  <2>3. CASE Core0Step
    BY <2>3 DEF Core0Step, Look, Answer, FlashWrite, NextDuty, core1
  <2>4. CASE Boot \/ Tick \/ UNCHANGED vars
    BY <2>4 DEF Boot, Tick, vars, core1
  <2>. QED BY <2>1, <2>2, <2>3, <2>4 DEF Next
<1>2. TimingInv /\ [Next]_vars => [job' = "fail" /\ job \in Waits => Late]_vars
  BY <1>1
<1>. QED BY <1>2, TimingHolds, PTL DEF Spec, TimeoutMeansLate
=============================================================================
