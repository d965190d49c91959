----------------------------- MODULE LockTiming -----------------------------
(***************************************************************************)
(* Who keeps whom waiting, and the watchdog.  Core 1 feeds the watchdog from *)
(* its loop and while it waits for a verdict, but not while it beeps or holds*)
(* the latch; core 0 looks at the mailbox at the top of its loop and in two  *)
(* prompts, takes a while to judge a request, and does not look during its   *)
(* other duties; a flash write of core 0 stops core 1 wherever it is.  Time is  *)
(* discrete.  A tick may pass only when each core sleeps, is stopped, works, or *)
(* has had its turn: the processors are fast.                                *)
(***************************************************************************)
EXTENDS Integers

CONSTANTS
    Short, Medium,      \* BUZZER_SHORT_BEEP_DELAY, BUZZER_MEDIUM_BEEP_DELAY
    Hold,               \* LATCH_OPEN_DELAY
    Verify,             \* FIFO_VERIFY_TIMEOUT_MS
    Watchdog,           \* watchdog_enable(8000, true)
    RebootDelay,        \* watchdog_reboot(0, 0, 500)
    Pause,              \* the longest flash program or erase operation
    Judge,              \* how long key lookup, TOTP and printf may take a request
    Prompt, Paste,      \* how long a CONFIRM and a paste may take: 15 s, 60 s
    Connect, Sync,      \* how long wifi_connect and ntp_sync may take
    Lights,             \* the two seconds of "test" before the latch
    Save, Import,       \* how long the flash writes of a command may take
    Output,             \* the longest output of a command, an export: 7.5 kB
    MaxAway             \* how long core 0 stays away from the mailbox

(* What core 1 does without feeding the watchdog, as the time left after each*)
(* of its sleeps.  A beep is two sleeps, one with the buzzer on.             *)
Plan == [
    beep  |-> [i \in 0..2 |-> (2 - i) * Short],
    fail  |-> [i \in 0..4 |-> (4 - i) * Medium],
    bell  |-> [i \in 0..12 |->
                 (3 - i \div 4) * (2 * Medium + 2 * Short)
                   - (IF i % 4 = 3 THEN 2 * Medium + Short ELSE (i % 4) * Medium)],
    grant |-> [i \in 0..9 |-> IF i = 9 THEN 0 ELSE Hold + (8 - i) * Short]]
Melodies == {"beep", "fail", "bell", "grant"}
Naps == [beep |-> 2, fail |-> 4, bell |-> 12, grant |-> 9]

(* The duties of core 0, each with the time it may take.  "look" to "rest" are *)
(* the statements of main's loop, "console" to "ntp" take no time by themselves.*)
Limit == [
    boot |-> 0, look |-> 0, console |-> 0, wifi |-> 0, ntp |-> 0, rest |-> 0,
    spin |-> 0,
    answer |-> Output + 2 * Short + 2 * Medium,   \* buzzer_play_auth_error at most
    lights |-> Lights, test |-> Hold,
    save |-> Save, set_connect |-> Connect, sync_now |-> Sync,
    confirm |-> Prompt, backup |-> Output + 2 * Short, paste |-> Paste,
    backup_again |-> Output + 2 * Short, import |-> Import,
    format_prompt |-> Prompt, format |-> Import, farewell |-> 4 * Short,
    reboot |-> 4 * Short,
    connect |-> Connect, sync |-> Sync, sync_error |-> 4 * Short + 4 * Medium]
Duties == DOMAIN Limit

(* What core 0 goes on with.  "spin" is the loop after watchdog_reboot.      *)
Follow == [
    boot |-> {"look"}, look |-> {"console"},
    console |-> {"wifi", "answer", "lights", "save", "sync_now", "confirm",
                 "format_prompt", "reboot"},
    answer |-> {"wifi"},
    lights |-> {"test"}, test |-> {"answer"},
    save |-> {"answer", "set_connect"}, set_connect |-> {"sync_now", "answer"},
    sync_now |-> {"answer"},
    confirm |-> {"answer", "backup"}, backup |-> {"paste"},
    paste |-> {"answer", "backup_again"}, backup_again |-> {"import"},
    import |-> {"answer"},
    format_prompt |-> {"answer", "format"}, format |-> {"answer", "farewell"},
    farewell |-> {"spin"}, spin |-> {}, reboot |-> {},
    wifi |-> {"ntp", "connect"}, connect |-> {"ntp"},
    ntp |-> {"rest", "sync"}, sync |-> {"rest", "sync_error"},
    sync_error |-> {"rest"}, rest |-> {}]

Instant == {"console", "wifi", "ntp"}
Untimed == {"boot", "spin", "rest"}
Sleeping == {"test", "farewell", "reboot", "sync_error"}
Writing == {"boot", "save", "import", "format"}

(* Mutant: the paste loop does not pump the mailbox (ISSUES.md L9).          *)
PumpingWithoutPaste == {"format_prompt"}

(* The prompts that call core0_handle_door_verify in every turn.             *)
Pumping == {"paste", "format_prompt"}

ASSUME TimesAssumption ==
    /\ {Short, Medium, Hold, Verify, Watchdog, RebootDelay, Pause} \subseteq Nat \ {0}
    /\ {Judge, Prompt, Paste, Connect, Sync, Lights, Save, Import, Output, MaxAway}
         \subseteq Nat
(* The longest spell without a feed, every sleep of it prolonged by a flash  *)
(* write, is shorter than the watchdog: 5.8 s and nine writes, for a grant.  *)
ASSUME WatchdogAssumption ==
    \A m \in Melodies : Plan[m][0] + Naps[m] * Pause + Pause + 1 < Watchdog
(* One turn of main's loop by its longest paths: the mailbox; then set-wifi, the *)
(* two halves of import-keys, test, format-storage; then wifi_task and ntp_task. *)
ASSUME AwayAssumption ==
    LET after == Limit.answer + Connect + Sync + Limit.sync_error
    IN  /\ Judge + Save + Connect + Sync + after <= MaxAway
        /\ Judge + Prompt + Limit.backup + after <= MaxAway
        /\ Judge + Limit.backup_again + Import + after <= MaxAway
        /\ Judge + Lights + Hold + after <= MaxAway
        /\ Judge + Import + 4 * Short + after <= MaxAway
        /\ Verify <= MaxAway

VARIABLES
    (* core 1 *)
    job,          \* "keypad", a place in process_input's wait, or a melody
    nap, left,    \* which sleep of the melody it is in, time left of it
    deadline,     \* time left to the deadline of process_input
    turned,       \* it has been round its loop in this tick
    held,         \* it was stopped in the last tick
    (* core 0 *)
    duty,
    left0,        \* time left until the duty must be over
    looked,       \* it has been round the loop of the prompt in this tick
    pause,        \* time left of a flash operation, which stops core 1
    mounted,      \* storage_is_mounted()
    (* shared *)
    asked,        \* request_seq is newer than the one that core 0 loaded last
    judging,      \* core 0 is at a request: "mine" of the attempt that waits
    answer,       \* the response to the attempt that waits
    latch,        \* the level of LATCH_PIN
    wd, reload,   \* the watchdog counter, what watchdog_update reloads
    (* history *)
    sinceLook,    \* time since core 0 last looked at the mailbox
    sinceAnswer,  \* time since it stored the answer
    high          \* how long the latch pin has been high

core1 == <<job, nap, left, deadline, turned>>
core0 == <<duty, left0, looked, pause, held, mounted>>
mailbox == <<asked, judging, answer, sinceAnswer>>
dog == <<wd, reload>>
vars == <<core1, core0, mailbox, latch, dog, sinceLook, high>>

Waits == {"verify", "deadline"}

TypeOK ==
    /\ job \in {"keypad", "rd_granted"} \cup Waits \cup Melodies
    /\ nap \in 0..12
    /\ job \in Melodies => nap \in 1..Naps[job]
    /\ left \in Nat /\ deadline \in 0..Verify
    /\ duty \in Duties /\ left0 \in Nat
    /\ pause \in 0..Pause
    /\ turned \in BOOLEAN /\ looked \in BOOLEAN /\ held \in BOOLEAN
    /\ mounted \in BOOLEAN /\ latch \in BOOLEAN
    /\ asked \in BOOLEAN /\ judging \in {"no", "mine", "stale"}
    /\ answer \in {"none", "granted", "denied"}
    /\ wd \in Nat /\ reload \in {Watchdog, RebootDelay}
    /\ sinceLook \in 0..(MaxAway + 1) /\ sinceAnswer \in Nat /\ high \in Nat

BootState ==
    /\ job = "keypad" /\ nap = 0 /\ left = 0 /\ deadline = 0 /\ turned = FALSE
    /\ duty = "boot" /\ left0 = 0 /\ looked = FALSE /\ pause = 0 /\ held = FALSE
    /\ asked = FALSE /\ judging = "no" /\ answer = "none"
    /\ latch = FALSE
    /\ wd = Watchdog /\ reload = Watchdog
    /\ sinceLook = 0 /\ sinceAnswer = 0 /\ high = 0

Init == BootState /\ mounted \in BOOLEAN

-----------------------------------------------------------------------------
(* Core 1.                                                                   *)

(* A watchdog that has run out resets at once.                               *)
Powered == wd > 0

Core1Runs == Powered /\ pause = 0

(* Mutant: main1 does not feed the watchdog.                                 *)
KeypadTurnUnfed ==
    /\ Core1Runs /\ job = "keypad" /\ ~turned
    /\ turned' = TRUE
    /\ UNCHANGED <<job, nap, left, deadline, core0, mailbox, latch, dog,
                   sinceLook, high>>

(* main1 found no key (or one that does nothing) and feeds the watchdog.     *)
KeypadTurn ==
    /\ Core1Runs /\ job = "keypad" /\ ~turned
    /\ wd' = reload
    /\ turned' = TRUE
    /\ UNCHANGED <<job, nap, left, deadline, core0, mailbox, latch, reload,
                   sinceLook, high>>

Play(m) ==
    /\ job' = m
    /\ nap' = 1
    /\ left' = Plan[m][0] - Plan[m][1]

(* A key beeps, rings, or is a "#" after too few digits.                     *)
KeyHeard ==
    /\ Core1Runs /\ job = "keypad" /\ ~turned
    /\ \E m \in {"beep", "bell", "fail"} : Play(m)
    /\ UNCHANGED <<deadline, turned, core0, mailbox, latch, dog, sinceLook, high>>

(* process_input publishes a request.  What an older request left behind in  *)
(* the mailbox is told apart by its nonce (DoorVerify).                      *)
Submit ==
    /\ Core1Runs /\ job = "keypad" /\ ~turned
    /\ job' = "verify"
    /\ asked' = TRUE
    /\ deadline' = Verify
    /\ UNCHANGED <<nap, left, turned, core0, judging, answer, sinceAnswer, latch,
                   dog, sinceLook, high>>

(* Mutant: the wait does not feed the watchdog.                              *)
PollResponseUnfed ==
    /\ Core1Runs /\ job = "verify" /\ ~turned
    /\ job' = IF answer = "none" THEN "deadline" ELSE "rd_granted"
    /\ UNCHANGED <<nap, left, deadline, turned, core0, mailbox, latch, dog,
                   sinceLook, high>>

(* One turn of the wait feeds the watchdog and loads response_seq ...        *)
PollResponse ==
    /\ Core1Runs /\ job = "verify" /\ ~turned
    /\ wd' = reload
    /\ job' = IF answer = "none" THEN "deadline" ELSE "rd_granted"
    /\ UNCHANGED <<nap, left, deadline, turned, core0, mailbox, latch, reload,
                   sinceLook, high>>

(* ... and then looks at the deadline, or sleeps.                            *)
PollAgain ==
    /\ Core1Runs /\ job = "deadline" /\ deadline > 0
    /\ job' = "verify"
    /\ turned' = TRUE
    /\ UNCHANGED <<nap, left, deadline, core0, mailbox, latch, dog, sinceLook, high>>

(* The attempt is over for core 1, even if core 0 has yet to answer it.      *)
Forget ==
    /\ deadline' = 0
    /\ judging' = IF judging = "mine" THEN "stale" ELSE judging
    /\ answer' = "none" /\ sinceAnswer' = 0

(* Mutant: the deadline is looked at before the mailbox.                     *)
GiveUpUnlooked ==
    /\ Core1Runs /\ job \in Waits /\ ~turned /\ deadline = 0
    /\ Play("fail") /\ Forget
    /\ UNCHANGED <<turned, core0, asked, latch, dog, sinceLook, high>>

GiveUp ==
    /\ Core1Runs /\ job = "deadline" /\ deadline = 0
    /\ Play("fail") /\ Forget
    /\ UNCHANGED <<turned, core0, asked, latch, dog, sinceLook, high>>

ReadVerdict ==
    /\ Core1Runs /\ job = "rd_granted"
    /\ Play(IF answer = "granted" THEN "grant" ELSE "fail") /\ Forget
    /\ UNCHANGED <<turned, core0, asked, latch, dog, sinceLook, high>>

(* The last sleep of a grant is that of latch_open, which sets the pin.      *)
NapOver ==
    /\ Core1Runs /\ job \in Melodies /\ left = 0 /\ nap < Naps[job]
    /\ nap' = nap + 1
    /\ left' = Plan[job][nap] - Plan[job][nap + 1]
    /\ IF job = "grant" /\ nap + 1 = Naps.grant
       THEN latch' = TRUE /\ high' = IF latch THEN high ELSE 0
       ELSE UNCHANGED <<latch, high>>
    /\ UNCHANGED <<job, deadline, turned, core0, mailbox, dog, sinceLook>>

(* Mutant: the melody ends with the pin as it is.                            *)
MelodyOverPinHigh ==
    /\ Core1Runs /\ job \in Melodies /\ left = 0 /\ nap = Naps[job]
    /\ job' = "keypad"
    /\ nap' = 0
    /\ wd' = reload
    /\ turned' = TRUE
    /\ UNCHANGED <<left, deadline, core0, mailbox, latch, reload, sinceLook, high>>

(* latch_open clears the pin; back in main1's loop the watchdog is fed.      *)
MelodyOver ==
    /\ Core1Runs /\ job \in Melodies /\ left = 0 /\ nap = Naps[job]
    /\ job' = "keypad"
    /\ nap' = 0
    /\ wd' = reload
    /\ turned' = TRUE
    /\ latch' = (latch /\ job # "grant")
    /\ UNCHANGED <<left, deadline, core0, mailbox, reload, sinceLook, high>>

Core1Step ==
    \/ KeypadTurn \/ KeyHeard \/ Submit
    \/ PollResponse \/ PollAgain \/ GiveUp \/ ReadVerdict
    \/ NapOver \/ MelodyOver

-----------------------------------------------------------------------------
(* Core 0.                                                                   *)

(* core0_handle_door_verify is over, at the top of main's loop or in a prompt. *)
Handled ==
    IF duty = "look" THEN duty' = "console" /\ UNCHANGED looked
    ELSE looked' = TRUE /\ UNCHANGED duty

(* The top of main's loop, or a turn of a prompt that pumps: load request_seq. *)
Look ==
    /\ duty = "look" \/ (duty \in Pumping /\ ~looked)
    /\ judging = "no"
    /\ sinceLook' = 0
    /\ asked' = FALSE
    /\ IF asked
       THEN /\ judging' = IF job \in Waits THEN "mine" ELSE "stale"
            /\ UNCHANGED <<duty, looked>>
       ELSE Handled /\ UNCHANGED judging
    /\ UNCHANGED <<core1, left0, pause, held, mounted, answer, sinceAnswer, latch,
                   dog, high>>

(* ... and, up to Judge later, store the verdict and response_seq.           *)
Answer ==
    /\ judging # "no"
    /\ judging' = "no"
    /\ IF judging = "mine"
       THEN answer' \in {"granted", "denied"} /\ sinceAnswer' = 0
       ELSE UNCHANGED <<answer, sinceAnswer>>
    /\ Handled
    /\ UNCHANGED <<core1, left0, pause, held, mounted, asked, latch, dog,
                   sinceLook, high>>

(* A sleep ends on time; a command, a connect or a sync within its time.  A  *)
(* healthy storage refuses to be formatted, a broken one to be written.      *)
NextDuty(d) ==
    /\ d \in Follow[duty]
    /\ duty # "look"
    /\ pause = 0
    /\ duty \in Sleeping => left0 = 0
    /\ duty \in Pumping => looked
    /\ d = "format_prompt" => ~mounted
    /\ d = "save" => mounted
    /\ duty' = d
    /\ left0' = Limit[d]
    /\ looked' = FALSE
    /\ mounted' = (mounted \/ d = "farewell")
    /\ IF d = "test" THEN latch' = TRUE /\ high' = IF latch THEN high ELSE 0
       ELSE latch' = (latch /\ duty # "test") /\ UNCHANGED high
    /\ IF d = "spin" THEN wd' = RebootDelay /\ reload' = RebootDelay
       ELSE UNCHANGED dog
    /\ UNCHANGED <<core1, pause, held, mailbox, sinceLook>>

Core1Due ==
    IF job \in Melodies THEN left = 0 ELSE ~turned

(* flash_safe_execute: core 1 is stopped wherever it is, asleep or between two  *)
(* steps.  What it was kept from doing it gets to do before the next stop.   *)
FlashWrite ==
    /\ duty \in Writing
    /\ mounted \/ duty # "import"
    /\ pause = 0 /\ (Core1Due => ~held)
    /\ pause' \in 1..Pause
    /\ duty # "boot" => pause' <= left0
    /\ UNCHANGED <<core1, duty, left0, looked, held, mounted, mailbox, latch, dog,
                   sinceLook, high>>

(* Everything but the flash starts over: the watchdog, or "reboot".          *)
Boot ==
    /\ ~Powered \/ (duty = "reboot" /\ left0 = 0)
    /\ job' = "keypad" /\ nap' = 0 /\ left' = 0 /\ deadline' = 0 /\ turned' = FALSE
    /\ duty' = "boot" /\ left0' = 0 /\ looked' = FALSE /\ pause' = 0 /\ held' = FALSE
    /\ mounted' \in BOOLEAN
    /\ asked' = FALSE /\ judging' = "no" /\ answer' = "none"
    /\ latch' = FALSE
    /\ wd' = Watchdog /\ reload' = Watchdog
    /\ sinceLook' = 0 /\ sinceAnswer' = 0 /\ high' = 0

Core0Step ==
    /\ Powered
    /\ Look \/ Answer \/ FlashWrite \/ \E d \in Duties : NextDuty(d)

-----------------------------------------------------------------------------
OneLess(n) == IF n = 0 THEN 0 ELSE n - 1

Core1Waits == pause > 0 \/ ~Core1Due
Core0Waits ==
    IF judging # "no" THEN sinceLook < Judge
    ELSE /\ duty \notin {"look"} \cup Instant
         /\ duty \in Pumping => looked
         /\ duty \notin Untimed => left0 > 0

Tick ==
    /\ Core1Waits /\ Core0Waits /\ Powered
    /\ wd' = wd - 1
    /\ left' = OneLess(left)
    /\ deadline' = OneLess(deadline)
    /\ turned' = FALSE
    /\ left0' = OneLess(left0)
    /\ looked' = FALSE
    /\ pause' = OneLess(pause)
    /\ held' = (pause > 0)
    /\ duty' = IF duty = "rest" THEN "look" ELSE duty
    /\ sinceLook' = IF sinceLook <= MaxAway THEN sinceLook + 1 ELSE sinceLook
    /\ sinceAnswer' = IF answer # "none" THEN sinceAnswer + 1 ELSE sinceAnswer
    /\ high' = IF latch THEN high + 1 ELSE high
    /\ UNCHANGED <<job, nap, mounted, asked, judging, answer, latch, reload>>

Next == Core1Step \/ Core0Step \/ Boot \/ Tick

(* Both cores execute, time passes and the watchdog resets.                  *)
Spec ==
    /\ Init /\ [][Next]_vars
    /\ WF_vars(Core1Step) /\ WF_vars(Core0Step) /\ WF_vars(Boot) /\ WF_vars(Tick)

-----------------------------------------------------------------------------
(* The inductive invariant.  A step of core 1 that is due is kept waiting by at *)
(* most one flash operation, the one that is running if it was stopped before.  *)
Delay == IF held THEN pause ELSE Pause

(* What core 1 still has to do before it feeds the watchdog again: the rest of  *)
(* its sleeps, each prolonged by that delay.                                 *)
Rest == Plan[job][nap] + (Naps[job] - nap) * Pause
Unfed == left + Rest + (IF left = 0 THEN Delay ELSE Pause)

(* main1 feeds at the end of its turn; the wait at the start, so that a stop *)
(* may fall between the feed and the sleep.                                  *)
Slack == IF job = "verify" THEN Pause + 1 ELSE 0

FeedInv ==
    duty # "spin" =>
        /\ reload = Watchdog
        /\ IF job \in Melodies THEN ~turned /\ wd > Unfed
           ELSE IF turned THEN job \in {"keypad", "verify"} /\ wd + Slack >= Watchdog
           ELSE wd + Slack + Pause + 1 >= Watchdog + Delay

(* The pin is high on account of one of the two cores, whose time it counts. *)
PulseInv ==
    latch =>
        \/ /\ job = "grant" /\ nap = Naps.grant
           /\ IF left = 0 THEN high + Delay <= Hold + Pause
              ELSE high + left <= Hold
        \/ duty = "test" /\ high + left0 <= Hold

(* What may follow a duty before main's loop is at its top again, or a prompt*)
(* pumps.                                                                    *)
Tail ==
    LET after == Limit.answer + Connect + Sync + Limit.sync_error
    IN [d \in Duties |->
        CASE d \in {"boot", "look", "rest", "sync_error", "spin", "reboot",
                    "farewell"} -> 0
          [] d \in {"ntp", "connect"} -> Sync + Limit.sync_error
          [] d = "sync" -> Limit.sync_error
          [] d \in {"wifi", "answer"} -> Connect + Sync + Limit.sync_error
          [] d \in {"test", "sync_now", "import"} -> after
          [] d = "lights" -> Hold + after
          [] d = "set_connect" -> Sync + after
          [] d = "save" -> Connect + Sync + after
          [] d = "confirm" -> Limit.backup + after
          [] d = "backup" -> 0
          [] d = "backup_again" -> Import + after
          [] d = "format" -> 4 * Short + after
          [] OTHER -> 0]

AwayInv ==
    /\ duty \notin {"boot", "spin", "look"} => sinceLook <= MaxAway
    /\ duty \notin {"boot", "spin", "look", "console"} \cup Pumping =>
           sinceLook + left0 + Tail[duty] <= MaxAway
    /\ duty = "console" \/ (duty \in Pumping /\ looked) \/ judging # "no"
         => sinceLook <= Judge
    /\ judging # "no" => duty = "look" \/ (duty \in Pumping /\ ~looked)

(* Where the request of the attempt that waits is: not yet seen, being judged, *)
(* or answered, and that since core 1 looked for the answer.                 *)
MailInv ==
    /\ answer # "none" =>
           job \in {"rd_granted"} \cup Waits /\ judging # "mine" /\ ~asked
    /\ judging = "mine" => job \in Waits /\ ~asked
    /\ job \in Waits /\ answer = "none" /\ judging # "mine" =>
           asked /\ sinceLook + deadline >= Verify
    /\ job = "deadline" => ~turned
    /\ job = "deadline" /\ answer # "none" => sinceAnswer + Delay <= Pause

TimingInv == TypeOK /\ FeedInv /\ PulseInv /\ AwayInv /\ MailInv

-----------------------------------------------------------------------------
(* The watchdog, enabled for a crash of core 1 (src/main.c:99), never fires  *)
(* while the lock works: not during a grant (src/core1.c:84-89), nor a       *)
(* doorbell, however many flash writes core 0 does meanwhile.  Only the      *)
(* reboot that format-storage asks for may come out of it.                   *)
FedInTime == duty # "spin" => wd > 0

(* Two cores drive the pin, and each of the two pulses is turned off by      *)
(* whichever comes first: the strike is never powered for longer than one    *)
(* LATCH_OPEN_DELAY and a flash write.                                       *)
PulseBounded == latch => high <= Hold + Pause

(* Once main's loop is reached, core 0 looks at the mailbox at least once in *)
(* its longest turn.  It pumps during a paste and a format prompt "so a      *)
(* paste/confirm can never starve the keypad" (src/shared/door_verify.h:41). *)
AwayBounded == duty \notin {"boot", "spin", "look"} => sinceLook <= MaxAway

(* No answer in time, for one of three reasons.                              *)
Late ==
    \/ answer # "none" /\ sinceAnswer <= Pause
    \/ judging = "mine" /\ sinceLook <= Judge
    \/ asked /\ sinceLook >= Verify

(* Core 1 plays the fail melody to someone who was not refused (a verify     *)
(* timeout, src/core1.c:95) only if core 0 has not looked at the mailbox for *)
(* the whole FIFO_VERIFY_TIMEOUT_MS, or is at the request right now, or has  *)
(* answered while a flash write kept core 1 between the look at the mailbox and  *)
(* the look at the deadline: an answer is never overlooked for longer.       *)
TimeoutMeansLate ==
    [][job' = "fail" /\ job \in Waits => Late]_vars

(* "done - rebooting" (src/serial/commands_system.c:284).                    *)
FormatReboots == (duty = "spin") ~> (duty = "boot")
=============================================================================
