---------------------------- MODULE AdminSession ----------------------------
(***************************************************************************)
(* The admin session of the serial console: commands_dispatch and the session *)
(* state (src/serial/commands.c), cmd_login and cmd_logout                    *)
(* (src/serial/commands_system.c), and the connect and disconnect edges of     *)
(* console_task (src/serial/console.c).                                       *)
(*                                                                           *)
(* console_task runs once per turn of the main loop and a command handler      *)
(* blocks that loop, from a beep to the 75 seconds of import-keys.  Time        *)
(* passes and the terminal comes and goes meanwhile; core 0 looks again when    *)
(* the handler has returned.                                                 *)
(***************************************************************************)
EXTENDS Naturals

CONSTANTS
    IdleTimeout,   \* ADMIN_IDLE_TIMEOUT_US
    BypassWindow,  \* BOOT_BYPASS_WINDOW_US
    Builds,        \* is LIB_PICO_STDIO_UART defined?  CMakeLists.txt: TRUE
    MaxNow         \* a bound of the model

ASSUME SessionAssumption ==
    /\ IdleTimeout \in Nat \ {0} /\ BypassWindow \in Nat /\ MaxNow \in Nat
    /\ Builds \subseteq BOOLEAN

VARIABLES
    uart,          \* this build has the UART console too
    now,           \* time_us_64
    mode,          \* admin_mode
    deadline,      \* admin_deadline_us; 0 is "none"
    usb,           \* stdio_usb_connected
    wasConnected,
    running,       \* the command whose handler runs; "none": the main loop
    started,       \* history: when it was dispatched
    mounted, wifi, rtcSet, anyAdmin,   \* what cmd_login looks at
    opened,        \* history: a login opened a session that nothing has ended
    active         \* history: the end of its last successful command

session == <<mode, deadline>>
console == <<usb, wasConnected>>
job     == <<running, started>>
world   == <<mounted, wifi, rtcSet, anyAdmin>>
history == <<opened, active>>
vars == <<uart, now, session, console, job, world, history>>

(* The command table, by what the rows have in common.                       *)
AdminCommands == {"logout", "keys", "setup"}   \* requires_admin
AlwaysAllowed == {"help", "format"}            \* with storage unmounted, too
Commands == AdminCommands \union AlwaysAllowed \union {"login", "status"}

BootState ==
    /\ now = 0 /\ mode = FALSE /\ deadline = 0
    /\ wasConnected = FALSE /\ running = "none" /\ started = 0
    /\ rtcSet = FALSE
    /\ opened = FALSE /\ active = 0

(* With storage unmounted there are no credentials and no keys to be read.    *)
Readable == mounted \/ (~wifi /\ ~anyAdmin)

Init ==
    /\ uart \in Builds
    /\ BootState
    /\ usb \in BOOLEAN
    /\ mounted \in BOOLEAN /\ wifi \in BOOLEAN /\ anyAdmin \in BOOLEAN
    /\ Readable

-----------------------------------------------------------------------------
Connected == uart \/ usb

(* commands_admin_grant.                                                     *)
Grant ==
    /\ mode' = TRUE
    /\ deadline' = now + IdleTimeout
    /\ active' = now

End == mode' = FALSE /\ opened' = FALSE

(* A mutant: the session is ended by its deadline only.                      *)
DisconnectKeepsAdmin ==
    /\ running = "none" /\ ~Connected /\ wasConnected
    /\ wasConnected' = FALSE
    /\ opened' = FALSE
    /\ UNCHANGED <<uart, now, session, usb, job, world, active>>

(* The disconnect edge of console_task, and commands_on_disconnect.           *)
Disconnect ==
    /\ running = "none" /\ ~Connected /\ wasConnected
    /\ wasConnected' = FALSE
    /\ End
    /\ deadline' = IF mode THEN 0 ELSE deadline
    /\ UNCHANGED <<uart, now, usb, job, world, active>>

Expired == mode /\ deadline # 0 /\ now >= deadline

(* A line is complete; console_task has noted the connect edge by then.       *)
Line(c) ==
    /\ running = "none" /\ Connected
    /\ wasConnected' = TRUE
    /\ c \in Commands

(* Storage unavailable, admin mode required, wrong usage, unknown command.    *)
Refuse(c) ==
    /\ Line(c)
    /\ ~(c \in AdminCommands /\ Expired) \/ (~mounted /\ c \notin AlwaysAllowed)
    /\ UNCHANGED <<uart, now, session, usb, job, world, history>>

(* admin_session_expired.                                                    *)
Expire(c) ==
    /\ Line(c)
    /\ mounted \/ c \in AlwaysAllowed
    /\ c \in AdminCommands /\ Expired
    /\ End
    /\ deadline' = 0
    /\ UNCHANGED <<uart, now, usb, job, world, active>>

(* A mutant: the deadline is forgotten.                                      *)
DispatchNeverExpires(c) ==
    /\ Line(c)
    /\ mounted \/ c \in AlwaysAllowed
    /\ c \in AdminCommands => mode
    /\ running' = c /\ started' = now
    /\ UNCHANGED <<uart, now, session, usb, world, history>>

Dispatch(c) ==
    /\ Line(c)
    /\ mounted \/ c \in AlwaysAllowed
    /\ c \in AdminCommands => mode /\ ~Expired
    /\ running' = c /\ started' = now
    /\ UNCHANGED <<uart, now, session, usb, world, history>>

-----------------------------------------------------------------------------
(* The handlers, and what the dispatcher does when they return.              *)

Return(c) == running = c /\ running' = "none"

(* cmd_login.  valid: the key named is an enabled admin key with a good       *)
(* checksum and the code is its TOTP code now.                               *)
LoginOpens(valid) ==
    /\ mounted
    /\ \/ ~wifi
       \/ ~rtcSet /\ now >= BypassWindow
       \/ rtcSet /\ ~anyAdmin
       \/ rtcSet /\ valid

LoginDone(valid) ==
    /\ Return("login")
    /\ valid => anyAdmin
    /\ IF LoginOpens(valid)
         THEN Grant /\ opened' = TRUE
         ELSE UNCHANGED <<session, history>>
    /\ UNCHANGED <<uart, now, console, started, world>>

(* The deadline stays armed; without admin_mode nobody looks at it.          *)
LogoutDone ==
    /\ Return("logout")
    /\ End
    /\ UNCHANGED <<uart, now, deadline, console, started, world, active>>

(* The other admin commands; afterwards the idle window starts again.         *)
AdminDone ==
    /\ \/ Return("keys") /\ anyAdmin' \in BOOLEAN /\ UNCHANGED <<wifi, rtcSet>>
       \/ /\ Return("setup") /\ wifi' \in {wifi, TRUE} /\ UNCHANGED anyAdmin
          /\ rtcSet' \in {rtcSet, TRUE}
    /\ Grant
    /\ UNCHANGED <<uart, now, console, started, mounted, opened>>

(* A mutant: every command keeps the session alive.                          *)
PublicDoneRefreshes ==
    /\ Return("status") \/ Return("help") \/ Return("format")
    /\ deadline' = IF mode THEN now + IdleTimeout ELSE deadline
    /\ UNCHANGED <<uart, now, mode, console, started, world, history>>

(* help, status, get-time, test, and format-storage when it refuses or fails. *)
PublicDone ==
    /\ Return("status") \/ Return("help") \/ Return("format")
    /\ UNCHANGED <<uart, now, session, console, started, world, history>>

-----------------------------------------------------------------------------
(* The terminal, time, ntp_task, and a reset (reboot, a format that worked,    *)
(* the watchdog, power): RAM and the RTC start afresh, and what the next mount  *)
(* finds is whatever format-storage or the interrupted command left.           *)
Plug ==
    /\ usb' = ~usb
    /\ UNCHANGED <<uart, now, session, wasConnected, job, world, history>>

Tick ==
    /\ now < MaxNow /\ now' = now + 1
    /\ UNCHANGED <<uart, session, console, job, world, history>>

ClockIsSet ==
    /\ running = "none" /\ wifi /\ ~rtcSet /\ rtcSet' = TRUE
    /\ UNCHANGED <<uart, now, session, console, job, mounted, wifi, anyAdmin, history>>

Reset ==
    /\ now' = 0 /\ mode' = FALSE /\ deadline' = 0
    /\ wasConnected' = FALSE /\ running' = "none" /\ started' = 0
    /\ rtcSet' = FALSE
    /\ opened' = FALSE /\ active' = 0
    /\ mounted' \in BOOLEAN /\ wifi' \in BOOLEAN /\ anyAdmin' \in BOOLEAN
    /\ Readable'
    /\ UNCHANGED <<uart, usb>>

Next ==
    \/ Disconnect
    \/ \E c \in Commands : Refuse(c) \/ Expire(c) \/ Dispatch(c)
    \/ LoginDone(TRUE) \/ LoginDone(FALSE) \/ LogoutDone \/ AdminDone \/ PublicDone
    \/ Plug \/ Tick \/ ClockIsSet \/ Reset

Spec == Init /\ [][Next]_vars

-----------------------------------------------------------------------------
FlagsOK ==
    /\ uart \in BOOLEAN /\ mode \in BOOLEAN
    /\ usb \in BOOLEAN /\ wasConnected \in BOOLEAN
    /\ mounted \in BOOLEAN /\ wifi \in BOOLEAN
    /\ rtcSet \in BOOLEAN /\ anyAdmin \in BOOLEAN
    /\ opened \in BOOLEAN

CountsOK ==
    /\ now \in Nat /\ deadline \in Nat
    /\ started \in Nat /\ active \in Nat
    /\ running \in Commands \union {"none"}

TypeOK == FlagsOK /\ CountsOK

(* commands.h:6: an admin command is honoured only inside a session that a      *)
(* login opened and that neither logout, the deadline nor an observed          *)
(* disconnect has ended, and less than the idle timeout after the end of that   *)
(* login or of the last admin command: other commands do not keep it alive.    *)
HonouredIsFresh ==
    running \in AdminCommands => opened /\ started < active + IdleTimeout

(* Once console_task has seen the terminal go, the next one finds no session,  *)
(* not even one that a login opened after the cable was pulled.               *)
ClosedWhenDetached == ~wasConnected => ~mode
=============================================================================
