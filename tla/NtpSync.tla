------------------------------- MODULE NtpSync -------------------------------
(***************************************************************************)
(* When the clock is set: boot_network (src/main.c), ntp_sync, its DNS and     *)
(* UDP callbacks and ntp_task (src/network/ntp.c), wifi_task and wifi_connect  *)
(* (src/network/wifi.c), and the commands that call them.                     *)
(*                                                                           *)
(* Core 0 runs one statement of the main loop or of ntp_sync per step.  The    *)
(* network stack is pico_cyw43_arch_lwip_threadsafe_background: its callbacks  *)
(* run in an interrupt on core 0, between any two of those steps.  A DNS query *)
(* is never cancelled, so the callback of a call that timed out still comes.   *)
(*                                                                           *)
(* What a reply contains is one of two kinds here: "good" passes every check   *)
(* of ntp_recv_cb that looks at its contents, "early" is the one before 1970.  *)
(* The others are dropped without effect; NtpClock.tla says which those are.   *)
(***************************************************************************)
EXTENDS Naturals

CONSTANT MaxDns     \* queries lwIP keeps (DNS_MAX_REQUESTS); a full table is an error

ASSUME DnsAssumption == MaxDns \in Nat \ {0}

VARIABLES
    pc,         \* where core 0 is
    caller,     \* who called ntp_sync: "boot", "task" or "command"
    creds,      \* storage_wifi_get succeeds
    link,       \* wifi_is_connected
    checkDue,   \* time_reached(next_check) in wifi_task
    due,        \* NTP_RESYNC_INTERVAL_S has passed since the last sync
    synced,
    state,      \* ntp_state
    pcb,        \* ntp_pcb # NULL
    ok,         \* the local "ok" of ntp_sync
    dns,        \* resolutions whose callback is still to come
    requests,   \* sent on this pcb; ntp_nonce is that of the last one
    air,        \* replies on their way to this pcb
    setBy       \* history: the request whose reply last set the clock in this call

core0  == <<pc, caller, ok>>
timers == <<checkDue, due>>
vars == <<core0, timers, creds, link, synced, state, pcb, dns, requests, air, setBy>>

Callers  == {"none", "boot", "task", "command"}
NtpState == {"IDLE", "RESOLVING", "WAITING", "SUCCESS", "FAILED"}
Requests == 1..(MaxDns + 1)
Replies  == [nonce : Requests, kind : {"good", "early"}]
Calls    == {"open", "resolve", "lookup", "cached", "poll", "slept", "result", "remove"}

Init ==
    /\ pc = "boot" /\ caller = "none" /\ ok = FALSE
    /\ creds \in BOOLEAN
    /\ link = FALSE
    /\ checkDue = TRUE /\ due = FALSE /\ synced = FALSE
    /\ state = "IDLE" /\ pcb = FALSE
    /\ dns = 0 /\ requests = 0 /\ air = {} /\ setBy = 0

-----------------------------------------------------------------------------
(* boot_network, and the tasks of the main loop in their order.               *)

Goto(place) == pc' = place /\ UNCHANGED <<caller, ok>>

(* ntp_sync is called.                                                       *)
CallSync(who) == pc' = "open" /\ caller' = who /\ UNCHANGED ok

(* ntp_sync returns to its caller; boot_network calls again until it is TRUE. *)
Return(result) ==
    /\ pc' = CASE caller = "boot" -> IF result THEN "console" ELSE "open"
               [] caller = "command" -> "wifi"
               [] caller = "task" -> "console"
    /\ caller' = IF caller = "boot" /\ ~result THEN "boot" ELSE "none"
    /\ ok' = FALSE

UNCHANGED_sync == UNCHANGED <<synced, due, state, pcb, dns, requests, air, setBy>>

BootOffline ==
    /\ pc = "boot"
    /\ Goto("console")
    /\ UNCHANGED <<creds, link, checkDue>> /\ UNCHANGED_sync

BootConnected ==
    /\ pc = "boot" /\ creds
    /\ link' = TRUE
    /\ CallSync("boot")
    /\ UNCHANGED <<creds, checkDue>> /\ UNCHANGED_sync

(* console_task: nothing for the network.                                    *)
Console ==
    /\ pc = "console"
    /\ Goto("wifi")
    /\ UNCHANGED <<creds, link, checkDue>> /\ UNCHANGED_sync

SyncCommand ==
    /\ pc = "console"
    /\ CallSync("command")
    /\ UNCHANGED <<creds, link, checkDue>> /\ UNCHANGED_sync

(* cmd_set_wifi: a write that fails stores nothing, and neither does a close    *)
(* that fails, but the command goes on; it connects with the new credentials   *)
(* and syncs.                                                                *)
SetWifi ==
    /\ pc = "console"
    /\ \/ creds' = creds /\ link' = link /\ Goto("wifi")
       \/ creds' \in {creds, TRUE} /\ link' = FALSE /\ Goto("wifi")
       \/ creds' \in {creds, TRUE} /\ link' = TRUE /\ CallSync("command")
    /\ UNCHANGED checkDue /\ UNCHANGED_sync

WifiIdle ==
    /\ pc = "wifi"
    /\ ~checkDue \/ link \/ ~creds
    /\ checkDue' = FALSE
    /\ Goto("ntp")
    /\ UNCHANGED <<creds, link>> /\ UNCHANGED_sync

WifiConnect(up) ==
    /\ pc = "wifi"
    /\ checkDue /\ ~link /\ creds
    /\ checkDue' = FALSE
    /\ link' = up
    /\ Goto("ntp")
    /\ UNCHANGED creds /\ UNCHANGED_sync

NtpIdle ==
    /\ pc = "ntp"
    /\ ~(synced /\ link /\ due)
    /\ Goto("console")
    /\ UNCHANGED <<creds, link, checkDue>> /\ UNCHANGED_sync

NtpResync ==
    /\ pc = "ntp"
    /\ synced /\ link /\ due
    /\ CallSync("task")
    /\ UNCHANGED <<creds, link, checkDue>> /\ UNCHANGED_sync

-----------------------------------------------------------------------------
(* ntp_sync.                                                                 *)

outside == <<creds, link, timers, synced>>

(* udp_remove: what is still on its way to this pcb is delivered to nobody.   *)
ClosePcb == pcb' = FALSE /\ requests' = 0 /\ air' = {} /\ setBy' = 0

OpenFails ==
    /\ pc = "open"
    /\ ClosePcb
    /\ Return(FALSE)
    /\ UNCHANGED <<outside, state, dns>>

Open ==
    /\ pc = "open"
    /\ pcb' = TRUE /\ requests' = 0 /\ air' = {} /\ setBy' = 0
    /\ Goto("resolve")
    /\ UNCHANGED <<outside, state, dns>>

(* A mutant: the state of the last call is left.                             *)
ResolveKeepsState ==
    /\ pc = "resolve"
    /\ Goto("lookup")
    /\ UNCHANGED <<outside, state, pcb, dns, requests, air, setBy>>

Resolve ==
    /\ pc = "resolve"
    /\ state' = "RESOLVING"
    /\ Goto("lookup")
    /\ UNCHANGED <<outside, pcb, dns, requests, air, setBy>>

LookupInProgress ==
    /\ pc = "lookup"
    /\ dns < MaxDns
    /\ dns' = dns + 1
    /\ Goto("poll")
    /\ UNCHANGED <<outside, state, pcb, requests, air, setBy>>

LookupFails ==
    /\ pc = "lookup"
    /\ ClosePcb
    /\ Return(FALSE)
    /\ UNCHANGED <<outside, state, dns>>

(* The name is cached: dns_found_cb runs here, on core 0, and may be           *)
(* interrupted between its udp_sendto and the assignment that follows it.      *)
LookupCached ==
    /\ pc = "lookup"
    /\ \/ requests' = requests + 1 /\ Goto("cached") /\ UNCHANGED state
       \/ state' = "FAILED" /\ Goto("poll") /\ UNCHANGED requests    \* no pbuf
    /\ UNCHANGED <<outside, pcb, dns, air, setBy>>

CachedSent ==
    /\ pc = "cached"
    /\ state' = "WAITING"
    /\ Goto("poll")
    /\ UNCHANGED <<outside, pcb, dns, requests, air, setBy>>

Poll ==
    /\ pc = "poll"
    /\ Goto(IF state \in {"SUCCESS", "FAILED"} THEN "result" ELSE "slept")
    /\ UNCHANGED <<outside, state, pcb, dns, requests, air, setBy>>

PollAgain ==
    /\ pc = "slept"
    /\ Goto("poll")
    /\ UNCHANGED <<outside, state, pcb, dns, requests, air, setBy>>

(* A mutant: the timeout leaves the pcb open.                                *)
TimedOutLeaks ==
    /\ pc = "slept"
    /\ Return(FALSE)
    /\ UNCHANGED <<outside, state, pcb, dns, requests, air, setBy>>

(* A mutant: no timeout.                                                     *)
TimedOutNever == FALSE

(* NTP_TIMEOUT_S.  ntp_state is left as it is, SUCCESS included.             *)
TimedOut ==
    /\ pc = "slept"
    /\ ClosePcb
    /\ Return(FALSE)
    /\ UNCHANGED <<outside, state, dns>>

Result ==
    /\ pc = "result"
    /\ ok' = (state = "SUCCESS")
    /\ state' = "IDLE"
    /\ pc' = "remove"
    /\ UNCHANGED <<outside, caller, pcb, dns, requests, air, setBy>>

Remove ==
    /\ pc = "remove"
    /\ ClosePcb
    /\ Return(ok)
    /\ UNCHANGED <<outside, state, dns>>

-----------------------------------------------------------------------------
(* Interrupts, and the world.                                                *)

(* dns_found_cb.  Without a pcb nothing is sent, but the state is still set.   *)
DnsFound ==
    /\ dns > 0
    /\ dns' = dns - 1
    /\ requests' = IF pcb THEN requests + 1 ELSE 0
    /\ state' = "WAITING"
    /\ UNCHANGED <<core0, outside, pcb, air, setBy>>

(* No address, or no pbuf to send the request in.                            *)
DnsFails ==
    /\ dns > 0
    /\ dns' = dns - 1
    /\ state' = "FAILED"
    /\ UNCHANGED <<core0, outside, pcb, requests, air, setBy>>

(* The model carries one reply at a time, but of any request sent so far, and   *)
(* as often as the network likes: late, reordered and duplicated replies.      *)
ServerAnswers(kind) ==
    /\ air = {}
    /\ \E n \in 1..requests : air' = {[nonce |-> n, kind |-> kind]}
    /\ UNCHANGED <<core0, outside, state, pcb, dns, requests, setBy>>

Deliver(r) == r \in air /\ air' = air \ {r}

(* ntp_recv_cb accepts a reply that echoes the last nonce.                    *)
SetClock(r) ==
    /\ synced' = TRUE /\ due' = FALSE
    /\ setBy' = r.nonce
    /\ state' = "SUCCESS"

(* A mutant: the time of the last sync is not kept.                          *)
ReceiveForgetsSync ==
    /\ \E r \in air :
          /\ r.kind = "good" /\ r.nonce = requests
          /\ Deliver(r)
          /\ setBy' = r.nonce
          /\ synced' = TRUE /\ state' = "SUCCESS"
    /\ UNCHANGED <<core0, creds, link, timers, pcb, dns, requests>>

ReceiveGood ==
    /\ \E r \in air :
          /\ r.kind = "good" /\ r.nonce = requests
          /\ Deliver(r)
          /\ SetClock(r)
    /\ UNCHANGED <<core0, creds, link, checkDue, pcb, dns, requests>>

ReceiveEarly ==
    /\ \E r \in air :
          /\ r.kind = "early" /\ r.nonce = requests
          /\ Deliver(r)
    /\ state' = "FAILED"
    /\ UNCHANGED <<core0, outside, pcb, dns, requests, setBy>>

(* Lost on the way, or dropped: it answers an earlier request.                *)
Drop ==
    /\ \E r \in air : air' = air \ {r}
    /\ UNCHANGED <<core0, outside, state, pcb, dns, requests, setBy>>

ResyncElapses ==
    /\ synced /\ ~due /\ due' = TRUE
    /\ UNCHANGED <<core0, checkDue, creds, link, synced, state, pcb, dns, requests, air, setBy>>

CheckElapses ==
    /\ ~checkDue /\ checkDue' = TRUE
    /\ UNCHANGED <<core0, creds, link>> /\ UNCHANGED_sync

LinkDown ==
    /\ link /\ link' = FALSE
    /\ UNCHANGED <<core0, creds, checkDue>> /\ UNCHANGED_sync

-----------------------------------------------------------------------------
Loop ==
    \/ BootOffline \/ BootConnected
    \/ Console \/ SyncCommand \/ SetWifi
    \/ WifiIdle \/ WifiConnect(TRUE) \/ WifiConnect(FALSE)
    \/ NtpIdle \/ NtpResync

Sync ==
    \/ Open \/ OpenFails \/ Resolve
    \/ LookupInProgress \/ LookupFails \/ LookupCached \/ CachedSent
    \/ Poll \/ PollAgain \/ TimedOut \/ Result \/ Remove

Network ==
    \/ DnsFound \/ DnsFails
    \/ ServerAnswers("good") \/ ServerAnswers("early")
    \/ ReceiveGood \/ ReceiveEarly \/ Drop
    \/ ResyncElapses \/ CheckElapses \/ LinkDown

Next == Loop \/ Sync \/ Network

(* Core 0 keeps running and its timers expire.                               *)
Running ==
    /\ WF_vars(Loop \/ Sync)
    /\ SF_vars(TimedOut)
    /\ WF_vars(CheckElapses)

AnswersLast ==
    ServerAnswers("good") /\ [nonce |-> requests, kind |-> "good"] \in air'

(* A network that is asked again and again succeeds again and again, in time.  *)
NetworkAnswers ==
    /\ SF_vars(WifiConnect(TRUE))
    /\ SF_vars(NtpResync)
    /\ SF_vars(Open)
    /\ SF_vars(LookupInProgress)
    /\ SF_vars(pcb /\ DnsFound)
    /\ SF_vars(AnswersLast)
    /\ SF_vars(ReceiveGood)

Spec == Init /\ [][Next]_vars
FairSpec == Spec /\ Running /\ NetworkAnswers

-----------------------------------------------------------------------------
TypeOK ==
    /\ pc \in Calls \union {"boot", "console", "wifi", "ntp"}
    /\ caller \in Callers
    /\ ok \in BOOLEAN /\ creds \in BOOLEAN /\ link \in BOOLEAN
    /\ checkDue \in BOOLEAN /\ due \in BOOLEAN /\ synced \in BOOLEAN
    /\ state \in NtpState
    /\ pcb \in BOOLEAN
    /\ dns \in 0..MaxDns
    /\ requests \in 0..(MaxDns + 1)
    /\ air \subseteq Replies
    /\ setBy \in 0..(MaxDns + 1)

(* ntp.h:44 "Returns true on success": ntp_sync says TRUE only if the clock    *)
(* was set in this very call, whatever state an earlier call or a late DNS     *)
(* callback left behind.                                                     *)
TrueMeansSet == pc = "remove" /\ ok => setBy # 0

(* Whenever core 0 is outside ntp_sync, its socket is closed: a reply or a DNS *)
(* answer that comes late finds no socket to work on and none is leaked.       *)
ClosedOutside == pc \notin Calls => ~pcb /\ air = {}

(* A call of ntp_sync from the main loop comes to an end, whatever the network   *)
(* does, and the loop, which is what serves the keypad, goes on.  At boot it    *)
(* need not (main.c:44 "Block until first NTP sync succeeds").                 *)
LoopGoesOn == (pc = "open" /\ caller # "boot") ~> (pc = "console")

(* ntp.h:48 "handles periodic resync": a clock that is due gets set again,     *)
(* through lost links, failed lookups, lost replies and timeouts, as long as     *)
(* there are credentials to reconnect with.                                  *)
Resyncs == (synced /\ due) ~> (~due \/ ~creds)

(* wifi.c:75 "ntp_task() schedules resyncs": a lock whose WiFi works for good   *)
(* gets its time, even if WiFi did not work at boot.                          *)
ReconnectSyncs == <>[](creds /\ link) => <>synced
=============================================================================
