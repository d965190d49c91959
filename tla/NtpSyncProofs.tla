---------------------------- MODULE NtpSyncProofs ----------------------------
(***************************************************************************)
(* For every size of lwIP's DNS table: ntp_sync only reports what it did and   *)
(* its socket does not outlive it, whatever late DNS callbacks do.             *)
(***************************************************************************)
EXTENDS NtpSync, TLAPS

USE DnsAssumption DEF DnsAssumption, core0, timers, vars, outside, UNCHANGED_sync,
    Callers, NtpState, Requests, Replies, Calls

(* Where the socket is open; what reached SUCCESS in this call, set the clock   *)
(* in this call; and how many requests the pending DNS callbacks can send.     *)
Opened == Calls \ {"open"}

SocketInv ==
    /\ pcb <=> pc \in Opened
    /\ ~pcb => requests = 0 /\ air = {} /\ setBy = 0
    /\ pc \in Calls => caller # "none"

ResultInv ==
    /\ pc \in {"lookup", "cached", "poll", "slept", "result"} /\ state = "SUCCESS"
          => setBy # 0
    /\ pc = "remove" /\ ok => setBy # 0

RequestsInv ==
    /\ pc \in {"resolve", "lookup"} => requests + dns <= MaxDns
    /\ requests + dns <= MaxDns + 1

SyncInv == TypeOK /\ SocketInv /\ ResultInv /\ RequestsInv

(* At boot no request is out and no callback is due. *)
LEMMA InitSync == Init => SyncInv
<1> SUFFICES ASSUME Init PROVE SyncInv
  OBVIOUS
<1>a. /\ ok \in BOOLEAN /\ creds \in BOOLEAN /\ link \in BOOLEAN /\ pcb \in BOOLEAN
      /\ checkDue \in BOOLEAN /\ due \in BOOLEAN /\ synced \in BOOLEAN
  BY Zenon DEF Init
<1>1. TypeOK
  BY <1>a DEF Init, TypeOK
<1>2. SocketInv /\ ResultInv /\ RequestsInv
  BY DEF Init, SocketInv, ResultInv, RequestsInv, Opened
<1> QED
  BY <1>1, <1>2 DEF SyncInv

(* Every call, callback and timeout keeps the invariant of the synchronisation. *)
LEMMA StepSync == SyncInv /\ [Next]_vars => SyncInv'
<1> SUFFICES ASSUME SyncInv, [Next]_vars PROVE SyncInv'
  OBVIOUS
<1> USE DEF SyncInv, SocketInv, ResultInv, RequestsInv, TypeOK, Opened
<1>1. CASE BootOffline
  BY <1>1 DEF BootOffline, Goto
<1>2. CASE BootConnected
  BY <1>2 DEF BootConnected, CallSync
<1>3. CASE Console
  BY <1>3 DEF Console, Goto
<1>4. CASE SyncCommand
  BY <1>4 DEF SyncCommand, CallSync
<1>5. CASE SetWifi
  <2>a. creds' \in BOOLEAN /\ link' \in BOOLEAN
    BY <1>5, Zenon DEF SetWifi
  <2>1. TypeOK'
    BY <1>5, <2>a DEF SetWifi, Goto, CallSync
  <2>2. SocketInv' /\ ResultInv'
    BY <1>5 DEF SetWifi, Goto, CallSync
  <2>3. RequestsInv'
    BY <1>5 DEF SetWifi, Goto, CallSync
  <2> QED
    BY <2>1, <2>2, <2>3
<1>6. CASE WifiIdle
  BY <1>6 DEF WifiIdle, Goto
<1>7. CASE WifiConnect(TRUE) \/ WifiConnect(FALSE)
  <2>1. TypeOK'
    BY <1>7 DEF WifiConnect, Goto
  <2>2. SocketInv'
    BY <1>7 DEF WifiConnect, Goto
  <2>3. ResultInv'
    BY <1>7 DEF WifiConnect, Goto
  <2>4. RequestsInv'
    BY <1>7 DEF WifiConnect, Goto
  <2> QED
    BY <2>1, <2>2, <2>3, <2>4
<1>8. CASE NtpIdle
  BY <1>8 DEF NtpIdle, Goto
<1>9. CASE NtpResync
  BY <1>9 DEF NtpResync, CallSync
<1>10. CASE Open
  BY <1>10 DEF Open, Goto
<1>11. CASE OpenFails
  BY <1>11 DEF OpenFails, ClosePcb, Return
<1>12. CASE Resolve
  BY <1>12 DEF Resolve, Goto
<1>13. CASE LookupInProgress
  BY <1>13 DEF LookupInProgress, Goto
<1>14. CASE LookupFails
  <2>a. ok' \in BOOLEAN /\ pcb' \in BOOLEAN
    BY <1>14, Zenon DEF LookupFails, ClosePcb, Return
  <2>1. TypeOK'
    BY <1>14, <2>a DEF LookupFails, ClosePcb, Return
  <2>2. SocketInv'
    BY <1>14 DEF LookupFails, ClosePcb, Return
  <2>3. ResultInv'
    BY <1>14 DEF LookupFails, ClosePcb, Return
  <2>4. RequestsInv'
    BY <1>14 DEF LookupFails, ClosePcb, Return
  <2> QED
    BY <2>1, <2>2, <2>3, <2>4
<1>15. CASE LookupCached
  BY <1>15 DEF LookupCached, Goto
<1>16. CASE CachedSent
  BY <1>16 DEF CachedSent, Goto
<1>17. CASE Poll
  BY <1>17 DEF Poll, Goto
<1>18. CASE PollAgain
  BY <1>18 DEF PollAgain, Goto
<1>19. CASE TimedOut
  <2>a. ok' \in BOOLEAN /\ pcb' \in BOOLEAN
    BY <1>19, Zenon DEF TimedOut, ClosePcb, Return
  <2>1. TypeOK'
    BY <1>19, <2>a DEF TimedOut, ClosePcb, Return
  <2>2. SocketInv'
    BY <1>19 DEF TimedOut, ClosePcb, Return
  <2>3. ResultInv'
    BY <1>19 DEF TimedOut, ClosePcb, Return
  <2>4. RequestsInv'
    BY <1>19 DEF TimedOut, ClosePcb, Return
  <2> QED
    BY <2>1, <2>2, <2>3, <2>4
<1>20. CASE Result
  BY <1>20 DEF Result
<1>21. CASE Remove
  <2>a. ok' \in BOOLEAN /\ pcb' \in BOOLEAN
    BY <1>21, Zenon DEF Remove, ClosePcb, Return
  <2>1. TypeOK'
    BY <1>21, <2>a DEF Remove, ClosePcb, Return
  <2>2. SocketInv'
    BY <1>21 DEF Remove, ClosePcb, Return
  <2>3. ResultInv'
    BY <1>21 DEF Remove, ClosePcb, Return
  <2>4. RequestsInv'
    BY <1>21 DEF Remove, ClosePcb, Return
  <2> QED
    BY <2>1, <2>2, <2>3, <2>4
<1>22. CASE DnsFound
  BY <1>22 DEF DnsFound
<1>23. CASE DnsFails
  BY <1>23 DEF DnsFails
<1>24. CASE ServerAnswers("good") \/ ServerAnswers("early")
  BY <1>24 DEF ServerAnswers
<1>25. CASE ReceiveGood
  <2>1. TypeOK'
    BY <1>25 DEF ReceiveGood, Deliver, SetClock
  <2>2. SocketInv'
    BY <1>25 DEF ReceiveGood, Deliver, SetClock
  <2>3. ResultInv'
    BY <1>25 DEF ReceiveGood, Deliver, SetClock
  <2>4. RequestsInv'
    BY <1>25 DEF ReceiveGood, Deliver, SetClock
  <2> QED
    BY <2>1, <2>2, <2>3, <2>4
<1>26. CASE ReceiveEarly
  BY <1>26 DEF ReceiveEarly, Deliver
<1>27. CASE Drop
  BY <1>27 DEF Drop
<1>28. CASE ResyncElapses
  BY <1>28 DEF ResyncElapses
<1>29. CASE CheckElapses
  BY <1>29 DEF CheckElapses
<1>30. CASE LinkDown
  <2>a. link' \in BOOLEAN
    BY <1>30, Zenon DEF LinkDown
  <2>1. TypeOK'
    BY <1>30, <2>a DEF LinkDown
  <2>2. SocketInv'
    BY <1>30 DEF LinkDown
  <2>3. ResultInv'
    BY <1>30 DEF LinkDown
  <2>4. RequestsInv'
    BY <1>30 DEF LinkDown
  <2> QED
    BY <2>1, <2>2, <2>3, <2>4
<1>31. CASE UNCHANGED vars
  BY <1>31
<1> QED
  BY <1>1, <1>2, <1>3, <1>4, <1>5, <1>6, <1>7, <1>8, <1>9, <1>10, <1>11, <1>12,
     <1>13, <1>14, <1>15, <1>16, <1>17, <1>18, <1>19, <1>20, <1>21, <1>22, <1>23,
     <1>24, <1>25, <1>26, <1>27, <1>28, <1>29, <1>30, <1>31
  DEF Next, Loop, Sync, Network

(* The strengthened invariant holds in every reachable state. *)
LEMMA SyncInvariant == Spec => []SyncInv
<1> QED
  BY InitSync, StepSync, PTL DEF Spec

(* ntp.c:280 - TRUE is returned only by a call that set the clock.             *)
THEOREM TrueIsSet == Spec => []TrueMeansSet
<1>1. SyncInv => TrueMeansSet
  BY DEF SyncInv, ResultInv, TrueMeansSet
<1> QED
  BY <1>1, SyncInvariant, PTL

(* ntp.c:274, 283 - every way out of ntp_sync closes its socket.               *)
THEOREM SocketClosed == Spec => []ClosedOutside
<1>1. SyncInv => ClosedOutside
  BY DEF SyncInv, SocketInv, ClosedOutside, Opened
<1> QED
  BY <1>1, SyncInvariant, PTL
=============================================================================
