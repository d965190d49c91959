-------------------------- MODULE AdminSessionProofs --------------------------
(***************************************************************************)
(* The two invariants of AdminSession, for any timeouts and either build.     *)
(***************************************************************************)
EXTENDS AdminSession, TLAPS

(* Where the session state and its history agree: admin_mode is on only in a   *)
(* session that a login opened, its deadline is then always armed and counts    *)
(* from the last activity, and a handler that needs the session was let in      *)
(* before that deadline.                                                      *)
SessionHeld ==
    /\ mode => opened /\ wasConnected /\ deadline = active + IdleTimeout
    /\ running # "none" => wasConnected
    /\ running \in AdminCommands =>
           mode /\ started < active + IdleTimeout

SessionInv == FlagsOK /\ CountsOK /\ SessionHeld

USE DEF AdminCommands, AlwaysAllowed, Commands

(* At boot nobody is logged in and no guess has been made. *)
LEMMA InitSession == Init => SessionInv
<1> SUFFICES ASSUME Init PROVE SessionInv
  OBVIOUS
<1> USE SessionAssumption DEF Init, BootState
<1>1. FlagsOK
  BY DEF FlagsOK
<1>2. CountsOK
  BY DEF CountsOK
<1>3. SessionHeld
  BY DEF SessionHeld
<1> QED
  BY <1>1, <1>2, <1>3 DEF SessionInv

(* A step keeps both halves; only a handler that returns moves the deadline.   *)
LEMMA StepSession == SessionInv /\ [Next]_vars => SessionInv'
<1> SUFFICES ASSUME SessionInv, [Next]_vars PROVE SessionInv'
  OBVIOUS
<1> USE SessionAssumption DEF SessionInv, FlagsOK, CountsOK, SessionHeld, session, console,
      job, world, history
<1>0. now + IdleTimeout \in Nat
  BY DEF CountsOK
<1>1. CASE Disconnect
  BY <1>1 DEF Disconnect, Connected, End
<1>2. ASSUME NEW c \in Commands, Refuse(c) PROVE SessionInv'
  BY <1>2 DEF Refuse, Line, Connected
<1>3. ASSUME NEW c \in Commands, Expire(c) PROVE SessionInv'
  BY <1>3 DEF Expire, Line, End, Connected, Expired
<1>4. ASSUME NEW c \in Commands, Dispatch(c) PROVE SessionInv'
  <2>1. c \in AdminCommands => now < active + IdleTimeout /\ mode
    BY <1>4 DEF Dispatch, Expired
  <2>2. FlagsOK'
    BY <1>4 DEF Dispatch, Line
  <2>3. CountsOK'
    BY <1>4 DEF Dispatch, Line
  <2>4. SessionHeld'
    BY <1>4, <2>1 DEF Dispatch, Line
  <2> QED
    BY <2>2, <2>3, <2>4
<1>5. ASSUME NEW v \in BOOLEAN, LoginDone(v) PROVE SessionInv'
  <2>1. CASE LoginOpens(v)
    <3> USE <1>5, <2>1 DEF LoginDone, Return, Grant
    <3>1. FlagsOK'
      OBVIOUS
    <3>2. CountsOK'
      BY <1>0
    <3>3. SessionHeld'
      OBVIOUS
    <3> QED
      BY <3>1, <3>2, <3>3
  <2>2. CASE ~LoginOpens(v)
    BY <1>5, <2>2 DEF LoginDone, Return
  <2> QED
    BY <2>1, <2>2
<1>6. CASE LogoutDone
  BY <1>6 DEF LogoutDone, Return, End
<1>7. CASE AdminDone
  <2> USE <1>7 DEF AdminDone, Return, Grant
  <2>1. FlagsOK'
    OBVIOUS
  <2>2. CountsOK'
    BY <1>0
  <2>3. SessionHeld'
    OBVIOUS
  <2> QED
    BY <2>1, <2>2, <2>3
<1>8. CASE PublicDone
  BY <1>8 DEF PublicDone, Return
<1>9. CASE Plug
  BY <1>9 DEF Plug
<1>10. CASE Tick
  BY <1>10 DEF Tick
<1>11. CASE ClockIsSet
  BY <1>11 DEF ClockIsSet
<1>12. CASE Reset
  <2>1. FlagsOK'
    BY <1>12 DEF Reset
  <2>2. CountsOK'
    BY <1>12 DEF Reset
  <2>3. SessionHeld'
    BY <1>12 DEF Reset
  <2> QED
    BY <2>1, <2>2, <2>3
<1>13. CASE UNCHANGED vars
  BY <1>13 DEF vars
<1> QED
  BY <1>1, <1>2, <1>3, <1>4, <1>5, <1>6, <1>7, <1>8, <1>9, <1>10, <1>11,
     <1>12, <1>13 DEF Next

(* The strengthened invariant holds in every reachable state. *)
LEMMA SessionInvariant == Spec => []SessionInv
  BY InitSession, StepSession, PTL DEF Spec

(* An admin command is honoured only in a session that is open and was used     *)
(* within the idle timeout.                                                  *)
THEOREM HonouredFresh == Spec => []HonouredIsFresh
<1>1. SessionInv => HonouredIsFresh
  BY DEF SessionInv, SessionHeld, HonouredIsFresh
<1> QED
  BY <1>1, SessionInvariant, PTL

(* Without a terminal there is no session.                                   *)
THEOREM DetachedClosed == Spec => []ClosedWhenDetached
<1>1. SessionInv => ClosedWhenDetached
  BY DEF SessionInv, SessionHeld, ClosedWhenDetached
<1> QED
  BY <1>1, SessionInvariant, PTL
=============================================================================
