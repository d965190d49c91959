---------------------------- MODULE MCLockTiming ----------------------------
(***************************************************************************)
(* LockTiming with durations scaled down in the order of the real ones.       *)
(***************************************************************************)
EXTENDS LockTiming
=============================================================================
