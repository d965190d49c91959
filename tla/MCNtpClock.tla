----------------------------- MODULE MCNtpClock -----------------------------
(***************************************************************************)
(* NtpClock with every constant scaled down, in the code's order: an epsilon   *)
(* (2 s) shorter than a TOTP step (3 s), a budget (5 s) longer than the        *)
(* epsilon, a forward cap of 3 s, a band of 9 s and 7 s of uptime.             *)
(***************************************************************************)
EXTENDS NtpClock
=============================================================================
