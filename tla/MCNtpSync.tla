------------------------------ MODULE MCNtpSync ------------------------------
(***************************************************************************)
(* NtpSync with room for one DNS query beyond the one of the running call: a   *)
(* call that follows a timeout finds the table full or the name cached while    *)
(* the callback of the earlier query is still to come.                         *)
(***************************************************************************)
EXTENDS NtpSync
=============================================================================
