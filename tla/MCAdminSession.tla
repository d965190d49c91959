--------------------------- MODULE MCAdminSession ---------------------------
(***************************************************************************)
(* AdminSession with an idle timeout of two units, a boot bypass of one, and   *)
(* six units of uptime: room for a login, a refresh, an expiry and another   *)
(* login.                                                                    *)
(***************************************************************************)
EXTENDS AdminSession
=============================================================================
