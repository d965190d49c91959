--------------------------- MODULE MCKeypadEntry ---------------------------
(***************************************************************************)
(* KeypadEntry on a keypad of two digits, "*" and "#", in the order in which  *)
(* KEY_MAP has them; codes of one digit, ids of one or two.                   *)
(***************************************************************************)
EXTENDS KeypadEntry

MCKeyMap == <<"1", "*", "0", "#">>
MCDigitValue == [k \in {"0", "1"} |-> IF k = "0" THEN 0 ELSE 1]
=============================================================================
