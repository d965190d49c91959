---------------------------- MODULE MCDoorVerify ----------------------------
(***************************************************************************)
(* DoorVerify on two key ids and two codes.  The clock states are an unset    *)
(* RTC and two windows whose accepted entries differ in one field each way,   *)
(* so that a torn copy (the id of one attempt, the code of another) can be    *)
(* an accepted entry that nobody typed.                                      *)
(***************************************************************************)
EXTENDS DoorVerify

E(i, c) == [id |-> i, code |-> c]

MCIds == {0, 1}
MCCodes == {0, 1}
MCKeyStates == {<<"enabled", "enabled">>, <<"absent", "enabled">>,
                <<"enabled", "disabled">>, <<"corrupt", "enabled">>}
MCKeyFiles == {[i \in MCIds |-> s[i + 1]] : s \in MCKeyStates}
MCClockStates == {{}, {E(0, 1), E(1, 0)}, {E(1, 1)}}
=============================================================================
