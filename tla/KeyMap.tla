------------------------------- MODULE KeyMap -------------------------------
(***************************************************************************)
(* What the key database promises: a map from key ids to keys.  A key        *)
(* command names one id, takes effect on that id alone and all at once, even *)
(* when power fails inside it; an update changes the one field it is named    *)
(* for; a key that was deleted comes back only by add-key or import-keys.     *)
(* import-keys is the exception the code makes (ISSUES.md M6): it is a series *)
(* of single-key effects, and a power cut can leave it between two of them.   *)
(***************************************************************************)

CONSTANTS
    Ids,   \* key ids in range
    Keys,  \* records [name, secret, enabled, admin]
    None   \* "no usable key under this id"

VARIABLES
    map,   \* [Ids -> Keys \cup {None}]
    job    \* the command in progress: [kind, id, key]

vars == <<map, job>>

Init == map \in [Ids -> Keys \cup {None}] /\ job.kind = "none"

(* A command starts, ends or is cut short: the map does not change.          *)
ChangeJob == UNCHANGED map /\ job' # job

(* The fields an update command may change.                                  *)
Updated(kind, old, new) ==
    \/ kind = "rename" /\ new = [old EXCEPT !.name = new.name]
    \/ kind = "set_enabled" /\ new = [old EXCEPT !.enabled = new.enabled]
    \/ kind = "set_admin" /\ new = [old EXCEPT !.admin = new.admin]

Add == /\ job.kind = "add" /\ job.id \in Ids
       /\ map[job.id] = None
       /\ \E k \in Keys : map' = [map EXCEPT ![job.id] = k]
       /\ UNCHANGED job

Update == /\ job.id \in Ids /\ map[job.id] # None
          /\ \E k \in Keys : /\ Updated(job.kind, map[job.id], k)
                             /\ map' = [map EXCEPT ![job.id] = k]
          /\ UNCHANGED job

Delete == /\ job.kind = "delete" /\ job.id \in Ids
          /\ map' = [map EXCEPT ![job.id] = None]
          /\ UNCHANGED job

(* One step of an import: drop one key, or store one. *)
ImportOne == /\ job.kind = "import"
             /\ \E i \in Ids, k \in Keys \cup {None} :
                    map' = [map EXCEPT ![i] = k]
             /\ UNCHANGED job

(* Between commands a record can rot and stop being usable; a format empties *)
(* the whole map.                                                            *)
Rot == /\ job'.kind = "none"
       /\ \E i \in Ids : map' = [map EXCEPT ![i] = None]

Format == map' = [i \in Ids |-> None] /\ job'.kind = "none"

Next == ChangeJob \/ Add \/ Update \/ Delete \/ ImportOne \/ Rot \/ Format

Spec == Init /\ [][Next]_vars
=============================================================================
