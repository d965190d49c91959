------------------------------ MODULE KeyStore ------------------------------
(***************************************************************************)
(* The files of hslock: src/storage/storage.c on littlefs, the key commands   *)
(* of src/serial/commands_keys.c, the import of src/storage/backup.c and       *)
(* set-wifi.  One file per key under /keys, named by the id, holding a record   *)
(* that carries its own id and a checksum; one file for the WiFi credentials.   *)
(*                                                                           *)
(* Core 0 runs one command at a time, so the commands do not interleave; what  *)
(* interrupts them is power.  Every flash commit littlefs makes is a step of   *)
(* its own, can fail, and can be the last one before a crash.  A command is    *)
(* modelled as the deletes and saves it has still to do: "zero" then "remove"  *)
(* for each delete, "create" then "commit" for each save.                     *)
(***************************************************************************)
EXTENDS Integers, FiniteSets, Sequences

CONSTANTS
    KeyIdMax,     \* KEY_ID_MAX, 127 in the code
    TypedIds,     \* ids an operator may type, some of them out of range
    Names,
    Secrets,      \* what generate_secret may return
    ZeroName, ZeroSecret,   \* the bytes of a zeroed record
    Networks,     \* SSIDs and passwords that fit wifi_config_t
    Backups,      \* blobs an operator may paste, apart from our own export
    (* Do flash errors occur in the calls whose result is not looked at: the   *)
    (* close of a file that was written; in an import, the listing of the old   *)
    (* keys and their removal?                                                 *)
    IgnoredCloses, IgnoredDeletes,
    CorruptTouched \* do operators update records that list-keys shows as bad?

Ids == 0..KeyIdMax

ASSUME KeyIdMaxAssumption == KeyIdMax \in Nat
ASSUME TypedIdsAssumption == TypedIds \subseteq Nat
ASSUME NetworksAssumption == Networks \cap {"absent", "empty"} = {}
ASSUME SwitchAssumption ==
    {IgnoredCloses, IgnoredDeletes, CorruptTouched} \subseteq BOOLEAN

-----------------------------------------------------------------------------
(* Files and records.                                                        *)

AllNames == Names \cup {ZeroName}
AllSecrets == Secrets \cup {ZeroSecret}

(* key_record_stored_t; ok says that its checksum matches its other fields.  *)
Record == [kind: {"record"}, id: Ids, name: AllNames, secret: AllSecrets,
           enabled: BOOLEAN, admin: BOOLEAN, ok: BOOLEAN]

Absent == [kind |-> "absent"]
Empty == [kind |-> "empty"]    \* created, nothing committed to it yet
Zeroed == [kind |-> "record", id |-> 0, name |-> ZeroName,
           secret |-> ZeroSecret, enabled |-> FALSE, admin |-> FALSE,
           ok |-> FALSE]

File == Record \cup {Absent, Empty}

(* backup_key_t; intact stands for the size, magic, version, CRC and name     *)
(* terminator checks of backup_import.                                        *)
BackupKey == [id: Nat, name: AllNames, secret: AllSecrets, enabled: BOOLEAN,
              admin: BOOLEAN]

(* Its keys are a function from positions, natural numbers in reading order.  *)
IsBackup(b) ==
    /\ b.intact \in BOOLEAN
    /\ DOMAIN b.keys \in SUBSET Nat
    /\ \A p \in DOMAIN b.keys : b.keys[p] \in BackupKey

ASSUME BackupsAssumption == \A b \in Backups : IsBackup(b)

VARIABLES
    mounted,   \* storage.c's static flag
    files,     \* what a power cut leaves: the committed contents of /keys
    wifi,      \* and of /wifi: "absent", "empty" or a network
    dels,      \* ids the running command has still to delete
    saves,     \* records it has still to save, by position
    open,      \* the id it is half way through, as a set
    wifiStep,  \* what set-wifi has still to do: "none", "create" or "commit"
    last,      \* the running (or last) command: [kind, id, want]
    reply      \* "none", "busy", "ok" or "error"

disk == <<mounted, files, wifi>>
vars == <<disk, dels, saves, open, wifiStep, last, reply>>

Kinds == {"none", "add", "rename", "set_enabled", "set_admin", "delete",
          "import", "set_wifi"}
NoCommand == [kind |-> "none", id |-> 0, want |-> <<>>]

Init ==
    /\ mounted \in BOOLEAN
    /\ files = [i \in Ids |-> Absent]
    /\ wifi = "absent"
    /\ dels = {} /\ saves = <<>> /\ open = {} /\ wifiStep = "none"
    /\ last = NoCommand
    /\ reply = "none"

Idle == mounted /\ reply # "busy"

(* storage_key_exists: lfs_stat finds the name.                               *)
Exists(i) == files[i] # Absent
(* storage_key_get: a whole record can be read.                               *)
Gettable(i) == files[i].kind = "record"

(* to_stored: the checksum is computed afresh, whatever the record was.       *)
ToStored(r) == [r EXCEPT !.ok = TRUE]

(* A command that passed its checks: what it will delete and save.            *)
Begin(kind, i, d, s) ==
    /\ last' = [kind |-> kind, id |-> i, want |-> s]
    /\ dels' = d
    /\ saves' = s
    /\ open' = {}
    /\ reply' = "busy"
    /\ UNCHANGED <<disk, wifiStep>>

(* A command that was refused: an error message and nothing else.             *)
Refuse(kind, i) ==
    /\ last' = [kind |-> kind, id |-> i, want |-> <<>>]
    /\ reply' = "error"
    /\ UNCHANGED <<disk, dels, saves, open, wifiStep>>

-----------------------------------------------------------------------------
(* The key commands (src/serial/commands_keys.c).                            *)

(* Refused: an id out of range or in use, or a name that is too long.         *)
AddKey == Idle /\ \E i \in TypedIds :
    \/ /\ i <= KeyIdMax /\ ~Exists(i)
       /\ \E n \in Names, s \in Secrets :
            Begin("add", i, {},
                  <<[kind |-> "record", id |-> i, name |-> n, secret |-> s,
                     enabled |-> TRUE, admin |-> FALSE, ok |-> TRUE]>>)
    \/ Refuse("add", i)

(* rename, enable, disable, set-admin and unset-admin read the record, change *)
(* one field and save it under the id the RECORD carries, not the id typed.    *)
(* None of them looks at is_checksum_valid.                                   *)
Touchable(i) == i <= KeyIdMax /\ Gettable(i)
Discipline(i) == i <= KeyIdMax /\ Gettable(i) => CorruptTouched \/ files[i].ok

RenameKey == Idle /\ \E i \in TypedIds :
    /\ Discipline(i)
    /\ \/ \E n \in Names :
            /\ Touchable(i)
            /\ Begin("rename", i, {}, <<ToStored([files[i] EXCEPT !.name = n])>>)
       \/ Refuse("rename", i)     \* no such key, or a name that is too long

(* Mutant: the record to save is built anew instead of read first.          *)
SetEnabledFresh == Idle /\ \E i \in TypedIds, b \in BOOLEAN :
    /\ Discipline(i)
    /\ IF Touchable(i) /\ files[i].enabled # b
       THEN Begin("set_enabled", i, {},
                  <<ToStored([Zeroed EXCEPT !.id = i, !.enabled = b])>>)
       ELSE Refuse("set_enabled", i)

SetEnabled == Idle /\ \E i \in TypedIds, b \in BOOLEAN :
    /\ Discipline(i)
    /\ IF Touchable(i) /\ files[i].enabled # b
       THEN Begin("set_enabled", i, {},
                  <<ToStored([files[i] EXCEPT !.enabled = b])>>)
       ELSE Refuse("set_enabled", i)

SetAdmin == Idle /\ \E i \in TypedIds, b \in BOOLEAN :
    /\ Discipline(i)
    /\ IF Touchable(i) /\ files[i].admin # b
       THEN Begin("set_admin", i, {},
                  <<ToStored([files[i] EXCEPT !.admin = b])>>)
       ELSE Refuse("set_admin", i)

DeleteKey == Idle /\ \E i \in TypedIds :
    IF i <= KeyIdMax /\ Exists(i)
    THEN Begin("delete", i, {i}, <<>>)
    ELSE Refuse("delete", i)

-----------------------------------------------------------------------------
(* Backup (src/storage/backup.c).                                            *)

FromBackup(b) ==
    [kind |-> "record", id |-> b.id, name |-> b.name, secret |-> b.secret,
     enabled |-> b.enabled, admin |-> b.admin, ok |-> TRUE]
ToBackup(r) ==
    [id |-> r.id, name |-> r.name, secret |-> r.secret, enabled |-> r.enabled,
     admin |-> r.admin]

(* storage_key_list: what cannot be read is left out.                         *)
Listed == {i \in Ids : Gettable(i)}

(* Mutant: records with a bad checksum are exported too.                    *)
ExportedAll ==
    [intact |-> TRUE, keys |-> [i \in Listed |-> ToBackup(files[i])]]

(* backup_export: in directory order, without the records whose checksum is   *)
(* bad.                                                                      *)
Exported ==
    [intact |-> TRUE,
     keys |-> [i \in {j \in Listed : files[j].ok} |-> ToBackup(files[i])]]

(* Mutant: a disabled admin key counts.                                     *)
HasAnyAdmin(b) == \E p \in DOMAIN b.keys : b.keys[p].admin

(* The gates of backup_import, all before the first delete.                  *)
HasAdmin(b) == \E k \in DOMAIN b.keys : b.keys[k].enabled /\ b.keys[k].admin

Importable(b) ==
    /\ b.intact
    /\ Cardinality(DOMAIN b.keys) \in 1..(KeyIdMax + 1)
    /\ \A k \in DOMAIN b.keys : b.keys[k].id <= KeyIdMax
    /\ HasAdmin(b)

(* Mutant: the existing keys are not deleted first.                         *)
ImportMerges == Idle /\ \E b \in Backups \cup {Exported} :
    IF Importable(b)
    THEN Begin("import", 0, {},
               [k \in DOMAIN b.keys |-> FromBackup(b.keys[k])])
    ELSE Refuse("import", 0)

(* What is deleted is the id each listed RECORD carries.  storage_key_list may *)
(* fail, or stop early at a directory entry it cannot read: what it has not    *)
(* seen is not deleted, and the import goes on.                               *)
ImportKeys == Idle /\ \E b \in Backups \cup {Exported} :
    IF Importable(b)
    THEN \E seen \in SUBSET Listed :
            /\ IgnoredDeletes \/ seen = Listed
            /\ Begin("import", 0, {files[i].id : i \in seen},
                     [k \in DOMAIN b.keys |-> FromBackup(b.keys[k])])
    ELSE Refuse("import", 0)

-----------------------------------------------------------------------------
(* The flash commits of storage_key_delete and storage_key_save, each with    *)
(* the outcomes littlefs has.                                                *)

Goto(d, s) ==
    /\ dels' = d /\ saves' = s /\ open' = {} /\ wifiStep' = "none"
    /\ reply' = IF d = {} /\ DOMAIN s = {} THEN "ok" ELSE "busy"

(* The save at position p comes next.                                        *)
IsNextSave(p) == dels = {} /\ \A q \in DOMAIN saves : p <= q
Without(p) == [q \in DOMAIN saves \ {p} |-> saves[q]]

Fail ==
    /\ dels' = {} /\ saves' = <<>> /\ open' = {} /\ wifiStep' = "none"
    /\ reply' = "error"

(* storage_key_delete, first half: overwrite with zeros and sync, best        *)
(* effort.  The order of an import's deletes is littlefs's directory order.   *)
Zero == \E i \in dels :
    /\ open = {}
    /\ open' = {i}
    /\ \/ files[i].kind = "record" /\ files' = [files EXCEPT ![i] = Zeroed]
       \/ UNCHANGED files
    /\ UNCHANGED <<mounted, wifi, dels, saves, wifiStep, last, reply>>

(* Second half: lfs_remove; delete-key reports its failure, import does not.  *)
Remove == \E i \in open :
    /\ dels # {}
    /\ \/ /\ Exists(i)
          /\ files' = [files EXCEPT ![i] = Absent]
          /\ Goto(dels \ {i}, saves)
       \/ UNCHANGED files /\ last.kind = "delete" /\ Fail
       \/ /\ IgnoredDeletes \/ ~Exists(i)
          /\ last.kind = "import"
          /\ UNCHANGED files
          /\ Goto(dels \ {i}, saves)
    /\ UNCHANGED <<mounted, wifi, last>>

(* Mutant: the path is built from the id that was typed.                    *)
CreateAtTypedId == \E p \in DOMAIN saves :
    /\ IsNextSave(p) /\ open = {}
    /\ LET i == last.id IN
       \/ /\ open' = {i}
          /\ files' = [files EXCEPT ![i] = IF Exists(i) THEN @ ELSE Empty]
          /\ UNCHANGED <<dels, saves, wifiStep, reply>>
       \/ Fail /\ UNCHANGED files
    /\ UNCHANGED <<mounted, wifi, last>>

(* Mutant: the old record is unlinked before the new one is written.        *)
CreateUnlinks == \E p \in DOMAIN saves :
    /\ IsNextSave(p) /\ open = {}
    /\ LET i == saves[p].id IN
       \/ /\ open' = {i}
          /\ files' = [files EXCEPT ![i] = Empty]
          /\ UNCHANGED <<dels, saves, wifiStep, reply>>
       \/ Fail /\ UNCHANGED files
    /\ UNCHANGED <<mounted, wifi, last>>

(* storage_key_save, first half: lfs_file_opencfg with O_CREAT | O_TRUNC      *)
(* commits an empty file where there was none, and leaves an existing one.     *)
Create == \E p \in DOMAIN saves :
    /\ IsNextSave(p) /\ open = {}
    /\ LET i == saves[p].id IN
       \/ /\ open' = {i}
          /\ files' = [files EXCEPT ![i] = IF Exists(i) THEN @ ELSE Empty]
          /\ UNCHANGED <<dels, saves, wifiStep, reply>>
       \/ Fail /\ UNCHANGED files
    /\ UNCHANGED <<mounted, wifi, last>>

(* Second half: write and close.  A failed write is reported; the result of   *)
(* lfs_file_close, which is what commits the data, is not looked at.           *)
Commit == \E p \in DOMAIN saves, i \in open :
    /\ IsNextSave(p)
    /\ \/ files' = [files EXCEPT ![i] = saves[p]] /\ Goto({}, Without(p))
       \/ UNCHANGED files /\ Fail
       \/ IgnoredCloses /\ UNCHANGED files /\ Goto({}, Without(p))
    /\ UNCHANGED <<mounted, wifi, last>>

-----------------------------------------------------------------------------
(* cmd_set_wifi up to the answer of storage_wifi_set; what follows is the       *)
(* network's.  An SSID or a password that is too long is refused.             *)

SetWifi == Idle /\
    \/ \E w \in Networks :
         /\ last' = [kind |-> "set_wifi", id |-> 0, want |-> <<w>>]
         /\ wifiStep' = "create" /\ reply' = "busy"
         /\ UNCHANGED <<disk, dels, saves, open>>
    \/ Refuse("set_wifi", 0)

(* Mutant: the old file is unlinked before the new one is written.          *)
WifiCreateUnlinks ==
    /\ wifiStep = "create"
    /\ \/ /\ wifiStep' = "commit"
          /\ wifi' = "empty"
          /\ UNCHANGED <<dels, saves, open, reply>>
       \/ Fail /\ UNCHANGED wifi
    /\ UNCHANGED <<mounted, files, last>>

(* storage_wifi_set, in the same two halves as storage_key_save.              *)
WifiCreate ==
    /\ wifiStep = "create"
    /\ \/ /\ wifiStep' = "commit"
          /\ wifi' = IF wifi = "absent" THEN "empty" ELSE wifi
          /\ UNCHANGED <<dels, saves, open, reply>>
       \/ Fail /\ UNCHANGED wifi
    /\ UNCHANGED <<mounted, files, last>>

WifiCommit ==
    /\ wifiStep = "commit"
    /\ \/ wifi' = last.want[1] /\ Goto({}, <<>>)
       \/ UNCHANGED wifi /\ Fail
       \/ IgnoredCloses /\ UNCHANGED wifi /\ Goto({}, <<>>)
    /\ UNCHANGED <<mounted, files, last>>

-----------------------------------------------------------------------------
(* Power cuts, resets, damage.                                               *)

Forget ==
    /\ dels' = {} /\ saves' = <<>> /\ open' = {} /\ wifiStep' = "none"
    /\ last' = NoCommand /\ reply' = "none"

(* A crash, and the mount of the next boot, which may fail.                   *)
Crash == Forget /\ mounted' \in BOOLEAN /\ UNCHANGED <<files, wifi>>

(* A record stops matching its checksum; its id may be what has changed.  (An  *)
(* id out of range, which storage_key_save refuses and no file is named by,   *)
(* is left out.)                                                             *)
Corrupt == \E i, j \in Ids :
    /\ reply # "busy"
    /\ Gettable(i)
    /\ files' = [files EXCEPT ![i] = [@ EXCEPT !.ok = FALSE, !.id = j]]
    /\ Forget
    /\ UNCHANGED <<mounted, wifi>>

(* storage_format, only while unmounted; if it fails nothing is mounted.      *)
Format ==
    /\ ~mounted
    /\ files' = [i \in Ids |-> Absent] /\ wifi' = "absent"
    /\ mounted' \in BOOLEAN
    /\ Forget

Next ==
    \/ AddKey \/ RenameKey \/ SetEnabled \/ SetAdmin \/ DeleteKey \/ ImportKeys
    \/ Zero \/ Remove \/ Create \/ Commit
    \/ SetWifi \/ WifiCreate \/ WifiCommit
    \/ Crash \/ Corrupt \/ Format

Spec == Init /\ [][Next]_vars

-----------------------------------------------------------------------------
(* What login and the keypad can use: a readable record with a good checksum. *)
Usable(i) ==
    IF files[i].kind = "record" /\ files[i].ok
    THEN [name |-> files[i].name, secret |-> files[i].secret,
          enabled |-> files[i].enabled, admin |-> files[i].admin]
    ELSE Absent

(* What a list of records (or backup keys) stores under id i: the last one     *)
(* with that id.                                                             *)
Stores(list, i) ==
    LET at == {p \in DOMAIN list : list[p].id = i} IN
    IF at = {} THEN Absent
    ELSE LET r == list[CHOOSE p \in at : \A q \in at : q <= p]
         IN  [name |-> r.name, secret |-> r.secret, enabled |-> r.enabled,
              admin |-> r.admin]

(* cmd_login's any_admin. *)
AnyAdmin == \E i \in Ids : Usable(i) # Absent /\ files[i].enabled /\ files[i].admin

TypeOK ==
    /\ mounted \in BOOLEAN
    /\ files \in [Ids -> File]
    /\ dels \in SUBSET Ids
    /\ DOMAIN saves \in SUBSET Nat
    /\ \A p \in DOMAIN saves : saves[p] \in Record
    /\ open \in SUBSET Ids
    /\ wifi \in Networks \cup {"absent", "empty"}
    /\ wifiStep \in {"none", "create", "commit"}
    /\ last.kind \in Kinds /\ last.id \in Nat
    /\ reply \in {"none", "busy", "ok", "error"}

(* A record with a good checksum sits in the file of its own id: the key       *)
(* commands save by the id in the record, import deletes by it, and both are    *)
(* right only because of this.                                               *)
IdsMatch == \A i \in Ids : files[i].kind = "record" /\ files[i].ok
                              => files[i].id = i

(* Where a command stands between two flash commits.                         *)
Progress ==
    /\ \A p \in DOMAIN saves : saves[p].ok
    /\ reply = "busy" <=> (dels # {} \/ DOMAIN saves # {} \/ wifiStep # "none")
    /\ wifiStep # "none" => /\ dels = {} /\ DOMAIN saves = {}
                            /\ last.kind = "set_wifi" /\ last.want[1] \in Networks
    /\ reply # "busy" => open = {}
    /\ open # {} => \/ \E i \in dels : open = {i}
                    \/ \E p \in DOMAIN saves :
                            IsNextSave(p) /\ open = {saves[p].id}

StoreInv == TypeOK /\ IdsMatch /\ Progress

(* A command that reported success did what it reported: the record it saved   *)
(* is in its file, the key it deleted has no file, the network it set is the    *)
(* one stored, and after an import the usable keys are those of the backup, no  *)
(* more and no fewer.                                                        *)
ReplyIsTrue ==
    reply = "ok" =>
        CASE last.kind = "delete" -> files[last.id] = Absent
          [] last.kind = "import" -> \A i \in Ids : Usable(i) = Stores(last.want, i)
          [] last.kind = "set_wifi" -> wifi = last.want[1]
          [] OTHER -> files[last.id] = last.want[1]

(* The gate of backup_import (backup.c:171) looks at each record on its own,    *)
(* but of records that share an id only the last one stays.  What it ensures:   *)
(* a completed import leaves an enabled admin key, so that login does not fall  *)
(* back to bootstrap mode, unless every admin record the gate counted is        *)
(* overwritten by a later record of its own id.                                *)
Counted == {p \in DOMAIN last.want : last.want[p].enabled /\ last.want[p].admin}
Overwritten(p) ==
    \E q \in DOMAIN last.want : p < q /\ last.want[q].id = last.want[p].id

ImportLeavesAdmin ==
    reply = "ok" /\ last.kind = "import" =>
        AnyAdmin \/ (Counted # {} /\ \A p \in Counted : Overwritten(p))

(* An export holds every usable key and nothing else, whatever is lying in     *)
(* /keys besides: empty files, zeroed and corrupt records.                    *)
ExportComplete ==
    mounted => \A i \in Ids : Usable(i) = Stores(Exported.keys, i)

(* "rename-key: Update key label without touching the secret" (COMMANDS.md):    *)
(* a command that updates a key never loses or changes the secret of any id.   *)
UpdateKeepsSecrets ==
    [][last'.kind \in {"rename", "set_enabled", "set_admin"}
         => \A i \in Ids :
                Usable(i) # Absent => /\ Usable(i)' # Absent
                                      /\ files'[i].secret = files[i].secret]_vars

(* Credentials once stored are there until a format: no set-wifi that fails or   *)
(* loses power, and no other command, leaves the lock without any.  While        *)
(* storage_wifi_get fails, login grants admin mode to anyone                   *)
(* (commands_system.c:156).                                                  *)
Configured == wifi \in Networks

StaysConfigured == [][mounted /\ Configured => Configured']_vars

KM == INSTANCE KeyMap WITH
          Ids <- Ids, None <- Absent,
          Keys <- [name: AllNames, secret: AllSecrets, enabled: BOOLEAN,
                   admin: BOOLEAN],
          map <- [i \in Ids |-> Usable(i)],
          job <- [kind |-> last.kind, id |-> last.id]

(* With power cuts and flash errors at every commit, the files still behave as *)
(* a map of keys on which single-key commands act all at once and on their own *)
(* id alone.                                                                 *)
ImplementsKeyMap == KM!Spec
=============================================================================
