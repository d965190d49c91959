--------------------------- MODULE KeyStoreProofs ---------------------------
(***************************************************************************)
(* Proofs about KeyStore for every number of ids, all names and secrets, and  *)
(* all backups.  StoreInv says what the files are at any time, CommandInv     *)
(* what the command under way has made of them so far; what the commands      *)
(* promise, and that the files are a map of keys, follows from the two.       *)
(* Nothing is assumed of the flash errors the code ignores (IgnoredCloses,     *)
(* IgnoredDeletes) or of operators who touch corrupt records (CorruptTouched), *)
(* except where a theorem says so: without that assumption it would be false. *)
(***************************************************************************)
EXTENDS KeyStore, TLAPS

(* Bytes taken from a backup or computed afresh make a good record.            *)
LEMMA GoodRecords ==
    /\ \A b \in BackupKey : b.id <= KeyIdMax =>
           FromBackup(b) \in Record /\ FromBackup(b).ok
    /\ \A r \in Record : ToBackup(r) \in BackupKey /\ ToBackup(r).id = r.id
    /\ Zeroed \in Record /\ ~Zeroed.ok
<1>. USE KeyIdMaxAssumption
<1>1. \A b \in BackupKey : b.id <= KeyIdMax =>
           FromBackup(b) \in Record /\ FromBackup(b).ok
  BY DEF BackupKey, Record, FromBackup, Ids
<1>2. \A r \in Record : ToBackup(r) \in BackupKey /\ ToBackup(r).id = r.id
  BY DEF BackupKey, Record, ToBackup, Ids
<1>3. Zeroed \in Record /\ ~Zeroed.ok
  BY DEF Record, Zeroed, Ids, AllNames, AllSecrets
<1>. QED BY <1>1, <1>2, <1>3

(* Which file kinds there are.                                                *)
LEMMA FileKinds ==
    /\ Absent \in File /\ Empty \in File /\ Zeroed \in File
    /\ Absent.kind # "record" /\ Empty.kind # "record"
    /\ \A f \in File : f.kind = "record" => f \in Record
BY GoodRecords DEF File, Absent, Empty, Record

(* Damage is found between commands, and none is under way afterwards.         *)
LEMMA CorruptForgets == Corrupt => last' = NoCommand /\ reply' = "none"
<1>1. Corrupt => Forget
  BY Zenon DEF Corrupt
<1>. QED BY <1>1 DEF Forget

(* An export is a backup that can be imported again, gates apart.             *)
LEMMA ExportIsBackup == StoreInv => IsBackup(Exported)
<1>. SUFFICES ASSUME StoreInv PROVE IsBackup(Exported)
  OBVIOUS
<1>1. \A i \in Listed : files[i] \in Record
  BY FileKinds DEF StoreInv, TypeOK, Listed, Gettable
<1>2. \A i \in Listed : ToBackup(files[i]) \in BackupKey
  BY <1>1, GoodRecords
<1>3. Listed \subseteq Nat
  BY KeyIdMaxAssumption DEF Listed, Ids
<1>. QED BY <1>2, <1>3 DEF Exported, IsBackup

(* At boot no key has a file and no command has begun. *)
LEMMA InitStore == Init => StoreInv
<1>. SUFFICES ASSUME Init PROVE StoreInv
  OBVIOUS
<1>1. DOMAIN saves = {}
  BY DEF Init
<1>2. TypeOK
  BY <1>1, FileKinds DEF Init, TypeOK, NoCommand, Kinds
<1>3. IdsMatch
  BY FileKinds DEF Init, IdsMatch
<1>4. Progress
  BY <1>1 DEF Init, Progress
<1>. QED BY <1>2, <1>3, <1>4 DEF StoreInv

(* A command that begins: all that is left to show is that what it will save   *)
(* are good records with ids in range.                                        *)
LEMMA BeginStore ==
    ASSUME StoreInv, Idle,
           NEW kind \in Kinds, NEW i \in Nat, NEW d \in SUBSET Ids, NEW s,
           DOMAIN s \in SUBSET Nat,
           \A p \in DOMAIN s : s[p] \in Record /\ s[p].ok,
           d # {} \/ DOMAIN s # {},
           Begin(kind, i, d, s)
    PROVE  StoreInv'
<1>0. wifiStep = "none"
  BY DEF Idle, StoreInv, Progress
<1>1. TypeOK'
  BY DEF Begin, StoreInv, TypeOK, disk
<1>2. IdsMatch' /\ Progress'
  BY <1>0 DEF Begin, StoreInv, IdsMatch, Progress, disk
<1>. QED BY <1>1, <1>2 DEF StoreInv

(* A refused command touches no file, so it keeps the invariant of the store. *)
LEMMA RefuseStore ==
    ASSUME StoreInv, Idle, NEW kind \in Kinds, NEW i \in Nat, Refuse(kind, i)
    PROVE  StoreInv'
<1>1. TypeOK'
  BY DEF Refuse, StoreInv, TypeOK, disk
<1>2. IdsMatch' /\ Progress'
  BY DEF Refuse, Idle, StoreInv, IdsMatch, Progress, IsNextSave, disk
<1>. QED BY <1>1, <1>2 DEF StoreInv

(* Commands that save one record: it is good because the checksum is new.      *)
LEMMA OneSave ==
    ASSUME StoreInv, Idle, NEW kind \in Kinds, NEW i \in Nat,
           NEW r \in Record, r.ok, Begin(kind, i, {}, <<r>>)
    PROVE  StoreInv'
<1>1. DOMAIN <<r>> = {1} /\ <<r>>[1] = r
  OBVIOUS
<1>. QED BY <1>1, BeginStore

(* Every command, step of a save or delete, crash, corrupted record and format keeps the
   store invariant. *)
LEMMA StepStore == StoreInv /\ [Next]_vars => StoreInv'
<1>. SUFFICES ASSUME StoreInv, [Next]_vars
              PROVE  StoreInv'
  OBVIOUS
<1>a. TypeOK /\ IdsMatch /\ Progress
  BY DEF StoreInv
<1>b. \A i \in Ids : files[i] \in File
  BY <1>a DEF TypeOK
<1>1. CASE AddKey
  <2>1. PICK i \in TypedIds :
          \/ /\ i <= KeyIdMax /\ ~Exists(i)
             /\ \E n \in Names, s \in Secrets :
                  Begin("add", i, {},
                        <<[kind |-> "record", id |-> i, name |-> n, secret |-> s,
                           enabled |-> TRUE, admin |-> FALSE, ok |-> TRUE]>>)
          \/ Refuse("add", i)
    BY <1>1 DEF AddKey
  <2>2. i \in Nat /\ Idle /\ "add" \in Kinds
    BY <1>1, TypedIdsAssumption DEF AddKey, Kinds
  <2>3. CASE ~Refuse("add", i)
    <3>0. PICK n \in Names, s \in Secrets :
             Begin("add", i, {},
                   <<[kind |-> "record", id |-> i, name |-> n, secret |-> s,
                      enabled |-> TRUE, admin |-> FALSE, ok |-> TRUE]>>)
      BY <2>1, <2>3
    <3>. DEFINE r == [kind |-> "record", id |-> i, name |-> n, secret |-> s,
                      enabled |-> TRUE, admin |-> FALSE, ok |-> TRUE]
    <3>1. r \in Record /\ r.ok
      BY <2>1, <2>2, <2>3, KeyIdMaxAssumption
         DEF Record, Ids, AllNames, AllSecrets
    <3>2. Begin("add", i, {}, <<r>>)
      BY <3>0
    <3>. HIDE DEF r
    <3>. QED BY <2>2, <3>1, <3>2, OneSave
  <2>4. CASE Refuse("add", i)
    BY <2>2, <2>4, RefuseStore
  <2>. QED BY <2>3, <2>4
<1>2. CASE RenameKey
  <2>1. PICK i \in TypedIds :
          \/ \E b \in Names :
                /\ Touchable(i)
                /\ Begin("rename", i, {},
                         <<ToStored([files[i] EXCEPT !.name = b])>>)
          \/ Refuse("rename", i)
    BY <1>2 DEF RenameKey
  <2>2. i \in Nat /\ Idle /\ "rename" \in Kinds
    BY <1>2, TypedIdsAssumption DEF RenameKey, Kinds
  <2>3. CASE ~Refuse("rename", i)
    <3>0. PICK b \in Names :
             /\ Touchable(i)
             /\ Begin("rename", i, {}, <<ToStored([files[i] EXCEPT !.name = b])>>)
      BY <2>1, <2>3
    <3>1. files[i] \in Record
      BY <1>b, <2>2, <3>0, FileKinds, KeyIdMaxAssumption
         DEF Touchable, Gettable, Ids
    <3>2. /\ ToStored([files[i] EXCEPT !.name = b]) \in Record
          /\ ToStored([files[i] EXCEPT !.name = b]).ok
      BY <3>1 DEF ToStored, Record, AllNames
    <3>. QED BY <2>2, <3>0, <3>2, OneSave
  <2>4. CASE Refuse("rename", i)
    BY <2>2, <2>4, RefuseStore
  <2>. QED BY <2>3, <2>4
<1>3. CASE SetEnabled
  <2>1. PICK i \in TypedIds, b \in BOOLEAN :
          IF Touchable(i) /\ files[i].enabled # b
          THEN Begin("set_enabled", i, {},
                     <<ToStored([files[i] EXCEPT !.enabled = b])>>)
          ELSE Refuse("set_enabled", i)
    BY <1>3 DEF SetEnabled
  <2>2. i \in Nat /\ Idle /\ "set_enabled" \in Kinds
    BY <1>3, TypedIdsAssumption DEF SetEnabled, Kinds
  <2>3. CASE Touchable(i) /\ files[i].enabled # b
    <3>1. files[i] \in Record
      BY <1>b, <2>2, <2>3, FileKinds, KeyIdMaxAssumption
         DEF Touchable, Gettable, Ids
    <3>2. /\ ToStored([files[i] EXCEPT !.enabled = b]) \in Record
          /\ ToStored([files[i] EXCEPT !.enabled = b]).ok
      BY <3>1 DEF ToStored, Record, AllNames
    <3>. QED BY <2>1, <2>2, <2>3, <3>2, OneSave
  <2>4. CASE ~(Touchable(i) /\ files[i].enabled # b)
    BY <2>1, <2>2, <2>4, RefuseStore
  <2>. QED BY <2>3, <2>4
<1>4. CASE SetAdmin
  <2>1. PICK i \in TypedIds, b \in BOOLEAN :
          IF Touchable(i) /\ files[i].admin # b
          THEN Begin("set_admin", i, {},
                     <<ToStored([files[i] EXCEPT !.admin = b])>>)
          ELSE Refuse("set_admin", i)
    BY <1>4 DEF SetAdmin
  <2>2. i \in Nat /\ Idle /\ "set_admin" \in Kinds
    BY <1>4, TypedIdsAssumption DEF SetAdmin, Kinds
  <2>3. CASE Touchable(i) /\ files[i].admin # b
    <3>1. files[i] \in Record
      BY <1>b, <2>2, <2>3, FileKinds, KeyIdMaxAssumption
         DEF Touchable, Gettable, Ids
    <3>2. /\ ToStored([files[i] EXCEPT !.admin = b]) \in Record
          /\ ToStored([files[i] EXCEPT !.admin = b]).ok
      BY <3>1 DEF ToStored, Record, AllNames
    <3>. QED BY <2>1, <2>2, <2>3, <3>2, OneSave
  <2>4. CASE ~(Touchable(i) /\ files[i].admin # b)
    BY <2>1, <2>2, <2>4, RefuseStore
  <2>. QED BY <2>3, <2>4
<1>5. CASE DeleteKey
  <2>1. PICK i \in TypedIds : IF i <= KeyIdMax /\ Exists(i)
                              THEN Begin("delete", i, {i}, <<>>)
                              ELSE Refuse("delete", i)
    BY <1>5 DEF DeleteKey
  <2>2. i \in Nat /\ Idle /\ "delete" \in Kinds
    BY <1>5, TypedIdsAssumption DEF DeleteKey, Kinds
  <2>3. CASE i <= KeyIdMax /\ Exists(i)
    <3>1. {i} \in SUBSET Ids /\ DOMAIN <<>> = {}
      BY <2>2, <2>3, KeyIdMaxAssumption DEF Ids
    <3>. QED BY <2>1, <2>2, <2>3, <3>1, BeginStore
  <2>4. CASE ~(i <= KeyIdMax /\ Exists(i))
    BY <2>1, <2>2, <2>4, RefuseStore
  <2>. QED BY <2>3, <2>4
<1>6. CASE ImportKeys
  <2>. DEFINE Installs(b) == [k \in DOMAIN b.keys |-> FromBackup(b.keys[k])]
              Ids0(seen) == {files[i].id : i \in seen}
  <2>1. PICK b \in Backups \cup {Exported} :
          IF Importable(b)
          THEN \E seen \in SUBSET Listed :
                  Begin("import", 0, Ids0(seen), Installs(b))
          ELSE Refuse("import", 0)
    BY <1>6 DEF ImportKeys
  <2>2. Idle /\ "import" \in Kinds /\ 0 \in Nat
    BY <1>6 DEF ImportKeys, Kinds
  <2>3. \A i \in Listed : files[i] \in Record
    BY <1>b, FileKinds DEF Listed, Gettable
  <2>5. IsBackup(b)
    BY ExportIsBackup, BackupsAssumption
  <2>6. CASE Importable(b)
    <3>1. /\ DOMAIN Installs(b) = DOMAIN b.keys
          /\ DOMAIN Installs(b) \in SUBSET Nat
      BY <2>5 DEF IsBackup
    <3>2. \A p \in DOMAIN Installs(b) :
             Installs(b)[p] \in Record /\ Installs(b)[p].ok
      BY <2>5, <2>6, GoodRecords DEF IsBackup, Importable
    <3>3. DOMAIN Installs(b) # {}
      BY <2>6, <3>1 DEF Importable, HasAdmin
    <3>4. PICK seen \in SUBSET Listed : Begin("import", 0, Ids0(seen), Installs(b))
      BY <2>1, <2>6
    <3>5. Ids0(seen) \in SUBSET Ids
      BY <2>3 DEF Record
    <3>. HIDE DEF Installs, Ids0
    <3>. QED BY <2>2, <3>1, <3>2, <3>3, <3>4, <3>5, BeginStore
  <2>7. CASE ~Importable(b)
    BY <2>1, <2>2, <2>7, RefuseStore
  <2>. QED BY <2>6, <2>7
<1>7. CASE Zero
  <2>1. PICK i \in dels : /\ open = {} /\ open' = {i}
                          /\ \/ files' = [files EXCEPT ![i] = Zeroed]
                             \/ UNCHANGED files
                          /\ UNCHANGED <<mounted, wifi, dels, saves, wifiStep,
                                          last, reply>>
    BY <1>7 DEF Zero
  <2>2. i \in Ids
    BY <1>a, <2>1 DEF TypeOK
  <2>3. TypeOK'
    BY <1>a, <2>1, <2>2, FileKinds DEF TypeOK
  <2>4. IdsMatch'
    BY <1>a, <2>1, <2>2, GoodRecords DEF TypeOK, IdsMatch
  <2>5. Progress'
    BY <1>a, <2>1 DEF Progress, IsNextSave
  <2>. QED BY <2>3, <2>4, <2>5 DEF StoreInv
<1>8. CASE Remove
  <2>1. PICK i \in open :
          /\ dels # {}
          /\ files' = [files EXCEPT ![i] = Absent] \/ UNCHANGED files
          /\ Fail \/ Goto(dels \ {i}, saves)
          /\ UNCHANGED <<mounted, wifi, last>>
    BY <1>8 DEF Remove
  <2>2. i \in Ids
    BY <1>a, <2>1 DEF TypeOK
  <2>3. TypeOK'
    BY <1>a, <2>1, <2>2, FileKinds DEF TypeOK, Fail, Goto
  <2>4. IdsMatch'
    BY <1>a, <2>1, <2>2, FileKinds DEF TypeOK, IdsMatch
  <2>5. Progress'
    <3>1. CASE Fail
      BY <3>1 DEF Fail, Progress
    <3>2. CASE Goto(dels \ {i}, saves)
      BY <1>a, <3>2 DEF Goto, Progress
    <3>. QED BY <2>1, <3>1, <3>2
  <2>. QED BY <2>3, <2>4, <2>5 DEF StoreInv
<1>9. CASE Create
  <2>1. PICK p \in DOMAIN saves :
          /\ IsNextSave(p) /\ open = {}
          /\ \/ /\ open' = {saves[p].id}
                /\ \/ files' = [files EXCEPT ![saves[p].id] = Empty]
                   \/ files' = [files EXCEPT ![saves[p].id] = @]
                /\ UNCHANGED <<dels, saves, wifiStep, reply>>
             \/ Fail /\ UNCHANGED files
          /\ UNCHANGED <<mounted, wifi, last>>
    BY <1>9 DEF Create
  <2>2. saves[p].id \in Ids
    BY <1>a, <2>1 DEF TypeOK, Record
  <2>3. TypeOK'
    BY <1>a, <2>1, <2>2, FileKinds DEF TypeOK, Fail
  <2>4. IdsMatch'
    BY <1>a, <2>1, <2>2, FileKinds DEF TypeOK, IdsMatch
  <2>5. Progress'
    BY <1>a, <2>1 DEF Progress, Fail, IsNextSave
  <2>. QED BY <2>3, <2>4, <2>5 DEF StoreInv
<1>10. CASE Commit
  <2>1. PICK p \in DOMAIN saves, i \in open :
          /\ IsNextSave(p)
          /\ \/ files' = [files EXCEPT ![i] = saves[p]]
             \/ UNCHANGED files
          /\ Fail \/ Goto({}, Without(p))
          /\ UNCHANGED <<mounted, wifi, last>>
    BY <1>10 DEF Commit
  <2>2. i = saves[p].id /\ i \in Ids /\ saves[p] \in Record
    <3>1. dels = {} /\ \A q \in DOMAIN saves : p <= q
      BY <2>1 DEF IsNextSave
    <3>2. PICK q \in DOMAIN saves : IsNextSave(q) /\ open = {saves[q].id}
      BY <1>a, <2>1, <3>1 DEF Progress
    <3>3. p = q
      BY <1>a, <3>1, <3>2 DEF IsNextSave, TypeOK
    <3>. QED BY <1>a, <2>1, <3>2, <3>3 DEF TypeOK
  <2>3. DOMAIN Without(p) = DOMAIN saves \ {p}
        /\ \A q \in DOMAIN saves \ {p} : Without(p)[q] = saves[q]
    BY DEF Without
  <2>4. TypeOK'
    BY <1>a, <2>1, <2>2, <2>3 DEF TypeOK, Fail, Goto, File
  <2>5. IdsMatch'
    BY <1>a, <2>1, <2>2 DEF TypeOK, IdsMatch
  <2>6. Progress'
    BY <1>a, <2>1, <2>3 DEF Progress, Fail, Goto
  <2>. QED BY <2>4, <2>5, <2>6 DEF StoreInv
<1>11. CASE Crash \/ Format
  <2>1. /\ mounted' \in BOOLEAN /\ Forget
        /\ UNCHANGED files \/ files' = [i \in Ids |-> Absent]
        /\ UNCHANGED wifi \/ wifi' = "absent"
    BY <1>11 DEF Crash, Format
  <2>2. TypeOK' /\ IdsMatch'
    BY <1>a, <2>1, FileKinds
       DEF TypeOK, IdsMatch, Forget, NoCommand, Kinds
  <2>3. Progress'
    BY <2>1 DEF Progress, Forget
  <2>. QED BY <2>2, <2>3 DEF StoreInv
<1>12. CASE Corrupt
  <2>1. PICK i, j \in Ids :
           /\ Gettable(i) /\ Forget /\ UNCHANGED <<mounted, wifi>>
           /\ files' = [files EXCEPT ![i] = [@ EXCEPT !.ok = FALSE, !.id = j]]
    BY <1>12 DEF Corrupt
  <2>2. files[i] \in Record
    BY <1>b, <2>1, FileKinds DEF Gettable
  <2>3. TypeOK' /\ IdsMatch'
    <3>. DEFINE bad == [files[i] EXCEPT !.ok = FALSE, !.id = j]
    <3>1. bad \in Record /\ ~bad.ok
      BY <2>2 DEF Record
    <3>2. files' = [files EXCEPT ![i] = bad]
      BY <2>1
    <3>. HIDE DEF bad
    <3>. QED BY <1>a, <2>1, <3>1, <3>2
             DEF TypeOK, IdsMatch, Forget, NoCommand, Kinds, File
  <2>4. Progress'
    BY <2>1 DEF Progress, Forget
  <2>. QED BY <2>3, <2>4 DEF StoreInv
<1>13. CASE UNCHANGED vars
  BY <1>13, <1>a DEF vars, disk, StoreInv, TypeOK, IdsMatch, Progress, IsNextSave
<1>14. CASE SetWifi
  <2>1. CASE Refuse("set_wifi", 0)
    BY <1>14, <2>1, RefuseStore DEF SetWifi, Kinds
  <2>2. CASE ~Refuse("set_wifi", 0)
    <3>1. PICK w \in Networks :
            /\ last' = [kind |-> "set_wifi", id |-> 0, want |-> <<w>>]
            /\ wifiStep' = "create" /\ reply' = "busy"
            /\ UNCHANGED <<disk, dels, saves, open>>
      BY <1>14, <2>2 DEF SetWifi
    <3>2. reply # "busy"
      BY <1>14 DEF SetWifi, Idle
    <3>3. TypeOK' /\ IdsMatch'
      BY <1>a, <3>1 DEF TypeOK, IdsMatch, disk, Kinds
    <3>4. dels = {} /\ DOMAIN saves = {} /\ open = {}
      BY <1>a, <3>2 DEF Progress
    <3>5. last'.want[1] = w /\ last'.kind = "set_wifi"
      BY <3>1
    <3>6. Progress'
      BY <3>1, <3>4, <3>5 DEF Progress
    <3>. QED BY <3>3, <3>6 DEF StoreInv
  <2>. QED BY <2>1, <2>2
<1>15. CASE WifiCreate \/ WifiCommit
  <2>1. wifiStep # "none" /\ UNCHANGED <<mounted, files, last>>
    BY <1>15 DEF WifiCreate, WifiCommit
  <2>2. dels = {} /\ DOMAIN saves = {} /\ last.want[1] \in Networks
        /\ last.kind = "set_wifi" /\ open = {}
    BY <1>a, <2>1 DEF Progress, IsNextSave
  <2>3. \/ wifiStep' = "commit" /\ UNCHANGED <<dels, saves, open, reply>>
        \/ Fail
        \/ Goto({}, <<>>)
    BY <1>15 DEF WifiCreate, WifiCommit
  <2>4. wifi' \in Networks \cup {"absent", "empty"}
    BY <1>15, <1>a, <2>2 DEF WifiCreate, WifiCommit, TypeOK
  <2>5. TypeOK' /\ IdsMatch'
    BY <1>a, <2>1, <2>3, <2>4 DEF TypeOK, IdsMatch, Fail, Goto
  <2>6. Progress'
    BY <1>a, <2>1, <2>2, <2>3 DEF Progress, Fail, Goto
  <2>. QED BY <2>5, <2>6 DEF StoreInv
<1>. QED
  BY <1>1, <1>2, <1>3, <1>4, <1>5, <1>6, <1>7, <1>8, <1>9, <1>10, <1>11, <1>12,
     <1>13, <1>14, <1>15 DEF Next

(* A record with a good checksum is always in the file of its own id, whatever *)
(* the operators do, wherever power fails and whichever flash commit fails.    *)
THEOREM StoreSafe == Spec => []StoreInv
<1>. QED BY InitStore, StepStore, PTL DEF Spec

(* storage.c:255, 220 - whatever set-wifi and the other commands do, wherever   *)
(* power fails and whichever commit fails, only a format takes the stored       *)
(* credentials away.                                                         *)
THEOREM WifiKept == Spec => StaysConfigured
<1>1. ASSUME StoreInv, [Next]_vars PROVE [mounted /\ Configured => Configured']_vars
  <2>. SUFFICES ASSUME Next, mounted, Configured PROVE Configured'
    BY <1>1
  <2>1. TypeOK /\ Progress
    BY <1>1 DEF StoreInv
  <2>2. CASE WifiCreate
    BY <2>2, NetworksAssumption DEF WifiCreate, Configured
  <2>3. CASE WifiCommit
    BY <2>1, <2>3 DEF WifiCommit, Configured, Progress
  <2>4. CASE Format
    BY <2>4 DEF Format
  <2>5. CASE SetWifi
    BY <2>5 DEF SetWifi, Refuse, disk, Configured
  <2>6. CASE \/ AddKey \/ RenameKey \/ SetEnabled \/ SetAdmin \/ DeleteKey
             \/ ImportKeys
    BY <2>6 DEF AddKey, RenameKey, SetEnabled, SetAdmin, DeleteKey, ImportKeys,
                Begin, Refuse, disk, Configured
  <2>7. CASE Zero \/ Remove \/ Create \/ Commit \/ Crash \/ Corrupt
    BY <2>7 DEF Zero, Remove, Create, Commit, Crash, Corrupt, Configured
  <2>. QED BY <1>1, <2>2, <2>3, <2>4, <2>5, <2>6, <2>7 DEF Next
<1>. QED BY <1>1, StoreSafe, PTL DEF Spec, StaysConfigured
-----------------------------------------------------------------------------
(* What a command that is under way has done and has still to do.            *)

UpdateKinds == {"rename", "set_enabled", "set_admin"}

(* What an update command makes of the record it read.                       *)
Edited(kind, old, new) ==
    \/ kind = "rename" /\ new = [old EXCEPT !.name = new.name]
    \/ kind = "set_enabled" /\ new = [old EXCEPT !.enabled = new.enabled]
    \/ kind = "set_admin" /\ new = [old EXCEPT !.admin = new.admin]

(* A delete, an add or an update has one id to delete or one record to save,    *)
(* and the file is still as the command found it.                            *)
DeleteInv ==
    reply = "busy" /\ last.kind = "delete" =>
        /\ last.id \in Ids
        /\ dels = {last.id}
        /\ DOMAIN saves = {}

SaveInv ==
    reply = "busy" /\ last.kind \in UpdateKinds \cup {"add"} =>
        /\ last.id \in Ids
        /\ dels = {}
        /\ DOMAIN saves = {1} /\ saves[1] = last.want[1]

AddInv ==
    reply = "busy" /\ last.kind = "add" =>
        saves[1].id = last.id /\ files[last.id].kind # "record"

UpdateInv ==
    reply = "busy" /\ last.kind \in UpdateKinds =>
        /\ saves[1].id = last.id
        /\ files[last.id].kind = "record" /\ files[last.id].ok
        /\ Edited(last.kind, files[last.id], saves[1])

(* An import: what is saved already is what came first in the backup, and       *)
(* nothing is saved before all is deleted.                                   *)
Done == DOMAIN last.want \ DOMAIN saves

ImportInv ==
    reply \in {"busy", "ok"} /\ last.kind = "import" =>
        /\ DOMAIN last.want \in SUBSET Nat
        /\ \A p \in DOMAIN last.want : last.want[p] \in Record /\ last.want[p].ok
        /\ \E p \in DOMAIN last.want : last.want[p].enabled /\ last.want[p].admin
        /\ DOMAIN saves \in SUBSET DOMAIN last.want
        /\ \A p \in DOMAIN saves : saves[p] = last.want[p]
        /\ \A p \in Done, q \in DOMAIN saves : p < q
        /\ dels # {} => DOMAIN saves = DOMAIN last.want

(* The file of an id that an import has saved to holds what it last saved there, *)
(* and an id that it has deleted or not found, and not saved to, has no usable   *)
(* key.  The first depends on no close failing unseen, the second on no delete.  *)
IsLast(p, i) ==
    /\ p \in Done /\ last.want[p].id = i
    /\ \A q \in Done : last.want[q].id = i => q <= p

LastSaved ==
    reply \in {"busy", "ok"} /\ last.kind = "import" =>
        \A p \in Done : \E q \in Done :
            IsLast(q, last.want[p].id) /\ files[last.want[p].id] = last.want[q]

OthersGone ==
    reply \in {"busy", "ok"} /\ last.kind = "import" =>
        \A i \in Ids \ dels :
            Usable(i) = Absent \/ \E p \in Done : last.want[p].id = i

(* Which commands can be under way, and what the answer to those that name one  *)
(* id says.                                                                  *)
KindInv ==
    /\ last.kind = "none" => reply = "none"
    /\ reply = "busy" /\ last.kind = "set_wifi" => wifiStep # "none"

DeleteTrue == reply = "ok" /\ last.kind = "delete" => files[last.id] = Absent
WifiTrue == reply = "ok" /\ last.kind = "set_wifi" => wifi = last.want[1]
SaveTrue == reply = "ok" /\ last.kind \in UpdateKinds \cup {"add"}
                => files[last.id] = last.want[1]

CommandInv ==
    /\ KindInv /\ DeleteInv /\ SaveInv /\ AddInv /\ ImportInv
    /\ ~CorruptTouched => UpdateInv
    /\ DeleteTrue
    /\ ~IgnoredCloses => LastSaved /\ WifiTrue
    /\ ~IgnoredDeletes => OthersGone
    /\ ~IgnoredCloses /\ ~CorruptTouched => SaveTrue

(* What Usable sees of a file.                                               *)
View(f) ==
    IF f.kind = "record" /\ f.ok
    THEN [name |-> f.name, secret |-> f.secret, enabled |-> f.enabled,
          admin |-> f.admin]
    ELSE Absent

(* What a reader can use of a key is a function of its file alone. *)
LEMMA Views ==
    /\ \A i : Usable(i) = View(files[i]) /\ Usable(i)' = View(files'[i])
    /\ \A f : View(f) # Absent <=> f.kind = "record" /\ f.ok
<1>1. \A i : Usable(i) = View(files[i]) /\ Usable(i)' = View(files'[i])
  BY DEF Usable, View
<1>2. ASSUME NEW n, NEW s, NEW e, NEW a
      PROVE  [name |-> n, secret |-> s, enabled |-> e, admin |-> a] # Absent
  <2>1. "kind" \in DOMAIN Absent
    BY DEF Absent
  <2>2. "kind" \notin DOMAIN [name |-> n, secret |-> s, enabled |-> e, admin |-> a]
    OBVIOUS
  <2>. QED BY <2>1, <2>2
<1>3. \A f : View(f) # Absent <=> f.kind = "record" /\ f.ok
  BY <1>2 DEF View
<1>. QED BY <1>1, <1>3

(* A command that was refused, has failed or is forgotten promises nothing.   *)
LEMMA QuietCommand ==
    ASSUME reply' \in {"error", "none"}, last'.kind = "none" => reply' = "none"
    PROVE  CommandInv'
BY DEF CommandInv, KindInv, DeleteInv, SaveInv, AddInv, UpdateInv, ImportInv,
       LastSaved, OthersGone, DeleteTrue, WifiTrue, SaveTrue

(* A refused command leaves a bookkeeping record that is true of the files. *)
LEMMA RefusedCommand ==
    ASSUME NEW kind \in Kinds \ {"none"}, NEW i, Refuse(kind, i)
    PROVE  CommandInv'
<1>1. reply' = "error" /\ last'.kind = kind
  BY DEF Refuse
<1>. QED BY <1>1, QuietCommand

(* A command that begins with one record to save.                            *)
LEMMA SaveBegins ==
    ASSUME NEW kind \in UpdateKinds \cup {"add"}, NEW i \in Ids, NEW r,
           Begin(kind, i, {}, <<r>>),
           kind = "add" => r.id = i /\ files[i].kind # "record",
           kind # "add" /\ ~CorruptTouched =>
               /\ r.id = i /\ files[i].kind = "record" /\ files[i].ok
               /\ Edited(kind, files[i], r)
    PROVE  CommandInv'
<1>1. /\ last'.kind = kind /\ last'.id = i /\ last'.want = <<r>> /\ reply' = "busy"
      /\ dels' = {} /\ saves' = <<r>> /\ files' = files /\ wifiStep' = wifiStep
  BY DEF Begin, disk
<1>2. DOMAIN <<r>> = {1} /\ <<r>>[1] = r
  OBVIOUS
<1>3. kind \notin {"none", "delete", "import", "set_wifi"}
  BY DEF UpdateKinds
<1>4. KindInv' /\ DeleteInv' /\ ImportInv' /\ LastSaved' /\ OthersGone'
  BY <1>1, <1>3 DEF KindInv, DeleteInv, ImportInv, LastSaved, OthersGone
<1>5. DeleteTrue' /\ WifiTrue' /\ SaveTrue'
  BY <1>1 DEF DeleteTrue, WifiTrue, SaveTrue
<1>6. SaveInv' /\ AddInv'
  BY <1>1, <1>2 DEF SaveInv, AddInv
<1>7. ~CorruptTouched => UpdateInv'
  <2>1. kind # "add" /\ ~CorruptTouched => UpdateInv'
    BY <1>1, <1>2 DEF UpdateInv
  <2>2. kind = "add" => UpdateInv'
    BY <1>1 DEF UpdateInv, UpdateKinds
  <2>. QED BY <2>1, <2>2
<1>. QED BY <1>4, <1>5, <1>6, <1>7 DEF CommandInv

(* rename, enable, disable, set-admin and unset-admin read the record of a good  *)
(* file, so the id in it is the id that was typed.                            *)
LEMMA UpdateBegins ==
    ASSUME StoreInv, NEW kind \in UpdateKinds, NEW i \in Nat, NEW r,
           Discipline(i), Touchable(i), Begin(kind, i, {}, <<r>>),
           files[i] \in Record =>
               r.id = files[i].id /\ (files[i].ok => Edited(kind, files[i], r))
    PROVE  CommandInv'
<1>1. i \in Ids /\ files[i].kind = "record"
  BY KeyIdMaxAssumption DEF Touchable, Gettable, Ids
<1>2. files[i] \in Record
  BY <1>1, FileKinds DEF StoreInv, TypeOK
<1>3. ~CorruptTouched => files[i].ok /\ files[i].id = i
  BY <1>1 DEF Discipline, Gettable, Touchable, StoreInv, IdsMatch
<1>4. kind # "add"
  BY DEF UpdateKinds
<1>. QED BY <1>1, <1>2, <1>3, <1>4, SaveBegins

(* What saving a changed copy of a record does to it.                         *)
LEMMA EditedRecord ==
    ASSUME NEW f \in Record
    PROVE  /\ \A v : LET r == ToStored([f EXCEPT !.name = v])
                     IN  r.id = f.id /\ (f.ok => Edited("rename", f, r))
           /\ \A v : LET r == ToStored([f EXCEPT !.enabled = v])
                     IN  r.id = f.id /\ (f.ok => Edited("set_enabled", f, r))
           /\ \A v : LET r == ToStored([f EXCEPT !.admin = v])
                     IN  r.id = f.id /\ (f.ok => Edited("set_admin", f, r))
BY DEF Record, ToStored, Edited
(* The commands that begin from idle, and those that are refused.             *)
LEMMA CommandsBegin ==
    ASSUME StoreInv,
           \/ AddKey \/ RenameKey \/ SetEnabled \/ SetAdmin \/ DeleteKey
           \/ ImportKeys \/ SetWifi
    PROVE  CommandInv'
<1>1. \A kind \in Kinds \ {"none"} : \A i : Refuse(kind, i) => CommandInv'
  BY RefusedCommand
<1>2. \A i \in Nat : i <= KeyIdMax => i \in Ids
  BY KeyIdMaxAssumption DEF Ids
<1>3. \A i \in TypedIds : i \in Nat
  BY TypedIdsAssumption
<1>4. \A i \in Ids : files[i] \in File
  BY DEF StoreInv, TypeOK
<1>5. \A i \in Nat : Touchable(i) => files[i] \in Record
  BY <1>2, <1>4, FileKinds DEF Touchable, Gettable
<1>6. CASE AddKey
  <2>1. PICK i \in TypedIds :
          \/ /\ i <= KeyIdMax /\ ~Exists(i)
             /\ \E n \in Names, s \in Secrets :
                  Begin("add", i, {},
                        <<[kind |-> "record", id |-> i, name |-> n, secret |-> s,
                           enabled |-> TRUE, admin |-> FALSE, ok |-> TRUE]>>)
          \/ Refuse("add", i)
    BY <1>6 DEF AddKey
  <2>2. CASE ~Refuse("add", i)
    <3>0. PICK n \in Names, s \in Secrets :
             Begin("add", i, {},
                   <<[kind |-> "record", id |-> i, name |-> n, secret |-> s,
                      enabled |-> TRUE, admin |-> FALSE, ok |-> TRUE]>>)
      BY <2>1, <2>2
    <3>. DEFINE r == [kind |-> "record", id |-> i, name |-> n, secret |-> s,
                      enabled |-> TRUE, admin |-> FALSE, ok |-> TRUE]
    <3>1. r.id = i /\ Begin("add", i, {}, <<r>>)
      BY <3>0
    <3>2. i \in Ids /\ files[i].kind # "record"
      BY <1>2, <1>3, <2>1, <2>2, FileKinds DEF Exists
    <3>. HIDE DEF r
    <3>. QED BY <3>1, <3>2, SaveBegins
  <2>3. CASE Refuse("add", i)
    BY <1>1, <2>3 DEF Kinds
  <2>. QED BY <2>2, <2>3
<1>7. CASE RenameKey
  <2>1. PICK i \in TypedIds :
          /\ Discipline(i)
          /\ \/ \E b \in Names :
                  /\ Touchable(i)
                  /\ Begin("rename", i, {},
                           <<ToStored([files[i] EXCEPT !.name = b])>>)
             \/ Refuse("rename", i)
    BY <1>7 DEF RenameKey
  <2>2. CASE ~Refuse("rename", i)
    <3>0. PICK b \in Names :
             /\ Touchable(i)
             /\ Begin("rename", i, {}, <<ToStored([files[i] EXCEPT !.name = b])>>)
      BY <2>1, <2>2
    <3>. DEFINE r == ToStored([files[i] EXCEPT !.name = b])
    <3>1. r.id = files[i].id /\ (files[i].ok => Edited("rename", files[i], r))
      BY <1>3, <1>5, <3>0, EditedRecord
    <3>2. Begin("rename", i, {}, <<r>>)
      BY <3>0
    <3>. HIDE DEF r
    <3>. QED BY <1>3, <2>1, <3>0, <3>1, <3>2, UpdateBegins DEF UpdateKinds
  <2>3. CASE Refuse("rename", i)
    BY <1>1, <2>3 DEF Kinds
  <2>. QED BY <2>2, <2>3
<1>8. CASE SetEnabled
  <2>1. PICK i \in TypedIds, b \in BOOLEAN :
          /\ Discipline(i)
          /\ IF Touchable(i) /\ files[i].enabled # b
             THEN Begin("set_enabled", i, {},
                        <<ToStored([files[i] EXCEPT !.enabled = b])>>)
             ELSE Refuse("set_enabled", i)
    BY <1>8 DEF SetEnabled
  <2>2. CASE Touchable(i) /\ files[i].enabled # b
    <3>. DEFINE r == ToStored([files[i] EXCEPT !.enabled = b])
    <3>1. r.id = files[i].id /\ (files[i].ok => Edited("set_enabled", files[i], r))
      BY <1>3, <1>5, <2>2, EditedRecord
    <3>2. Begin("set_enabled", i, {}, <<r>>)
      BY <2>1, <2>2
    <3>. HIDE DEF r
    <3>. QED BY <1>3, <2>1, <2>2, <3>1, <3>2, UpdateBegins DEF UpdateKinds
  <2>3. CASE ~(Touchable(i) /\ files[i].enabled # b)
    BY <1>1, <2>1, <2>3 DEF Kinds
  <2>. QED BY <2>2, <2>3
<1>9. CASE SetAdmin
  <2>1. PICK i \in TypedIds, b \in BOOLEAN :
          /\ Discipline(i)
          /\ IF Touchable(i) /\ files[i].admin # b
             THEN Begin("set_admin", i, {},
                        <<ToStored([files[i] EXCEPT !.admin = b])>>)
             ELSE Refuse("set_admin", i)
    BY <1>9 DEF SetAdmin
  <2>2. CASE Touchable(i) /\ files[i].admin # b
    <3>. DEFINE r == ToStored([files[i] EXCEPT !.admin = b])
    <3>1. r.id = files[i].id /\ (files[i].ok => Edited("set_admin", files[i], r))
      BY <1>3, <1>5, <2>2, EditedRecord
    <3>2. Begin("set_admin", i, {}, <<r>>)
      BY <2>1, <2>2
    <3>. HIDE DEF r
    <3>. QED BY <1>3, <2>1, <2>2, <3>1, <3>2, UpdateBegins DEF UpdateKinds
  <2>3. CASE ~(Touchable(i) /\ files[i].admin # b)
    BY <1>1, <2>1, <2>3 DEF Kinds
  <2>. QED BY <2>2, <2>3
<1>10. CASE DeleteKey
  <2>1. PICK i \in TypedIds : IF i <= KeyIdMax /\ Exists(i)
                              THEN Begin("delete", i, {i}, <<>>)
                              ELSE Refuse("delete", i)
    BY <1>10 DEF DeleteKey
  <2>2. CASE i <= KeyIdMax /\ Exists(i)
    <3>1. /\ last'.kind = "delete" /\ last'.id = i /\ reply' = "busy"
          /\ dels' = {i} /\ DOMAIN saves' = {} /\ i \in Ids
      BY <1>2, <1>3, <2>1, <2>2 DEF Begin
    <3>. QED BY <3>1 DEF CommandInv, KindInv, DeleteInv, SaveInv, AddInv,
                         UpdateInv, ImportInv, LastSaved, OthersGone, DeleteTrue, WifiTrue,
                         SaveTrue, UpdateKinds
  <2>3. CASE ~(i <= KeyIdMax /\ Exists(i))
    BY <1>1, <2>1, <2>3 DEF Kinds
  <2>. QED BY <2>2, <2>3
<1>11. CASE ImportKeys
  <2>. DEFINE Installs(b) == [k \in DOMAIN b.keys |-> FromBackup(b.keys[k])]
              Ids0(seen) == {files[i].id : i \in seen}
  <2>1. PICK b \in Backups \cup {Exported} :
          IF Importable(b)
          THEN \E seen \in SUBSET Listed :
                  /\ IgnoredDeletes \/ seen = Listed
                  /\ Begin("import", 0, Ids0(seen), Installs(b))
          ELSE Refuse("import", 0)
    BY <1>11 DEF ImportKeys
  <2>2. CASE Importable(b)
    <3>1. IsBackup(b)
      BY ExportIsBackup, BackupsAssumption
    <3>. DEFINE w == Installs(b)
    <3>2. /\ DOMAIN w = DOMAIN b.keys
          /\ DOMAIN w \in SUBSET Nat
      BY <3>1 DEF IsBackup
    <3>3. \A p \in DOMAIN w : w[p] \in Record /\ w[p].ok
      BY <2>2, <3>1, GoodRecords DEF IsBackup, Importable
    <3>4. \E p \in DOMAIN w : w[p].enabled /\ w[p].admin
      <4>1. PICK p \in DOMAIN b.keys : b.keys[p].enabled /\ b.keys[p].admin
        BY <2>2 DEF Importable, HasAdmin
      <4>2. p \in DOMAIN w /\ w[p].enabled /\ w[p].admin
        BY <3>2, <4>1 DEF FromBackup
      <4>. QED BY <4>2
    <3>5. PICK seen \in SUBSET Listed :
             /\ IgnoredDeletes \/ seen = Listed
             /\ Begin("import", 0, Ids0(seen), w)
      BY <2>1, <2>2
    <3>6. ~IgnoredDeletes => \A i \in Ids \ Ids0(seen) : Usable(i) = Absent
      <4>1. SUFFICES ASSUME ~IgnoredDeletes, NEW i \in Ids, Usable(i) # Absent
                     PROVE  i \in Ids0(seen)
        OBVIOUS
      <4>2. files[i].kind = "record" /\ files[i].ok
        BY <4>1, Views
      <4>3. i \in Listed /\ files[i].id = i
        BY <4>2 DEF Listed, Gettable, StoreInv, IdsMatch
      <4>. QED BY <3>5, <4>1, <4>3
    <3>7. /\ last'.kind = "import" /\ last'.want = w /\ saves' = w
          /\ dels' = Ids0(seen) /\ reply' = "busy" /\ files' = files
      BY <3>5 DEF Begin, disk
    <3>. HIDE DEF w, Ids0
    <3>8. Done' = {}
      BY <3>7 DEF Done
    <3>9. ImportInv'
      BY <3>2, <3>3, <3>4, <3>7, <3>8 DEF ImportInv
    <3>10. LastSaved' /\ (~IgnoredDeletes => OthersGone')
      BY <3>6, <3>7, <3>8, Views DEF LastSaved, OthersGone
    <3>. QED BY <3>7, <3>9, <3>10
             DEF CommandInv, KindInv, DeleteInv, SaveInv, AddInv, UpdateInv,
                 DeleteTrue, WifiTrue, SaveTrue, UpdateKinds
  <2>3. CASE ~Importable(b)
    BY <1>1, <2>1, <2>3 DEF Kinds
  <2>. QED BY <2>2, <2>3
<1>12. CASE SetWifi
  <2>1. CASE Refuse("set_wifi", 0)
    BY <1>1, <2>1 DEF Kinds
  <2>2. CASE ~Refuse("set_wifi", 0)
    <3>1. last'.kind = "set_wifi" /\ wifiStep' = "create" /\ reply' = "busy"
      BY <1>12, <2>2 DEF SetWifi
    <3>. QED BY <3>1 DEF CommandInv, KindInv, DeleteInv, SaveInv, AddInv,
                         UpdateInv, ImportInv, LastSaved, OthersGone, DeleteTrue, WifiTrue,
                         SaveTrue, UpdateKinds
  <2>. QED BY <2>1, <2>2
<1>. QED BY <1>6, <1>7, <1>8, <1>9, <1>10, <1>11, <1>12
(* While files are being changed, one command is busy, of the kind that does so. *)
LEMMA BusyKinds ==
    ASSUME StoreInv, CommandInv
    PROVE  /\ dels # {} => reply = "busy" /\ last.kind \in {"delete", "import"}
           /\ DOMAIN saves # {}
                => /\ reply = "busy"
                   /\ last.kind \in UpdateKinds \cup {"add", "import"}
           /\ wifiStep # "none" => reply = "busy" /\ last.kind = "set_wifi"
<1>1. Progress /\ TypeOK /\ KindInv /\ DeleteInv /\ SaveInv
  BY DEF StoreInv, CommandInv
<1>2. last.kind \in UpdateKinds \cup {"none", "add", "delete", "import", "set_wifi"}
  BY <1>1 DEF TypeOK, Kinds, UpdateKinds
<1>3. wifiStep # "none" => reply = "busy" /\ last.kind = "set_wifi"
  BY <1>1 DEF Progress
<1>4. dels # {} => reply = "busy" /\ last.kind \in {"delete", "import"}
  BY <1>1, <1>2 DEF Progress, SaveInv, KindInv
<1>5. DOMAIN saves # {}
        => reply = "busy" /\ last.kind \in UpdateKinds \cup {"add", "import"}
  BY <1>1, <1>2 DEF Progress, DeleteInv, KindInv
<1>. QED BY <1>3, <1>4, <1>5

(* While an import deletes, nothing is saved yet.                            *)
LEMMA NothingSaved ==
    ASSUME StoreInv, CommandInv, dels # {}, last.kind = "import"
    PROVE  Done = {}
BY BusyKinds DEF CommandInv, ImportInv, Done

(* The overwrite of a key's file before its removal keeps the command record true. *)
LEMMA ZeroCommand ==
    ASSUME StoreInv, CommandInv, Zero
    PROVE  CommandInv'
<1>1. PICK i \in dels :
        /\ \/ files[i].kind = "record" /\ files' = [files EXCEPT ![i] = Zeroed]
           \/ UNCHANGED files
        /\ UNCHANGED <<mounted, wifi, dels, saves, wifiStep, last, reply>>
  BY DEF Zero
<1>2. reply = "busy" /\ last.kind \in {"delete", "import"}
  BY <1>1, BusyKinds
<1>3. \A j \in Ids \ dels : files'[j] = files[j]
  BY <1>1 DEF StoreInv, TypeOK
<1>4. Done' = Done /\ \A p, j : IsLast(p, j)' <=> IsLast(p, j)
  BY <1>1 DEF Done, IsLast
<1>5. /\ LastSaved => LastSaved'
      /\ OthersGone => OthersGone'
  <2>1. last.kind = "import" => Done = {}
    BY <1>1, NothingSaved
  <2>2. \A j \in Ids \ dels : Usable(j)' = Usable(j)
    BY <1>3, Views
  <2>. QED BY <1>1, <1>4, <2>1, <2>2 DEF LastSaved, OthersGone
<1>6. ImportInv'
  BY <1>1, <1>4 DEF CommandInv, ImportInv
<1>. QED BY <1>1, <1>2, <1>5, <1>6
         DEF CommandInv, KindInv, DeleteInv, SaveInv, AddInv, UpdateInv,
             DeleteTrue, WifiTrue, SaveTrue, UpdateKinds

(* The removal of a key's file keeps the command record true. *)
LEMMA RemoveCommand ==
    ASSUME StoreInv, CommandInv, Remove
    PROVE  CommandInv'
<1>1. PICK i \in open :
        /\ dels # {}
        /\ \/ /\ Exists(i)
              /\ files' = [files EXCEPT ![i] = Absent]
              /\ Goto(dels \ {i}, saves)
           \/ UNCHANGED files /\ last.kind = "delete" /\ Fail
           \/ /\ IgnoredDeletes \/ ~Exists(i)
              /\ last.kind = "import"
              /\ UNCHANGED files
              /\ Goto(dels \ {i}, saves)
        /\ UNCHANGED <<mounted, wifi, last>>
  BY DEF Remove
<1>2. reply = "busy" /\ last.kind \in {"delete", "import"}
  BY <1>1, BusyKinds
<1>3. i \in dels /\ i \in Ids /\ open = {i}
  BY <1>1 DEF StoreInv, Progress, IsNextSave, TypeOK
<1>4. CASE Fail
  BY <1>1, <1>2, <1>4, QuietCommand DEF Fail
<1>5. CASE ~Fail
  <2>1. /\ Goto(dels \ {i}, saves) /\ last' = last /\ wifi' = wifi
        /\ files' = [files EXCEPT ![i] = Absent] \/ UNCHANGED files
    BY <1>1, <1>5
  <2>2. ~IgnoredDeletes \/ last.kind = "delete" => files'[i] = Absent
    BY <1>1, <1>3, <1>5 DEF Exists, StoreInv, TypeOK
  <2>3. \A j \in Ids \ {i} : files'[j] = files[j]
    BY <1>3, <2>1 DEF StoreInv, TypeOK
  <2>4. dels' = dels \ {i} /\ saves' = saves /\ reply' \in {"busy", "ok"}
        /\ (reply' = "ok" <=> dels \ {i} = {} /\ DOMAIN saves = {})
    BY <2>1 DEF Goto
  <2>5. CASE last.kind = "delete"
    <3>1. dels = {i} /\ last.id = i /\ DOMAIN saves = {}
      BY <1>2, <1>3, <2>5 DEF CommandInv, DeleteInv
    <3>2. reply' = "ok" /\ last'.kind = "delete" /\ files'[last'.id] = Absent
      BY <2>1, <2>2, <2>4, <2>5, <3>1
    <3>. QED BY <3>2
             DEF CommandInv, KindInv, DeleteInv, SaveInv, AddInv, UpdateInv,
                 ImportInv, LastSaved, OthersGone, DeleteTrue, WifiTrue, SaveTrue, UpdateKinds
  <2>6. CASE last.kind = "import"
    <3>1. Done = {} /\ Done' = {}
      BY <1>1, <2>1, <2>4, <2>6, NothingSaved DEF Done
    <3>2. ImportInv'
      BY <1>1, <1>2, <2>1, <2>4, <2>6, <3>1 DEF CommandInv, ImportInv
    <3>3. LastSaved'
      BY <3>1 DEF LastSaved
    <3>4. ~IgnoredDeletes => OthersGone'
      <4>1. SUFFICES ASSUME ~IgnoredDeletes, NEW j \in Ids \ dels'
                     PROVE  Usable(j)' = Absent
        BY DEF OthersGone
      <4>2. CASE j = i
        BY <2>2, <4>1, <4>2, FileKinds, Views
      <4>3. CASE j # i
        <5>1. j \in Ids \ dels /\ files'[j] = files[j]
          BY <2>3, <2>4, <4>3
        <5>2. Usable(j) = Absent
          BY <1>2, <2>6, <3>1, <4>1, <5>1 DEF CommandInv, OthersGone
        <5>. QED BY <5>1, <5>2, Views
      <4>. QED BY <4>2, <4>3
    <3>. QED BY <2>1, <2>6, <3>2, <3>3, <3>4
             DEF CommandInv, KindInv, DeleteInv, SaveInv, AddInv, UpdateInv,
                 DeleteTrue, WifiTrue, SaveTrue, UpdateKinds
  <2>. QED BY <1>2, <2>5, <2>6
<1>. QED BY <1>4, <1>5

(* Opening a file for writing changes no record, and so no usable key.         *)
LEMMA CreateFiles ==
    ASSUME StoreInv, Create
    PROVE  \A i \in Ids : /\ files[i].kind = "record" => files'[i] = files[i]
                          /\ files'[i].kind = "record" => files'[i] = files[i]
                          /\ Usable(i)' = Usable(i)
<1>1. PICK p \in DOMAIN saves :
        \/ files' = [files EXCEPT ![saves[p].id] =
                                     IF Exists(saves[p].id) THEN @ ELSE Empty]
        \/ UNCHANGED files
  BY DEF Create
<1>2. saves[p].id \in Ids /\ files \in [Ids -> File]
  BY <1>1 DEF StoreInv, TypeOK, Record
<1>3. SUFFICES ASSUME NEW i \in Ids
               PROVE  /\ files[i].kind = "record" => files'[i] = files[i]
                      /\ files'[i].kind = "record" => files'[i] = files[i]
                      /\ Usable(i)' = Usable(i)
  OBVIOUS
<1>4. files'[i] = files[i] \/ (files[i] = Absent /\ files'[i] = Empty)
  <2>1. CASE UNCHANGED files
    BY <2>1
  <2>2. CASE Exists(saves[p].id) /\ files' = [files EXCEPT ![saves[p].id] = @]
    BY <1>2, <2>2
  <2>3. CASE ~Exists(saves[p].id) /\ files' = [files EXCEPT ![saves[p].id] = Empty]
    BY <1>2, <2>3 DEF Exists
  <2>. QED BY <1>1, <2>1, <2>2, <2>3
<1>5. View(Absent) = Absent /\ View(Empty) = Absent
  BY FileKinds, Views
<1>6. Usable(i)' = Usable(i)
  BY <1>4, <1>5, Views
<1>. QED BY <1>4, <1>6, FileKinds

(* The opening of a key's file for writing keeps the command record true. *)
LEMMA CreateCommand ==
    ASSUME StoreInv, CommandInv, Create
    PROVE  CommandInv'
<1>1. /\ DOMAIN saves # {} /\ last' = last
      /\ UNCHANGED <<dels, saves, wifiStep, reply>> \/ Fail
  BY DEF Create
<1>2. reply = "busy" /\ last.kind \in UpdateKinds \cup {"add", "import"}
      /\ last.kind \notin {"none", "delete", "set_wifi"}
  BY <1>1, BusyKinds DEF UpdateKinds
<1>3. CASE Fail
  BY <1>1, <1>2, <1>3, QuietCommand DEF Fail
<1>4. CASE UNCHANGED <<dels, saves, wifiStep, reply>>
  <2>1. KindInv' /\ DeleteInv' /\ DeleteTrue' /\ WifiTrue' /\ SaveTrue'
    BY <1>1, <1>2, <1>4 DEF KindInv, DeleteInv, DeleteTrue, WifiTrue, SaveTrue
  <2>2. SaveInv' /\ AddInv'
    BY <1>1, <1>2, <1>4, CreateFiles DEF CommandInv, SaveInv, AddInv
  <2>3. ~CorruptTouched => UpdateInv'
    BY <1>1, <1>2, <1>4, CreateFiles DEF CommandInv, SaveInv, UpdateInv
  <2>4. Done' = Done /\ \A p, j : IsLast(p, j)' <=> IsLast(p, j)
    BY <1>1, <1>4 DEF Done, IsLast
  <2>5. ImportInv'
    BY <1>1, <1>4, <2>4 DEF CommandInv, ImportInv
  <2>6. ~IgnoredCloses => LastSaved'
    <3>1. SUFFICES ASSUME LastSaved, last.kind = "import", NEW p \in Done
                   PROVE  \E q \in Done : /\ IsLast(q, last.want[p].id)
                                         /\ files'[last.want[p].id] = last.want[q]
      BY <1>1, <1>4, <2>4 DEF CommandInv, LastSaved
    <3>2. PICK q \in Done : /\ IsLast(q, last.want[p].id)
                            /\ files[last.want[p].id] = last.want[q]
      BY <1>2, <3>1 DEF LastSaved
    <3>3. last.want[p] \in Record /\ last.want[q] \in Record
      BY <1>2, <3>1, <3>2 DEF CommandInv, ImportInv, Done
    <3>4. files'[last.want[p].id] = files[last.want[p].id]
      BY <3>2, <3>3, CreateFiles DEF Record
    <3>. QED BY <3>2, <3>4
  <2>7. ~IgnoredDeletes => OthersGone'
    BY <1>1, <1>4, <2>4, CreateFiles DEF CommandInv, OthersGone
  <2>. QED BY <2>1, <2>2, <2>3, <2>5, <2>6, <2>7 DEF CommandInv
<1>. QED BY <1>1, <1>3, <1>4

(* The position that is committed and the file it goes to.                    *)
LEMMA CommitPosition ==
    ASSUME StoreInv, NEW p \in DOMAIN saves, NEW i \in open, IsNextSave(p)
    PROVE  /\ i = saves[p].id /\ i \in Ids /\ saves[p] \in Record /\ saves[p].ok
           /\ dels = {} /\ files \in [Ids -> File]
           /\ DOMAIN Without(p) = DOMAIN saves \ {p}
           /\ \A q \in DOMAIN saves \ {p} : Without(p)[q] = saves[q]
<1>1. TypeOK /\ Progress
  BY DEF StoreInv
<1>2. dels = {} /\ \A q \in DOMAIN saves : p <= q
  BY DEF IsNextSave
<1>3. PICK q \in DOMAIN saves : IsNextSave(q) /\ open = {saves[q].id}
  BY <1>1, <1>2 DEF Progress
<1>4. p = q
  BY <1>1, <1>2, <1>3 DEF IsNextSave, TypeOK
<1>5. i = saves[p].id /\ saves[p] \in Record /\ saves[p].ok /\ files \in [Ids -> File]
  BY <1>1, <1>3, <1>4 DEF TypeOK, Progress
<1>. QED BY <1>2, <1>5 DEF Without, Record

(* The write that makes a record whole keeps the command record true. *)
LEMMA CommitCommand ==
    ASSUME StoreInv, CommandInv, Commit
    PROVE  CommandInv'
<1>1. PICK p \in DOMAIN saves, i \in open :
        /\ IsNextSave(p)
        /\ \/ files' = [files EXCEPT ![i] = saves[p]] /\ Goto({}, Without(p))
           \/ UNCHANGED files /\ Fail
           \/ IgnoredCloses /\ UNCHANGED files /\ Goto({}, Without(p))
        /\ UNCHANGED <<mounted, wifi, last>>
  BY DEF Commit
<1>2. reply = "busy" /\ last.kind \in UpdateKinds \cup {"add", "import"}
  BY <1>1, BusyKinds
<1>3. last.kind \notin {"none", "delete", "set_wifi"}
  BY <1>2 DEF UpdateKinds
<1>4. /\ i = saves[p].id /\ i \in Ids /\ saves[p] \in Record /\ saves[p].ok
      /\ dels = {} /\ files \in [Ids -> File]
      /\ DOMAIN Without(p) = DOMAIN saves \ {p}
      /\ \A q \in DOMAIN saves \ {p} : Without(p)[q] = saves[q]
  BY <1>1, CommitPosition
<1>5. CASE Fail
  BY <1>1, <1>3, <1>5, QuietCommand DEF Fail
<1>6. CASE ~Fail
  <2>1. /\ last' = last /\ saves' = Without(p) /\ dels' = {}
        /\ reply' = IF DOMAIN saves \ {p} = {} THEN "ok" ELSE "busy"
    BY <1>1, <1>4, <1>6 DEF Goto
  <2>2. /\ ~IgnoredCloses => files'[i] = saves[p]
        /\ \A j \in Ids \ {i} : files'[j] = files[j]
    BY <1>1, <1>4, <1>6
  <2>3. KindInv' /\ DeleteInv' /\ DeleteTrue' /\ WifiTrue'
    BY <1>3, <2>1 DEF KindInv, DeleteInv, DeleteTrue, WifiTrue
  <2>4. CASE last.kind \in UpdateKinds \cup {"add"}
    <3>1. p = 1 /\ reply' = "ok" /\ saves[p] = last.want[1]
      BY <1>2, <2>1, <2>4 DEF CommandInv, SaveInv
    <3>2. ~CorruptTouched => i = last.id
      BY <1>2, <1>4, <2>4, <3>1 DEF CommandInv, AddInv, UpdateInv
    <3>3. ~CorruptTouched /\ ~IgnoredCloses => SaveTrue'
      BY <2>1, <2>2, <3>1, <3>2 DEF SaveTrue
    <3>4. last'.kind # "import" /\ reply' # "busy"
      BY <2>1, <2>4, <3>1 DEF UpdateKinds
    <3>. QED BY <2>3, <3>3, <3>4
             DEF CommandInv, SaveInv, AddInv, UpdateInv, ImportInv, LastSaved,
                 OthersGone
  <2>5. CASE last.kind = "import"
    <3>1. /\ DOMAIN last.want \in SUBSET Nat
          /\ DOMAIN saves \in SUBSET DOMAIN last.want
          /\ \A q \in DOMAIN saves : saves[q] = last.want[q] /\ p <= q
          /\ \A x \in Done, q \in DOMAIN saves : x < q
      BY <1>1, <1>2, <2>5 DEF CommandInv, ImportInv, IsNextSave
    <3>2. Done' = Done \cup {p} /\ DOMAIN saves' = DOMAIN saves \ {p}
      BY <1>1, <1>4, <2>1, <3>1 DEF Done
    <3>3. \A x \in Done', q \in DOMAIN saves' : x < q
      BY <3>1, <3>2
    <3>4. ImportInv'
      <4>1. \A q \in DOMAIN saves' : saves'[q] = last.want[q]
        BY <1>4, <2>1, <3>1
      <4>. QED BY <1>2, <2>1, <2>5, <3>2, <3>3, <4>1 DEF CommandInv, ImportInv
    <3>5. last.want[p].id = i /\ saves[p] = last.want[p]
          /\ p \in Nat /\ \A x \in Done : x < p /\ x \in Nat
      BY <1>1, <1>4, <3>1 DEF Done
    <3>6. ASSUME ~IgnoredCloses, NEW x \in Done'
          PROVE  \E q \in Done' : /\ IsLast(q, last.want[x].id)'
                                 /\ files'[last.want[x].id] = last.want[q]
      <4>1. CASE last.want[x].id = i
        <5>1. IsLast(p, last.want[x].id)'
          BY <2>1, <3>2, <3>5, <4>1 DEF IsLast
        <5>2. files'[last.want[x].id] = last.want[p] /\ p \in Done'
          BY <2>2, <3>2, <3>5, <3>6, <4>1
        <5>. QED BY <5>1, <5>2
      <4>2. CASE last.want[x].id # i
        <5>1. x \in Done
          BY <3>2, <3>5, <3>6, <4>2
        <5>2. PICK q \in Done : /\ IsLast(q, last.want[x].id)
                                /\ files[last.want[x].id] = last.want[q]
          BY <1>2, <2>5, <3>6, <5>1 DEF CommandInv, LastSaved
        <5>3. last.want[x].id \in Ids
          BY <1>2, <2>5, <5>1 DEF CommandInv, ImportInv, Done, Record
        <5>4. IsLast(q, last.want[x].id)'
          BY <2>1, <3>2, <3>5, <4>2, <5>2 DEF IsLast
        <5>. QED BY <2>2, <3>2, <4>2, <5>2, <5>3, <5>4
      <4>. QED BY <4>1, <4>2
    <3>7. ~IgnoredCloses => LastSaved'
      BY <2>1, <3>6 DEF LastSaved
    <3>8. ~IgnoredDeletes => OthersGone'
      <4>1. SUFFICES ASSUME ~IgnoredDeletes, NEW j \in Ids
                     PROVE  Usable(j)' = Absent \/ \E x \in Done' : last.want[x].id = j
        BY <2>1 DEF OthersGone
      <4>2. CASE j = i
        BY <3>2, <3>5, <4>2
      <4>3. CASE j # i
        <5>1. Usable(j)' = Usable(j)
          BY <2>2, <4>3, Views
        <5>2. Usable(j) = Absent \/ \E x \in Done : last.want[x].id = j
          BY <1>2, <1>4, <2>5, <4>1 DEF CommandInv, OthersGone
        <5>. QED BY <3>2, <5>1, <5>2
      <4>. QED BY <4>2, <4>3
    <3>. QED BY <2>1, <2>3, <2>5, <3>4, <3>7, <3>8
             DEF CommandInv, SaveInv, AddInv, UpdateInv, SaveTrue, UpdateKinds
  <2>. QED BY <1>2, <2>4, <2>5
<1>. QED BY <1>5, <1>6

(* A save of the network name or password touches no key and no command on one. *)
LEMMA WifiCommand ==
    ASSUME StoreInv, CommandInv, WifiCreate \/ WifiCommit
    PROVE  CommandInv'
<1>1. wifiStep # "none" /\ last' = last
  BY DEF WifiCreate, WifiCommit
<1>2. last.kind = "set_wifi"
  BY <1>1, BusyKinds
<1>3. \/ wifiStep' = "commit" /\ UNCHANGED reply
      \/ reply' = "error"
      \/ reply' = "ok" /\ (wifi' = last.want[1] \/ IgnoredCloses)
  BY DEF WifiCreate, WifiCommit, Fail, Goto
<1>4. KindInv' /\ (~IgnoredCloses => WifiTrue')
  BY <1>1, <1>2, <1>3, BusyKinds DEF KindInv, WifiTrue
<1>. QED BY <1>1, <1>2, <1>4
         DEF CommandInv, DeleteInv, SaveInv, AddInv, UpdateInv, ImportInv,
             LastSaved, OthersGone, DeleteTrue, SaveTrue, UpdateKinds

(* No command has begun at boot. *)
LEMMA InitCommand == Init => CommandInv
BY DEF Init, NoCommand, CommandInv, KindInv, DeleteInv, SaveInv, AddInv, UpdateInv,
       ImportInv, LastSaved, OthersGone, DeleteTrue, WifiTrue, SaveTrue

(* Every step of the store keeps the record of the command in progress true. *)
LEMMA StepCommand == StoreInv /\ CommandInv /\ [Next]_vars => CommandInv'
<1>. SUFFICES ASSUME StoreInv, CommandInv, [Next]_vars
              PROVE  CommandInv'
  OBVIOUS
<1>1. CASE \/ AddKey \/ RenameKey \/ SetEnabled \/ SetAdmin \/ DeleteKey
           \/ ImportKeys \/ SetWifi
  BY <1>1, CommandsBegin
<1>2. CASE Crash \/ Corrupt \/ Format
  <2>1. last'.kind = "none" /\ reply' = "none"
    BY <1>2, CorruptForgets DEF Crash, Format, Forget, NoCommand
  <2>. QED BY <2>1, QuietCommand
<1>3. CASE UNCHANGED vars
  <2>1. /\ UNCHANGED <<files, wifi, dels, saves, wifiStep, last, reply>>
        /\ Done' = Done /\ \A p, j : IsLast(p, j)' <=> IsLast(p, j)
    BY <1>3 DEF vars, disk, Done, IsLast
  <2>2. \A i : Usable(i)' = Usable(i)
    BY <2>1, Views
  <2>3. (LastSaved => LastSaved') /\ (OthersGone => OthersGone')
    BY <2>1, <2>2 DEF LastSaved, OthersGone
  <2>. QED BY <2>1, <2>3
           DEF CommandInv, KindInv, DeleteInv, SaveInv, AddInv, UpdateInv,
               ImportInv, DeleteTrue, WifiTrue, SaveTrue
<1>. QED BY <1>1, <1>2, <1>3, ZeroCommand, RemoveCommand, CreateCommand,
            CommitCommand, WifiCommand DEF Next

(* Between any two flash commits of any command, wherever power failed before,   *)
(* what is on flash is what the command found, with what it has deleted and      *)
(* saved since.                                                              *)
THEOREM CommandsTracked == Spec => []CommandInv
<1>. QED BY InitStore, StepStore, InitCommand, StepCommand, PTL DEF Spec
-----------------------------------------------------------------------------
(* What the commands promise.                                                *)

(* A completed import: the file of each id that the backup names holds the last *)
(* record with that id.                                                      *)
LEMMA ImportInstalled ==
    ASSUME StoreInv, CommandInv, ~IgnoredCloses,
           reply = "ok", last.kind = "import", NEW p \in DOMAIN last.want
    PROVE  \E q \in DOMAIN last.want :
              /\ last.want[q].id = last.want[p].id
              /\ \A x \in DOMAIN last.want :
                     last.want[x].id = last.want[p].id => x <= q
              /\ files[last.want[p].id] = last.want[q]
<1>1. Done = DOMAIN last.want
  BY DEF StoreInv, Progress, Done
<1>2. PICK q \in Done : /\ IsLast(q, last.want[p].id)
                        /\ files[last.want[p].id] = last.want[q]
  BY <1>1 DEF CommandInv, LastSaved
<1>. QED BY <1>1, <1>2 DEF IsLast

(* The usable keys are then those of the backup.                              *)
LEMMA ImportExact ==
    ASSUME StoreInv, CommandInv, ~IgnoredCloses, ~IgnoredDeletes,
           reply = "ok", last.kind = "import"
    PROVE  \A i \in Ids : Usable(i) = Stores(last.want, i)
<1>1. dels = {} /\ Done = DOMAIN last.want
  BY DEF StoreInv, Progress, Done
<1>2. /\ DOMAIN last.want \in SUBSET Nat
      /\ \A p \in DOMAIN last.want : last.want[p] \in Record /\ last.want[p].ok
  BY DEF CommandInv, ImportInv
<1>3. TAKE i \in Ids
<1>4. CASE \A p \in DOMAIN last.want : last.want[p].id # i
  <2>1. {p \in DOMAIN last.want : last.want[p].id = i} = {}
    BY <1>4
  <2>2. Usable(i) = Absent
    BY <1>1, <1>4 DEF CommandInv, OthersGone
  <2>. QED BY <2>1, <2>2 DEF Stores
<1>5. CASE \E p \in DOMAIN last.want : last.want[p].id = i
  <2>. DEFINE at == {q \in DOMAIN last.want : last.want[q].id = i}
              c == CHOOSE q \in at : \A x \in at : x <= q
  <2>1. PICK p \in at : (\A q \in at : q <= p) /\ files[i] = last.want[p]
    BY <1>5, ImportInstalled
  <2>2. at \subseteq Nat
    BY <1>2
  <2>3. c \in at /\ \A x \in at : x <= c
    BY <2>1
  <2>4. c = p
    <3>. HIDE DEF c, at
    <3>. QED BY <2>1, <2>2, <2>3
  <2>5. Stores(last.want, i) = [name |-> files[i].name, secret |-> files[i].secret,
                                enabled |-> files[i].enabled,
                                admin |-> files[i].admin]
    BY <2>1, <2>4 DEF Stores
  <2>6. files[i].kind = "record" /\ files[i].ok
    BY <1>2, <2>1 DEF Record
  <2>. QED BY <2>5, <2>6 DEF Usable
<1>. QED BY <1>4, <1>5

(* commands_keys.c, backup.c, storage.c:255 - when no flash error passes unseen   *)
(* and no corrupt record is updated, "OK" means that what was asked for is on     *)
(* flash: for every command, every backup and every place power may have failed  *)
(* before.                                                                   *)
THEOREM RepliesAreTrue ==
    ASSUME ~IgnoredCloses, ~IgnoredDeletes, ~CorruptTouched
    PROVE  Spec => []ReplyIsTrue
<1>1. ASSUME StoreInv, CommandInv PROVE ReplyIsTrue
  <2>. SUFFICES ASSUME reply = "ok" PROVE ReplyIsTrue
    BY DEF ReplyIsTrue
  <2>1. last.kind \in UpdateKinds \cup {"add", "delete", "import", "set_wifi"}
    BY <1>1 DEF StoreInv, TypeOK, Kinds, UpdateKinds, CommandInv, KindInv
  <2>2. CASE last.kind = "delete"
    BY <1>1, <2>2 DEF ReplyIsTrue, CommandInv, DeleteTrue
  <2>3. CASE last.kind = "import"
    BY <1>1, <2>3, ImportExact DEF ReplyIsTrue
  <2>4. CASE last.kind = "set_wifi"
    BY <1>1, <2>4 DEF ReplyIsTrue, CommandInv, WifiTrue
  <2>5. CASE last.kind \in UpdateKinds \cup {"add"}
    <3>1. files[last.id] = last.want[1]
      BY <1>1, <2>5 DEF CommandInv, SaveTrue
    <3>2. last.kind \notin {"delete", "import", "set_wifi"}
      BY <2>5 DEF UpdateKinds
    <3>. QED BY <3>1, <3>2 DEF ReplyIsTrue
  <2>. QED BY <2>1, <2>2, <2>3, <2>4, <2>5
<1>. QED BY <1>1, StoreSafe, CommandsTracked, PTL

(* backup.c:171 - a completed import leaves an enabled admin key, whatever the    *)
(* store held before and whichever of its deletes failed unseen, unless a later   *)
(* record of the same id overwrote each one the gate counted; and it counted one. *)
THEOREM AdminImported ==
    ASSUME ~IgnoredCloses
    PROVE  Spec => []ImportLeavesAdmin
<1>1. ASSUME StoreInv, CommandInv PROVE ImportLeavesAdmin
  <2>. SUFFICES ASSUME reply = "ok", last.kind = "import", ~AnyAdmin
                PROVE  Counted # {} /\ \A p \in Counted : Overwritten(p)
    BY DEF ImportLeavesAdmin
  <2>1. \E p \in DOMAIN last.want : last.want[p].enabled /\ last.want[p].admin
    BY <1>1 DEF CommandInv, ImportInv
  <2>2. ASSUME NEW p \in Counted, ~Overwritten(p) PROVE FALSE
    <3>1. p \in DOMAIN last.want /\ last.want[p].enabled /\ last.want[p].admin
      BY <2>2 DEF Counted
    <3>2. /\ DOMAIN last.want \in SUBSET Nat
          /\ \A q \in DOMAIN last.want : last.want[q] \in Record /\ last.want[q].ok
      BY <1>1 DEF CommandInv, ImportInv
    <3>. DEFINE i == last.want[p].id
    <3>3. PICK q \in DOMAIN last.want :
             last.want[q].id = i /\ p <= q /\ files[i] = last.want[q]
      BY <1>1, <3>1, ImportInstalled
    <3>4. q = p
      BY <2>2, <3>1, <3>2, <3>3 DEF Overwritten
    <3>5. i \in Ids /\ files[i].kind = "record" /\ files[i].ok
      BY <3>1, <3>2, <3>3, <3>4 DEF Record
    <3>6. Usable(i) # Absent
      BY <3>5, Views
    <3>. QED BY <3>1, <3>3, <3>4, <3>5, <3>6 DEF AnyAdmin
  <2>. QED BY <2>1, <2>2 DEF Counted
<1>. QED BY <1>1, StoreSafe, CommandsTracked, PTL

(* backup.c:46 - an export holds every usable key and nothing else, whatever is   *)
(* lying in /keys besides, and whatever interrupted the commands before it.    *)
THEOREM ExportsComplete == Spec => []ExportComplete
<1>1. ASSUME StoreInv PROVE ExportComplete
  <2>. SUFFICES ASSUME NEW i \in Ids PROVE Usable(i) = Stores(Exported.keys, i)
    BY DEF ExportComplete
  <2>. DEFINE ks == Exported.keys
              at == {q \in DOMAIN ks : ks[q].id = i}
  <2>1. /\ DOMAIN ks = {j \in Listed : files[j].ok}
        /\ \A j \in DOMAIN ks : ks[j] = ToBackup(files[j])
    BY DEF Exported
  <2>2. \A j \in DOMAIN ks : j \in Ids /\ ks[j].id = j
    <3>1. \A j \in Listed : files[j].ok => j \in Ids /\ files[j].id = j
      BY <1>1 DEF StoreInv, IdsMatch, Listed, Gettable
    <3>2. \A r : ToBackup(r).id = r.id
      BY DEF ToBackup
    <3>. HIDE DEF ks
    <3>. QED BY <2>1, <3>1, <3>2
  <2>3. i \in DOMAIN ks <=> files[i].kind = "record" /\ files[i].ok
    BY <2>1 DEF Listed, Gettable
  <2>. HIDE DEF ks
  <2>4. at = IF i \in DOMAIN ks THEN {i} ELSE {}
    BY <2>2
  <2>5. CASE i \notin DOMAIN ks
    <3>1. Stores(ks, i) = Absent
      BY <2>4, <2>5 DEF Stores
    <3>. QED BY <2>3, <2>5, <3>1, Views DEF ks
  <2>6. CASE i \in DOMAIN ks
    <3>1. i <= i
      BY <2>2, <2>6, KeyIdMaxAssumption DEF Ids
    <3>2. (CHOOSE q \in at : \A x \in at : x <= q) = i
      BY <2>4, <2>6, <3>1
    <3>3. Stores(ks, i) = [name |-> ks[i].name, secret |-> ks[i].secret,
                           enabled |-> ks[i].enabled, admin |-> ks[i].admin]
      BY <2>4, <2>6, <3>2 DEF Stores
    <3>4. ks[i] = ToBackup(files[i])
      BY <2>1, <2>6
    <3>. QED BY <2>3, <2>6, <3>3, <3>4 DEF Usable, ToBackup, ks
  <2>. QED BY <2>5, <2>6
<1>. QED BY <1>1, StoreSafe, PTL

(* Which files a step changes, as far as the usable keys show it.             *)
FilesKept == \A i \in Ids : Usable(i)' = Usable(i)

(* What one step can do to the keys a reader sees: nothing, take one away during a
   delete or an import, or bring the record being saved into use. *)
LEMMA FileSteps ==
    ASSUME StoreInv, CommandInv, Next
    PROVE  \/ FilesKept
           \/ /\ last.kind \in {"delete", "import"} /\ last' = last
              /\ \E i \in dels :
                    /\ Usable(i)' = Absent
                    /\ \A j \in Ids \ {i} : Usable(j)' = Usable(j)
           \/ /\ last.kind \in UpdateKinds \cup {"add", "import"} /\ last' = last
              /\ reply = "busy"
              /\ \E p \in DOMAIN saves :
                    /\ saves[p] \in Record /\ saves[p].ok
                    /\ files'[saves[p].id] = saves[p]
                    /\ \A j \in Ids \ {saves[p].id} : Usable(j)' = Usable(j)
           \/ Corrupt
           \/ Format
<1>1. UNCHANGED files => FilesKept
  BY Views DEF FilesKept
<1>2. CASE \/ AddKey \/ RenameKey \/ SetEnabled \/ SetAdmin \/ DeleteKey
           \/ ImportKeys
  BY <1>1, <1>2 DEF AddKey, RenameKey, SetEnabled, SetAdmin, DeleteKey, ImportKeys,
                    Begin, Refuse, disk
<1>3. CASE SetWifi \/ WifiCreate \/ WifiCommit \/ Crash
  BY <1>1, <1>3 DEF SetWifi, Refuse, disk, WifiCreate, WifiCommit, Crash
<1>4. CASE Zero \/ Remove
  <2>1. PICK i \in dels : /\ \/ UNCHANGED files
                             \/ files' = [files EXCEPT ![i] = Zeroed]
                             \/ files' = [files EXCEPT ![i] = Absent]
                          /\ last' = last
    <3>1. CASE Zero
      BY <3>1 DEF Zero
    <3>2. CASE Remove
      <4>1. PICK i \in open : /\ dels # {}
                              /\ \/ UNCHANGED files
                                 \/ files' = [files EXCEPT ![i] = Absent]
                              /\ last' = last
        BY <3>2 DEF Remove
      <4>2. i \in dels
        BY <4>1 DEF StoreInv, Progress, IsNextSave
      <4>. QED BY <4>1, <4>2
    <3>. QED BY <1>4, <3>1, <3>2
  <2>2. i \in Ids /\ files \in [Ids -> File]
    BY <2>1 DEF StoreInv, TypeOK
  <2>3. last.kind \in {"delete", "import"}
    BY <2>1, BusyKinds
  <2>4. CASE UNCHANGED files
    BY <1>1, <2>4
  <2>5. CASE ~UNCHANGED files
    <3>1. files'[i] \in {Zeroed, Absent} /\ \A j \in Ids \ {i} : files'[j] = files[j]
      BY <2>1, <2>2, <2>5
    <3>2. View(Zeroed) = Absent /\ View(Absent) = Absent
      BY GoodRecords, FileKinds, Views
    <3>. QED BY <2>1, <2>3, <3>1, <3>2, Views
  <2>. QED BY <2>4, <2>5
<1>5. CASE Create
  BY <1>5, CreateFiles DEF FilesKept
<1>6. CASE Commit
  <2>1. PICK p \in DOMAIN saves, i \in open :
          /\ IsNextSave(p)
          /\ files' = [files EXCEPT ![i] = saves[p]] \/ UNCHANGED files
          /\ last' = last
    BY <1>6 DEF Commit
  <2>2. /\ i = saves[p].id /\ i \in Ids /\ saves[p] \in Record /\ saves[p].ok
        /\ files \in [Ids -> File]
    BY <2>1, CommitPosition
  <2>3. reply = "busy" /\ last.kind \in UpdateKinds \cup {"add", "import"}
    BY <2>1, BusyKinds
  <2>4. CASE UNCHANGED files
    BY <1>1, <2>4
  <2>5. CASE ~UNCHANGED files
    <3>1. files'[i] = saves[p] /\ \A j \in Ids \ {i} : files'[j] = files[j]
      BY <2>1, <2>2, <2>5
    <3>. QED BY <2>1, <2>2, <2>3, <3>1, Views
  <2>. QED BY <2>4, <2>5
<1>. QED BY <1>2, <1>3, <1>4, <1>5, <1>6 DEF Next

(* An update that commits finds a usable key and writes it back with its id and   *)
(* all but one field unchanged.                                              *)
LEMMA UpdateCommits ==
    ASSUME StoreInv, CommandInv, ~CorruptTouched, reply = "busy",
           last.kind \in UpdateKinds, NEW p \in DOMAIN saves
    PROVE  /\ p = 1 /\ saves[p].id = last.id /\ last.id \in Ids
           /\ files[last.id] \in Record /\ files[last.id].ok
           /\ Edited(last.kind, files[last.id], saves[p])
<1>1. p = 1 /\ last.id \in Ids
  BY DEF CommandInv, SaveInv
<1>2. /\ saves[1].id = last.id
      /\ files[last.id].kind = "record" /\ files[last.id].ok
      /\ Edited(last.kind, files[last.id], saves[1])
  BY DEF CommandInv, UpdateInv
<1>3. files[last.id] \in Record
  BY <1>1, <1>2, FileKinds DEF StoreInv, TypeOK
<1>. QED BY <1>1, <1>2, <1>3

(* No edit of a record changes its secret. *)
LEMMA EditKeepsSecret ==
    ASSUME NEW kind, NEW old \in Record, NEW new, Edited(kind, old, new)
    PROVE  new.secret = old.secret
BY DEF Edited, Record

(* COMMANDS.md, commands_keys.c:269 - an update leaves every secret as it was and  *)
(* every key usable, wherever power fails, as long as operators do not update     *)
(* records that list-keys shows as corrupt.                                  *)
THEOREM SecretsKept ==
    ASSUME ~CorruptTouched
    PROVE  Spec => UpdateKeepsSecrets
<1>. DEFINE Kept == last'.kind \in UpdateKinds
                      => \A i \in Ids :
                            Usable(i) # Absent
                              => /\ Usable(i)' # Absent
                                 /\ files'[i].secret = files[i].secret
<1>1. ASSUME StoreInv, CommandInv, Next PROVE Kept
  <2>. SUFFICES ASSUME last'.kind \in UpdateKinds, NEW i \in Ids, Usable(i) # Absent
                PROVE  Usable(i)' # Absent /\ files'[i].secret = files[i].secret
    OBVIOUS
  <2>1. CASE Usable(i)' = Usable(i)
    <3>1. /\ files[i].kind = "record" /\ files[i].ok
          /\ files'[i].kind = "record" /\ files'[i].ok
      BY <2>1, Views
    <3>2. Usable(i).secret = files[i].secret /\ Usable(i)'.secret = files'[i].secret
      BY <3>1 DEF Usable
    <3>. QED BY <2>1, <3>2
  <2>2. CASE Usable(i)' # Usable(i)
    <3>1. ~(Corrupt \/ Format)
      BY CorruptForgets DEF Format, Forget, NoCommand, UpdateKinds
    <3>2. ~(last.kind \in {"delete", "import"} /\ last' = last)
      BY DEF UpdateKinds
    <3>3. PICK p \in DOMAIN saves :
            /\ saves[p] \in Record /\ saves[p].ok /\ reply = "busy" /\ last' = last
            /\ files'[saves[p].id] = saves[p]
            /\ \A j \in Ids \ {saves[p].id} : Usable(j)' = Usable(j)
      BY <1>1, <2>2, <3>1, <3>2, FileSteps DEF FilesKept
    <3>4. /\ saves[p].id = last.id /\ files[last.id] \in Record
          /\ Edited(last.kind, files[last.id], saves[p])
      BY <1>1, <3>3, UpdateCommits
    <3>5. i = last.id
      BY <2>2, <3>3, <3>4
    <3>6. files'[i] = saves[p] /\ saves[p].secret = files[i].secret
      BY <3>3, <3>4, <3>5, EditKeepsSecret
    <3>7. Usable(i)' # Absent
      BY <3>3, <3>6, Views DEF Record
    <3>. QED BY <3>6, <3>7
  <2>. QED BY <2>1, <2>2
<1>2. ASSUME StoreInv, CommandInv, [Next]_vars PROVE [Kept]_vars
  BY <1>1, <1>2
<1>. HIDE DEF Kept
<1>3. Spec => [][Kept]_vars
  BY <1>2, StoreSafe, CommandsTracked, PTL DEF Spec
<1>4. UpdateKeepsSecrets <=> [][Kept]_vars
  BY PTL DEF UpdateKeepsSecrets, Kept, UpdateKinds
<1>. QED BY <1>3, <1>4
-----------------------------------------------------------------------------
(* The files implement a map of keys (KeyMap).                               *)

Key == [name: AllNames, secret: AllSecrets, enabled: BOOLEAN, admin: BOOLEAN]
TheMap == [i \in Ids |-> Usable(i)]
TheJob == [kind |-> last.kind, id |-> last.id]

(* A record with a right checksum reads as a key of the abstract map. *)
LEMMA ViewsAreKeys ==
    \A r \in Record : r.ok => View(r) \in Key
BY DEF View, Record, Key

(* Editing a record edits what is seen of it, in the one field.               *)
LEMMA EditedView ==
    ASSUME NEW kind, NEW old \in Record, NEW new \in Record, old.ok, new.ok,
           Edited(kind, old, new)
    PROVE  KM!Updated(kind, View(old), View(new))
<1>1. /\ View(old) = [name |-> old.name, secret |-> old.secret,
                      enabled |-> old.enabled, admin |-> old.admin]
      /\ View(new) = [name |-> new.name, secret |-> new.secret,
                      enabled |-> new.enabled, admin |-> new.admin]
  BY DEF View, Record
<1>2. CASE kind = "rename" /\ new = [old EXCEPT !.name = new.name]
  <2>1. new.secret = old.secret /\ new.enabled = old.enabled /\ new.admin = old.admin
    BY <1>2 DEF Record
  <2>. QED BY <1>1, <1>2, <2>1 DEF KM!Updated
<1>3. CASE kind = "set_enabled" /\ new = [old EXCEPT !.enabled = new.enabled]
  <2>1. new.secret = old.secret /\ new.name = old.name /\ new.admin = old.admin
    BY <1>3 DEF Record
  <2>. QED BY <1>1, <1>3, <2>1 DEF KM!Updated
<1>4. CASE kind = "set_admin" /\ new = [old EXCEPT !.admin = new.admin]
  <2>1. new.secret = old.secret /\ new.name = old.name /\ new.enabled = old.enabled
    BY <1>4 DEF Record
  <2>. QED BY <1>1, <1>4, <2>1 DEF KM!Updated
<1>. QED BY <1>2, <1>3, <1>4 DEF Edited

(* A change of one key is an EXCEPT of the map.                               *)
LEMMA OneKeyChanges ==
    ASSUME NEW i \in Ids, \A j \in Ids \ {i} : Usable(j)' = Usable(j)
    PROVE  TheMap' = [TheMap EXCEPT ![i] = Usable(i)']
BY DEF TheMap

(* Steps that keep the files keep the abstract map. *)
LEMMA NoKeyChanges == FilesKept => TheMap' = TheMap
BY DEF TheMap, FilesKept

(* Every step of the files is a step of the map or leaves it alone.           *)
LEMMA MapStep ==
    ASSUME StoreInv, CommandInv, ~CorruptTouched, Next
    PROVE  [KM!Next]_(KM!vars)
<1>1. CASE FilesKept
  <2>1. TheMap' = TheMap
    BY <1>1, NoKeyChanges
  <2>2. CASE TheJob' = TheJob
    BY <2>1, <2>2 DEF KM!vars, TheMap, TheJob
  <2>3. CASE TheJob' # TheJob
    <3>1. KM!ChangeJob
      BY <2>1, <2>3 DEF KM!ChangeJob, TheMap, TheJob
    <3>. QED BY <3>1 DEF KM!Next
  <2>. QED BY <2>2, <2>3
<1>2. CASE /\ last.kind \in {"delete", "import"} /\ last' = last
           /\ \E i \in dels :
                 /\ Usable(i)' = Absent
                 /\ \A j \in Ids \ {i} : Usable(j)' = Usable(j)
  <2>1. PICK i \in dels : /\ Usable(i)' = Absent
                          /\ \A j \in Ids \ {i} : Usable(j)' = Usable(j)
    BY <1>2
  <2>2. i \in Ids
    BY <2>1 DEF StoreInv, TypeOK
  <2>3. TheMap' = [TheMap EXCEPT ![i] = Absent]
    BY <2>1, <2>2, OneKeyChanges
  <2>4. TheJob' = TheJob /\ TheJob.kind = last.kind /\ TheJob.id = last.id
    BY <1>2 DEF TheJob
  <2>5. CASE last.kind = "delete"
    <3>1. last.id = i
      BY <2>1, <2>5, BusyKinds DEF CommandInv, DeleteInv
    <3>2. KM!Delete
      BY <2>2, <2>3, <2>4, <2>5, <3>1 DEF KM!Delete, TheMap, TheJob
    <3>. QED BY <3>2 DEF KM!Next
  <2>6. CASE last.kind = "import"
    <3>1. KM!ImportOne
      BY <2>2, <2>3, <2>4, <2>6 DEF KM!ImportOne, TheMap, TheJob
    <3>. QED BY <3>1 DEF KM!Next
  <2>. QED BY <1>2, <2>5, <2>6
<1>3. CASE /\ last.kind \in UpdateKinds \cup {"add", "import"} /\ last' = last
           /\ reply = "busy"
           /\ \E p \in DOMAIN saves :
                 /\ saves[p] \in Record /\ saves[p].ok
                 /\ files'[saves[p].id] = saves[p]
                 /\ \A j \in Ids \ {saves[p].id} : Usable(j)' = Usable(j)
  <2>1. PICK p \in DOMAIN saves :
                 /\ saves[p] \in Record /\ saves[p].ok
                 /\ files'[saves[p].id] = saves[p]
                 /\ \A j \in Ids \ {saves[p].id} : Usable(j)' = Usable(j)
    BY <1>3
  <2>. DEFINE k == View(saves[p])
  <2>2. PICK i \in Ids : i = saves[p].id
    BY <2>1 DEF Record
  <2>3. k \in Key /\ Usable(i)' = k
    BY <2>1, <2>2, ViewsAreKeys, Views
  <2>4. TheMap' = [TheMap EXCEPT ![i] = k]
    BY <2>1, <2>2, <2>3, OneKeyChanges
  <2>5. TheJob' = TheJob /\ TheJob.kind = last.kind /\ TheJob.id = last.id
    BY <1>3 DEF TheJob
  <2>6. CASE last.kind = "add"
    <3>1. p = 1 /\ i = last.id /\ files[i].kind # "record"
      BY <1>3, <2>1, <2>2, <2>6 DEF CommandInv, SaveInv, AddInv
    <3>2. TheMap[i] = Absent
      BY <2>2, <3>1, Views DEF TheMap
    <3>. HIDE DEF k
    <3>3. KM!Add
      BY <2>2, <2>3, <2>4, <2>5, <2>6, <3>1, <3>2 DEF KM!Add, TheMap, TheJob, Key
    <3>. QED BY <3>3 DEF KM!Next
  <2>7. CASE last.kind \in UpdateKinds
    <3>1. /\ i = last.id /\ files[i] \in Record /\ files[i].ok
          /\ Edited(last.kind, files[i], saves[p])
      BY <1>3, <2>1, <2>2, <2>7, UpdateCommits
    <3>2. TheMap[i] = View(files[i]) /\ TheMap[i] # Absent
      BY <2>2, <3>1, Views DEF TheMap, Record
    <3>3. KM!Updated(last.kind, TheMap[i], k)
      BY <2>1, <3>1, <3>2, EditedView
    <3>. HIDE DEF k
    <3>4. KM!Update
      BY <2>2, <2>3, <2>4, <2>5, <3>1, <3>2, <3>3 DEF KM!Update, TheMap, TheJob, Key
    <3>. QED BY <3>4 DEF KM!Next
  <2>8. CASE last.kind = "import"
    <3>. HIDE DEF k
    <3>1. KM!ImportOne
      BY <2>2, <2>3, <2>4, <2>5, <2>8 DEF KM!ImportOne, TheMap, TheJob, Key
    <3>. QED BY <3>1 DEF KM!Next
  <2>. QED BY <1>3, <2>6, <2>7, <2>8
<1>4. CASE Corrupt
  <2>1. PICK i, k \in Ids :
           /\ Gettable(i) /\ last' = NoCommand
           /\ files' = [files EXCEPT ![i] = [@ EXCEPT !.ok = FALSE, !.id = k]]
    BY <1>4 DEF Corrupt, Forget
  <2>2. files[i] \in Record
    BY <2>1, FileKinds DEF StoreInv, TypeOK, Gettable
  <2>3. ~files'[i].ok /\ \A j \in Ids \ {i} : files'[j] = files[j]
    BY <2>1, <2>2 DEF StoreInv, TypeOK, Record
  <2>4. Usable(i)' = Absent /\ \A j \in Ids \ {i} : Usable(j)' = Usable(j)
    BY <2>3, Views
  <2>5. TheMap' = [TheMap EXCEPT ![i] = Absent]
    BY <2>4, OneKeyChanges
  <2>6. KM!Rot
    BY <2>1, <2>5 DEF KM!Rot, TheMap, NoCommand
  <2>. QED BY <2>6 DEF KM!Next
<1>5. CASE Format
  <2>1. files' = [i \in Ids |-> Absent] /\ last' = NoCommand
    BY <1>5 DEF Format, Forget
  <2>2. \A i \in Ids : Usable(i)' = Absent
    BY <2>1, FileKinds, Views
  <2>3. KM!Format
    BY <2>1, <2>2 DEF KM!Format, NoCommand
  <2>. QED BY <2>3 DEF KM!Next
<1>. QED BY <1>1, <1>2, <1>3, <1>4, <1>5, FileSteps

(* With power cuts and flash errors at every commit, and whether or not the      *)
(* ignored ones occur, the files behave as a map of keys on which each single-key *)
(* command acts all at once and on its own id alone, and an update changes one    *)
(* field of a key that is there.                                             *)
THEOREM StoreIsKeyMap ==
    ASSUME ~CorruptTouched
    PROVE  Spec => ImplementsKeyMap
<1>1. Init => KM!Init
  <2>. SUFFICES ASSUME Init PROVE KM!Init
    OBVIOUS
  <2>1. \A i \in Ids : Usable(i) = Absent
    BY FileKinds, Views DEF Init
  <2>. QED BY <2>1 DEF KM!Init, Init, NoCommand
<1>2. ASSUME StoreInv, CommandInv, [Next]_vars PROVE [KM!Next]_(KM!vars)
  <2>1. CASE Next
    BY <1>2, <2>1, MapStep
  <2>2. CASE UNCHANGED vars
    <3>1. TheMap' = TheMap /\ TheJob' = TheJob
      BY <2>2, Views DEF vars, disk, TheMap, TheJob
    <3>. QED BY <3>1 DEF KM!vars, TheMap, TheJob
  <2>. QED BY <1>2, <2>1, <2>2
<1>. QED BY <1>1, <1>2, StoreSafe, CommandsTracked, PTL
         DEF Spec, ImplementsKeyMap, KM!Spec
=============================================================================
