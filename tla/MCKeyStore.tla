----------------------------- MODULE MCKeyStore -----------------------------
(***************************************************************************)
(* KeyStore on two key ids and two networks.  The backups cover each gate of   *)
(* backup_import: damaged, empty, without an admin, an id out of range; and    *)
(* three more: both keys, key 1 only, and key 0 twice.                        *)
(***************************************************************************)
EXTENDS KeyStore

K(i, s, e, a) ==
    [id |-> i, name |-> "n", secret |-> s, enabled |-> e, admin |-> a]
Blob(ks) == [intact |-> TRUE, keys |-> ks]

MCTypedIds == {0, 1, 2}
MCNames == {"n", "m"}
MCSecrets == {"s", "t"}
MCNetworks == {"u", "v"}

MCRefused ==
    {[intact |-> FALSE, keys |-> <<K(0, "s", TRUE, TRUE)>>],
     Blob(<<>>),
     Blob(<<K(0, "s", TRUE, FALSE), K(1, "s", FALSE, TRUE)>>),
     Blob(<<K(0, "s", TRUE, TRUE), K(2, "s", TRUE, TRUE)>>)}
MCBackups ==
    MCRefused \cup
    {Blob(<<K(1, "t", TRUE, TRUE), K(0, "s", FALSE, TRUE)>>),
     Blob(<<K(1, "s", TRUE, TRUE)>>),
     Blob(<<K(0, "s", TRUE, TRUE), K(0, "t", TRUE, FALSE)>>)}
=============================================================================
