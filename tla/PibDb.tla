------------------------------- MODULE PibDb -------------------------------
(***************************************************************************)
(* tools/pib/pib-db.cpp: the database of the PIB service. A database is a  *)
(* record of its tables; every operator below is one SQL statement         *)
(* together with the triggers it fires and the deletions it cascades to,   *)
(* which SQLite commits as one transaction. The rows whose is_default is 1 *)
(* are a set, so that nothing but the triggers keeps them apart.           *)
(*                                                                         *)
(* Rows are joined by name here and by row id in the code; a row's parent  *)
(* is looked up by name when the row is inserted, and never changes.       *)
(***************************************************************************)
EXTENDS Naturals, Sequences

CONSTANTS Identities, KeyNames, CertNames,
          IdentityOf,   \* keyName.getPrefix(-1)
          KeyOf,        \* the public key name of a certificate name
          KeyBits,      \* the public keys themselves
          NoKey,        \* no row in the table keys
          NON_EXISTING_IDENTITY, NON_EXISTING_KEY,  \* what the getters of
          NON_EXISTING_CERTIFICATE                  \* defaults give without one

ASSUME NamesAssumption ==
  /\ IdentityOf \in [KeyNames -> Identities]
  /\ KeyOf \in [CertNames -> KeyNames]

\* Nothing keeps rows from being stored under the first two reserved names; the
\* third is not the name of an IdentityCertificate.
ASSUME NullsAssumption ==
  /\ NoKey \notin KeyBits
  /\ NON_EXISTING_CERTIFICATE \notin CertNames

Databases == [ids : SUBSET Identities, defaultIds : SUBSET Identities,
              keys : [KeyNames -> KeyBits \cup {NoKey}], defaultKeys : SUBSET KeyNames,
              certs : SUBSET CertNames, defaultCerts : SUBSET CertNames]

EmptyDb == [ids |-> {}, defaultIds |-> {},
            keys |-> [k \in KeyNames |-> NoKey], defaultKeys |-> {},
            certs |-> {}, defaultCerts |-> {}]

StoredKeys(d) == {k \in KeyNames : d.keys[k] # NoKey}
KeysOfIds(ids) == {k \in KeyNames : IdentityOf[k] \in ids}
CertsOfKeys(keys) == {c \in CertNames : KeyOf[c] \in keys}
Siblings_All(k) == KeyNames     \* mutant: the trigger has no WHERE identity_id
Siblings(k) == KeysOfIds({IdentityOf[k]})
SameKey(c) == CertsOfKeys({KeyOf[c]})

-----------------------------------------------------------------------------
(* The triggers. They are stated on the set def of the default rows of a
   table, and peers, the rows under the same parent. *)

\* the update triggers: is_default := 1 at row clears the peers first
MarkDefault(def, peers, row) == (def \ peers) \cup {row}

\* the after-insert triggers: a new row becomes the default where there is none
InsertDefault(def, peers, row) ==
  IF def \cap peers = {} THEN MarkDefault(def, peers, row) ELSE def

-----------------------------------------------------------------------------
(* Insertions: the unique indexes reject a name that is there already *)

AddIdentity(d, i) ==
  IF i \in d.ids THEN d
  ELSE [d EXCEPT !.ids = @ \cup {i},
                 !.defaultIds = InsertDefault(@, Identities, i)]

\* identity_id NOT NULL: the identity must be there
InsertKey(d, k, bits) ==
  IF k \in StoredKeys(d) \/ IdentityOf[k] \notin d.ids THEN d
  ELSE [d EXCEPT !.keys = [@ EXCEPT ![k] = bits],
                 !.defaultKeys = InsertDefault(@, Siblings(k), k)]

InsertCertificate(d, c) ==
  IF c \in d.certs \/ KeyOf[c] \notin StoredKeys(d) THEN d
  ELSE [d EXCEPT !.certs = @ \cup {c},
                 !.defaultCerts = InsertDefault(@, SameKey(c), c)]

(* Deletions, with ON DELETE CASCADE *)

DeleteCertificates(d, certs) ==
  [d EXCEPT !.certs = @ \ certs, !.defaultCerts = @ \ certs]

\* mutant: foreign_keys is off, as it is by default in SQLite
DeleteKeys_NoCascade(d, keys) ==
  [d EXCEPT !.keys = [k \in KeyNames |-> IF k \in keys THEN NoKey ELSE @[k]],
            !.defaultKeys = @ \ keys]
DeleteKeys(d, keys) ==
  [DeleteCertificates(d, CertsOfKeys(keys)) EXCEPT
     !.keys = [k \in KeyNames |-> IF k \in keys THEN NoKey ELSE @[k]],
     !.defaultKeys = @ \ keys]

DeleteIdentity(d, i) ==
  [DeleteKeys(d, KeysOfIds({i})) EXCEPT !.ids = @ \ {i}, !.defaultIds = @ \ {i}]

(* The statements that make a row the default one. Without such a row, or
   when it is the default already, nothing happens. *)

SetDefaultIdentity(d, i) ==
  IF i \in d.ids /\ i \notin d.defaultIds
  THEN [d EXCEPT !.defaultIds = MarkDefault(@, Identities, i)] ELSE d

SetDefaultKeyNameOfIdentity(d, k) ==
  IF k \in StoredKeys(d) /\ k \notin d.defaultKeys
  THEN [d EXCEPT !.defaultKeys = MarkDefault(@, Siblings(k), k)] ELSE d

SetDefaultCertNameOfKey(d, c) ==
  IF c \in d.certs /\ c \notin d.defaultCerts
  THEN [d EXCEPT !.defaultCerts = MarkDefault(@, SameKey(c), c)] ELSE d

\* queries
GetDefaultKeyNameOfIdentity(d, i) ==
  IF d.defaultKeys \cap KeysOfIds({i}) = {} THEN NON_EXISTING_KEY
  ELSE CHOOSE k \in d.defaultKeys : IdentityOf[k] = i

-----------------------------------------------------------------------------
\* No key without its identity, no certificate without its key, and no default
\* that is not a row of its table.
NoOrphans(d) ==
  /\ \A k \in StoredKeys(d) : IdentityOf[k] \in d.ids
  /\ \A c \in d.certs : KeyOf[c] \in StoredKeys(d)
  /\ d.defaultIds \subseteq d.ids
  /\ d.defaultKeys \subseteq StoredKeys(d)
  /\ d.defaultCerts \subseteq d.certs

\* At most one default identity, default key of an identity and default
\* certificate of a key: the getters take the first row they find.
OneDefault(d) ==
  /\ \A i, j \in d.defaultIds : i = j
  /\ \A k, l \in d.defaultKeys : IdentityOf[k] = IdentityOf[l] => k = l
  /\ \A b, c \in d.defaultCerts : KeyOf[b] = KeyOf[c] => b = c
=============================================================================
