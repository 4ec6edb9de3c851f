-------------------------------- MODULE Pib --------------------------------
(***************************************************************************)
(* tools/pib: the service in front of the database PibDb. It validates a   *)
(* signed command, decides whether its signer may give it, runs the SQL    *)
(* statements of the command one after the other and replies. Meanwhile    *)
(* the signals of the database keep three things in memory up to date: the *)
(* validator's key cache and management certificate, and the certificates  *)
(* the publisher serves.                                                   *)
(*                                                                         *)
(* There is one thread, so no other event comes between the statements of  *)
(* a command, but each of them is a transaction: the process may end       *)
(* between two of them and start again on what the database holds.         *)
(***************************************************************************)
EXTENDS PibDb

CONSTANTS MgmtCerts,      \* certificates of the owner's management identity
          MgmtId,         \* that identity, /localhost/pib/[owner]/mgmt
          Reserved,       \* the names under /localhost/pib
          Below,          \* the names an identity's name is a prefix of
          Prefixes, PrefixOf,  \* certificate names without their version
          Opts,           \* default options: any integer is cast to one
          Capacity        \* m_capacity of the key cache

ASSUME ServiceAssumption ==
  /\ Reserved \subseteq Identities \cup KeyNames \cup CertNames
  /\ MgmtId \in Reserved
  /\ Opts \subseteq Nat
  /\ Below \in [Identities -> SUBSET (Identities \cup KeyNames \cup CertNames)]
  /\ PrefixOf \in [CertNames -> Prefixes]
  /\ Capacity \in Nat \ {0}
  /\ KeyNames \cap MgmtCerts = {}

VARIABLES db,             \* the tables identities, keys and certificates
          mgmt,           \* local_management_cert in the table mgmt
          up,             \* whether the process runs
          m_mgmtCert,     \* Pib::m_mgmtCert
          validatorCert,  \* PibValidator::m_mgmtCert
          keyCache,       \* PibValidator::m_keyCache by name: the bits, or NoKey
          usedTimes,      \* and by the time of use, the least recently used first
          responseCache,  \* CertPublisher::m_responseCache, the certificate names
          registered,     \* CertPublisher::m_registeredPrefixes
          request, step   \* the command in progress, its next statement

cache == <<keyCache, usedTimes>>
memory == <<m_mgmtCert, validatorCert, cache, responseCache, registered>>
vars == <<db, mgmt, up, memory, request, step>>

DEFAULT_OPT == [NO |-> 0, KEY |-> 1, ID |-> 3, USER |-> 7]
DEFAULT_OPT_MASK == [KEY |-> 1, ID |-> 2, USER |-> 4]
\* the masks opt has a bit of
Masks(opt) == {name \in DOMAIN DEFAULT_OPT_MASK : (opt \div DEFAULT_OPT_MASK[name]) % 2 = 1}

Signers == MgmtCerts \cup KeyNames     \* by the key locator of the signature
Targets == [id |-> Identities, key |-> KeyNames, cert |-> CertNames]
Updates(type) == [op : {"update"}, type : {type}, target : Targets[type],
                  bits : KeyBits, opt : Opts]
Deletes(type) == [op : {"delete"}, type : {type}, target : Targets[type]]
Requests == UNION {Updates(t) \cup Deletes(t) : t \in {"id", "key", "cert"}}
NoRequest == [op |-> "none"]

TypeOK ==
  /\ db \in Databases
  /\ mgmt \in MgmtCerts
  /\ up \in BOOLEAN
  /\ m_mgmtCert \in MgmtCerts /\ validatorCert \in MgmtCerts
  /\ keyCache \in [KeyNames -> KeyBits \cup {NoKey}]
  /\ usedTimes \in Seq(KeyNames) /\ Len(usedTimes) <= Capacity
  /\ responseCache \in SUBSET CertNames
  /\ registered \in SUBSET Prefixes
  /\ request \in Requests \cup {NoRequest}
  /\ step \in Nat

-----------------------------------------------------------------------------
(* KeyCache, a container with two indexes *)

NothingCached == [k \in KeyNames |-> NoKey]
Cached(k) == k \in KeyNames /\ keyCache[k] # NoKey

\* what is left of the index by the time of use without the entries of gone
Without(times, gone) ==
  LET left[n \in 0 .. Len(times)] ==
        IF n = 0 THEN << >>
        ELSE IF times[n] \in gone THEN left[n - 1] ELSE Append(left[n - 1], times[n])
  IN left[Len(times)]

\* find(): the entry found becomes the most recently used
AdjustLru(k) ==
  /\ usedTimes' = Append(Without(usedTimes, {k}), k)
  /\ UNCHANGED keyCache

\* insert() of a key that find() did not return: the capacity is looked at first
IsFull_OneMore == Len(usedTimes) > Capacity       \* mutant: one entry too many
IsFull == Len(usedTimes) >= Capacity
InsertEntry(k, bits) ==
  /\ usedTimes' = Append(IF IsFull THEN Tail(usedTimes) ELSE usedTimes, k)
  /\ keyCache' = [l \in KeyNames |->
                    IF l = k THEN bits
                    ELSE IF IsFull /\ l = Head(usedTimes) THEN NoKey ELSE keyCache[l]]

(* PibValidator: which key verifies the signature of signer, and the cache
   after looking for it *)

LookUp(signer) ==
  IF signer = validatorCert THEN UNCHANGED cache
  ELSE IF Cached(signer) THEN AdjustLru(signer)
  ELSE IF signer \in StoredKeys(db) THEN InsertEntry(signer, db.keys[signer])
  ELSE UNCHANGED cache

\* signedWith: the public key that belongs to the signature
Verifies(signer, signedWith) ==
  \/ signer = validatorCert
  \/ Cached(signer) /\ keyCache[signer] = signedWith
  \/ ~Cached(signer) /\ signer \in StoredKeys(db) /\ db.keys[signer] = signedWith

-----------------------------------------------------------------------------
(* UpdateQueryProcessor and DeleteQueryProcessor: whether signer is allowed *)

OwnerOf(r) == CASE r.type = "id" -> r.target
                [] r.type = "key" -> IdentityOf[r.target]
                [] r.type = "cert" -> IdentityOf[KeyOf[r.target]]

IsDefaultKey(signer) == GetDefaultKeyNameOfIdentity(db, IdentityOf[signer]) = signer

IsUpdateAllowed(r, signer) ==
  /\ r.target \notin Reserved
  /\ ~(r.opt = DEFAULT_OPT.ID /\ r.type = "id")
  /\ ~(r.opt = DEFAULT_OPT.KEY /\ r.type # "cert")
  /\ \/ signer = mgmt
     \/ /\ signer \in KeyNames /\ IsDefaultKey(signer)
        /\ r.target \in Below[IdentityOf[signer]]
        /\ r.opt # DEFAULT_OPT.USER
     \/ /\ signer \in KeyNames /\ ~IsDefaultKey(signer)
        /\ r.type = "cert" /\ KeyOf[r.target] = signer
        /\ r.opt \notin {DEFAULT_OPT.USER, DEFAULT_OPT.ID}

IsDeleteAllowed(r, signer) ==
  /\ r.target \notin Reserved
  /\ \/ signer = mgmt
     \/ /\ signer \in KeyNames /\ IsDefaultKey(signer)
        /\ r.target \in Below[IdentityOf[signer]]
     \/ /\ signer \in KeyNames /\ ~IsDefaultKey(signer)
        /\ \/ r.type = "cert" /\ KeyOf[r.target] = signer
           \/ r.type = "key" /\ r.target = signer

IsAllowed(r, signer) ==
  IF r.op = "update" THEN IsUpdateAllowed(r, signer) ELSE IsDeleteAllowed(r, signer)

-----------------------------------------------------------------------------
(* The SQL statements of a command, in order *)

UpdateIdQuery(r) ==
  <<"addIdentity">> \o (IF "USER" \in Masks(r.opt) THEN <<"defaultIdentity">> ELSE << >>)

UpdateKeyQuery(r) ==
  <<"addIdentity", "insertKey">>
  \o (IF "ID" \in Masks(r.opt) THEN <<"defaultKey">> ELSE << >>)
  \o (IF "USER" \in Masks(r.opt) THEN <<"defaultIdentity">> ELSE << >>)

\* mutant: an early default setting, before the certificate is there
UpdateCertQuery_DefaultFirst(r) ==
  (IF "KEY" \in Masks(r.opt) THEN <<"defaultCert">> ELSE << >>)
  \o <<"addIdentity", "insertKey", "insertCert">>
  \o (IF "ID" \in Masks(r.opt) THEN <<"defaultKey">> ELSE << >>)
  \o (IF "USER" \in Masks(r.opt) THEN <<"defaultIdentity">> ELSE << >>)
UpdateCertQuery(r) ==
  <<"addIdentity", "insertKey", "insertCert">>
  \o (IF "KEY" \in Masks(r.opt) THEN <<"defaultCert">> ELSE << >>)
  \o (IF "ID" \in Masks(r.opt) THEN <<"defaultKey">> ELSE << >>)
  \o (IF "USER" \in Masks(r.opt) THEN <<"defaultIdentity">> ELSE << >>)

Statements(r) ==
  CASE r.op = "delete" -> <<"delete">>
    [] r.op = "update" /\ r.type = "id" -> UpdateIdQuery(r)
    [] r.op = "update" /\ r.type = "key" -> UpdateKeyQuery(r)
    [] r.op = "update" /\ r.type = "cert" -> UpdateCertQuery(r)

KeyNameOf(r) == IF r.type = "cert" THEN KeyOf[r.target] ELSE r.target

DeleteTarget(d, r) ==
  CASE r.type = "id" -> DeleteIdentity(d, r.target)
    [] r.type = "key" -> DeleteKeys(d, {r.target})
    [] r.type = "cert" -> DeleteCertificates(d, {r.target})

Execute(d, s, r) ==
  CASE s = "addIdentity" -> AddIdentity(d, OwnerOf(r))
    [] s = "insertKey" -> InsertKey(d, KeyNameOf(r), r.bits)
    [] s = "insertCert" -> InsertCertificate(d, r.target)
    [] s = "defaultIdentity" -> SetDefaultIdentity(d, OwnerOf(r))
    [] s = "defaultKey" -> SetDefaultKeyNameOfIdentity(d, KeyNameOf(r))
    [] s = "defaultCert" -> SetDefaultCertNameOfKey(d, r.target)
    [] s = "delete" -> DeleteTarget(d, r)

-----------------------------------------------------------------------------
(* The signals the triggers raise while a statement takes the tables from db
   to db' *)

\* keyDeleted: PibValidator forgets the key
ForgetKeys_Nothing == UNCHANGED cache     \* mutant: no slot is connected
ForgetKeys ==
  LET gone == StoredKeys(db) \ StoredKeys(db')
  IN /\ keyCache' = [k \in KeyNames |-> IF k \in gone THEN NoKey ELSE keyCache[k]]
     /\ usedTimes' = Without(usedTimes, gone)

\* certificateInserted: startPublish(); certificateDeleted: stopPublish(), which
\* keeps the prefix as long as another certificate has it
Served(certs) == {PrefixOf[c] : c \in certs}
StopPublish_Always(kept, gone) == registered \ Served(gone)   \* mutant: the others are not looked at
StopPublish(kept, gone) == registered \ (Served(gone) \ Served(kept))

Publish ==
  LET inserted == db'.certs \ db.certs
      deleted  == db.certs \ db'.certs
      kept     == responseCache \ deleted
  IN /\ responseCache' = kept \cup inserted
     /\ registered' = StopPublish(kept, deleted) \cup Served(inserted)

-----------------------------------------------------------------------------
\* Pib::initializeMgmtCert(): a new certificate when the private key is gone.
\* The publisher starts with what the database holds, the key cache empty.
Start(certificate) ==
  /\ mgmt' = certificate
  /\ m_mgmtCert' = certificate
  /\ validatorCert' = certificate
  /\ keyCache' = NothingCached /\ usedTimes' = << >>
  /\ responseCache' = db'.certs
  /\ registered' = Served(db'.certs)

Init ==
  /\ db = EmptyDb
  /\ up = TRUE
  /\ mgmt \in MgmtCerts /\ m_mgmtCert = mgmt /\ validatorCert = mgmt
  /\ keyCache = NothingCached /\ usedTimes = << >>
  /\ responseCache = {} /\ registered = {}
  /\ request = NoRequest /\ step = 1

\* an update or delete command whose signature verifies, from a signer that may
\* give it
Accept(r, signer, signedWith) ==
  /\ up /\ request = NoRequest
  /\ Verifies(signer, signedWith)
  /\ IsAllowed(r, signer)
  /\ LookUp(signer)
  /\ request' = r /\ step' = 1
  /\ UNCHANGED <<db, mgmt, up, m_mgmtCert, validatorCert, responseCache, registered>>

\* one that does not verify, is not allowed (ERR_WRONG_SIGNER) or is malformed
\* once validated: only the key cache has changed
Reject(signer) ==
  /\ up /\ request = NoRequest
  /\ LookUp(signer)
  /\ UNCHANGED <<db, mgmt, up, m_mgmtCert, validatorCert, responseCache, registered, request, step>>

\* the next statement of the command in progress; after the last, the reply
RunStatement ==
  /\ up /\ request # NoRequest
  /\ db' = Execute(db, Statements(request)[step], request)
  /\ ForgetKeys
  /\ Publish
  /\ IF step = Len(Statements(request))
     THEN request' = NoRequest /\ step' = 1
     ELSE step' = step + 1 /\ UNCHANGED request
  /\ UNCHANGED <<mgmt, up, m_mgmtCert, validatorCert>>

\* processUpdateUserQuery(): a new certificate of the management identity,
\* signed by a key of that identity
SignerIsMgmt(signer) == signer \in MgmtCerts \/ (signer \in KeyNames /\ IdentityOf[signer] = MgmtId)
UpdateUser(certificate) ==
  mgmt' = certificate /\ m_mgmtCert' = certificate /\ validatorCert' = certificate

ProcessUpdateUser(certificate, signer, signedWith) ==
  /\ up /\ request = NoRequest
  /\ Verifies(signer, signedWith) /\ SignerIsMgmt(signer)
  /\ UpdateUser(certificate)
  /\ LookUp(signer)
  /\ UNCHANGED <<db, up, responseCache, registered, request, step>>

\* the process ends, between two statements or while it is idle
Crash ==
  /\ up
  /\ up' = FALSE
  /\ request' = NoRequest /\ step' = 1
  /\ UNCHANGED <<db, mgmt, memory>>

Restart(certificate) ==
  /\ ~up
  /\ up' = TRUE
  /\ UNCHANGED <<db, request, step>>
  /\ Start(certificate)

Command ==
  \E signer \in Signers, signedWith \in KeyBits :
    \/ \E r \in Requests : Accept(r, signer, signedWith)
    \/ Reject(signer)
    \/ \E certificate \in MgmtCerts : ProcessUpdateUser(certificate, signer, signedWith)

Next ==
  \/ Command
  \/ RunStatement
  \/ Crash
  \/ \E certificate \in MgmtCerts : Restart(certificate)

Spec == Init /\ [][Next]_vars

-----------------------------------------------------------------------------
(* What must hold *)

\* Through crashes between the statements of a command, no row is left without
\* its parent and none of the tables has two defaults under one parent.
TablesSound == NoOrphans(db) /\ OneDefault(db)

\* A key the validator keeps in memory is the one the database holds under that
\* name: a key deleted, alone or with its identity, and added again with other
\* bits is not verified against the old ones.
CacheCurrent ==
  up => \A k \in KeyNames : Cached(k) => keyCache[k] = db.keys[k]

\* The publisher serves exactly the certificates of the database, and listens
\* to exactly their prefixes: cascading deletions and shared prefixes included.
PublishedStored ==
  up => responseCache = db.certs /\ registered = Served(db.certs)

\* The three copies of the management certificate agree, so that the signatures
\* the validator accepts are those the processors and the replies stand for.
MgmtCertsAgree == up => m_mgmtCert = mgmt /\ validatorCert = mgmt

\* Together: the validator trusts what the database holds, and nothing else.
ValidatorCurrent == CacheCurrent /\ MgmtCertsAgree

\* A default is lost only with its row: an update never leaves an identity or a
\* key without the default it had.
DefaultsKept ==
  [][/\ db.defaultIds # {} /\ db'.defaultIds = {} => ~(db.defaultIds \subseteq db'.ids)
     /\ \A k \in db.defaultKeys :
          (\A l \in db'.defaultKeys : IdentityOf[l] # IdentityOf[k]) => k \notin StoredKeys(db')
     /\ \A b \in db.defaultCerts :
          (\A c \in db'.defaultCerts : KeyOf[c] # KeyOf[b]) => b \notin db'.certs]_vars
=============================================================================
