----------------------------- MODULE Pib_proof -----------------------------
(***************************************************************************)
(* Theorems about Pib, for every set of identities, keys and certificates, *)
(* every naming scheme, every capacity of the key cache, and a crash       *)
(* between any two statements.                                             *)
(***************************************************************************)
EXTENDS Pib, SequenceTheorems, FiniteSetTheorems, TLAPS

Sound(d) == d \in Databases /\ NoOrphans(d) /\ OneDefault(d)

\* From d to e no key changes its bits: a key goes before it comes back.
BitsStay(d, e) == \A k \in StoredKeys(d) : e.keys[k] \in {d.keys[k], NoKey}

-----------------------------------------------------------------------------
(* One lemma for every SQL statement: the tables stay sound *)

\* addIdentity()
LEMMA AddIdentitySound ==
  ASSUME NEW d, Sound(d), NEW i \in Identities
  PROVE  Sound(AddIdentity(d, i)) /\ BitsStay(d, AddIdentity(d, i))
<1> DEFINE e == AddIdentity(d, i)
<1>1. d \in Databases /\ NoOrphans(d) /\ OneDefault(d)
  BY DEF Sound
<1>2. CASE i \in d.ids
  <2>1. e = d
    BY <1>2 DEF AddIdentity
  <2> QED
    BY <2>1 DEF Sound, BitsStay
<1>3. CASE i \notin d.ids
  <2> DEFINE def == InsertDefault(d.defaultIds, Identities, i)
  <2>1. /\ e.ids = d.ids \cup {i} /\ e.defaultIds = def
        /\ e.keys = d.keys /\ e.defaultKeys = d.defaultKeys
        /\ e.certs = d.certs /\ e.defaultCerts = d.defaultCerts
        /\ e \in Databases
    BY <1>1, <1>3 DEF AddIdentity, Databases, InsertDefault, MarkDefault
  <2>2. StoredKeys(e) = StoredKeys(d)
    BY <2>1 DEF StoredKeys
  <2>3. NoOrphans(e)
    BY <1>1, <2>1, <2>2 DEF NoOrphans, InsertDefault, MarkDefault
  <2>4. \A x, y \in def : x = y
    BY <1>1 DEF OneDefault, InsertDefault, MarkDefault, Databases
  <2>5. OneDefault(e)
    BY <1>1, <2>1, <2>4 DEF OneDefault
  <2> QED
    BY <2>1, <2>3, <2>5 DEF Sound, BitsStay
<1> QED
  BY <1>2, <1>3

\* the insertion of a key
LEMMA InsertKeySound ==
  ASSUME NEW d, Sound(d), NEW k \in KeyNames, NEW bits \in KeyBits
  PROVE  Sound(InsertKey(d, k, bits)) /\ BitsStay(d, InsertKey(d, k, bits))
<1> DEFINE e == InsertKey(d, k, bits)
<1>1. d \in Databases /\ NoOrphans(d) /\ OneDefault(d)
  BY DEF Sound
<1>2. CASE k \in StoredKeys(d) \/ IdentityOf[k] \notin d.ids
  <2>1. e = d
    BY <1>2 DEF InsertKey
  <2> QED
    BY <2>1 DEF Sound, BitsStay
<1>3. CASE ~(k \in StoredKeys(d) \/ IdentityOf[k] \notin d.ids)
  <2> DEFINE def == InsertDefault(d.defaultKeys, Siblings(k), k)
  <2>1. e = [d EXCEPT !.keys = [d.keys EXCEPT ![k] = bits], !.defaultKeys = def]
    BY <1>1, <1>3 DEF InsertKey, Databases
  <2>2. def \subseteq d.defaultKeys \cup {k}
    BY DEF InsertDefault, MarkDefault
  <2>3. /\ e.ids = d.ids /\ e.defaultIds = d.defaultIds
        /\ e.keys = [d.keys EXCEPT ![k] = bits] /\ e.defaultKeys = def
        /\ e.certs = d.certs /\ e.defaultCerts = d.defaultCerts
        /\ e \in Databases
    <3> HIDE DEF def, e
    <3> QED
      BY <1>1, <2>1, <2>2 DEF Databases
  <2>4. StoredKeys(e) = StoredKeys(d) \cup {k}
    BY <1>1, <2>3, NullsAssumption DEF StoredKeys, Databases
  <2>5. NoOrphans(e)
    BY <1>1, <1>3, <2>2, <2>3, <2>4 DEF NoOrphans
  <2>6. \A x, y \in def : IdentityOf[x] = IdentityOf[y] => x = y
    BY <1>1 DEF OneDefault, InsertDefault, MarkDefault, Siblings, KeysOfIds, Databases
  <2>7. OneDefault(e)
    BY <1>1, <2>3, <2>6 DEF OneDefault
  <2>8. BitsStay(d, e)
    BY <1>1, <1>3, <2>3 DEF BitsStay, StoredKeys, Databases
  <2> QED
    BY <2>3, <2>5, <2>7, <2>8 DEF Sound
<1> QED
  BY <1>2, <1>3

\* the insertion of a certificate
LEMMA InsertCertificateSound ==
  ASSUME NEW d, Sound(d), NEW c \in CertNames
  PROVE  Sound(InsertCertificate(d, c)) /\ BitsStay(d, InsertCertificate(d, c))
<1> DEFINE e == InsertCertificate(d, c)
<1>1. d \in Databases /\ NoOrphans(d) /\ OneDefault(d)
  BY DEF Sound
<1>2. CASE c \in d.certs \/ KeyOf[c] \notin StoredKeys(d)
  <2>1. e = d
    BY <1>2 DEF InsertCertificate
  <2> QED
    BY <2>1 DEF Sound, BitsStay
<1>3. CASE ~(c \in d.certs \/ KeyOf[c] \notin StoredKeys(d))
  <2> DEFINE def == InsertDefault(d.defaultCerts, SameKey(c), c)
  <2>1. def \subseteq d.defaultCerts \cup {c}
    BY DEF InsertDefault, MarkDefault
  <2>2. /\ e.ids = d.ids /\ e.defaultIds = d.defaultIds
        /\ e.keys = d.keys /\ e.defaultKeys = d.defaultKeys
        /\ e.certs = d.certs \cup {c} /\ e.defaultCerts = def
        /\ e \in Databases
    BY <1>1, <1>3, <2>1 DEF InsertCertificate, Databases
  <2>3. StoredKeys(e) = StoredKeys(d)
    BY <2>2 DEF StoredKeys
  <2>4. NoOrphans(e)
    BY <1>1, <1>3, <2>1, <2>2, <2>3 DEF NoOrphans
  <2>5. \A x, y \in def : KeyOf[x] = KeyOf[y] => x = y
    BY <1>1 DEF OneDefault, InsertDefault, MarkDefault, SameKey, CertsOfKeys, Databases
  <2>6. OneDefault(e)
    BY <1>1, <2>2, <2>5 DEF OneDefault
  <2> QED
    BY <2>2, <2>4, <2>6 DEF Sound, BitsStay
<1> QED
  BY <1>2, <1>3

\* the deletion of certificates
LEMMA DeleteCertificatesSound ==
  ASSUME NEW d, Sound(d), NEW C
  PROVE  /\ Sound(DeleteCertificates(d, C)) /\ BitsStay(d, DeleteCertificates(d, C))
         /\ DeleteCertificates(d, C).ids = d.ids
         /\ DeleteCertificates(d, C).defaultIds = d.defaultIds
         /\ DeleteCertificates(d, C).keys = d.keys
         /\ DeleteCertificates(d, C).defaultKeys = d.defaultKeys
         /\ DeleteCertificates(d, C).certs = d.certs \ C
         /\ DeleteCertificates(d, C).defaultCerts = d.defaultCerts \ C
<1> DEFINE e == DeleteCertificates(d, C)
<1>1. d \in Databases /\ NoOrphans(d) /\ OneDefault(d)
  BY DEF Sound
<1>2. /\ e.ids = d.ids /\ e.defaultIds = d.defaultIds
      /\ e.keys = d.keys /\ e.defaultKeys = d.defaultKeys
      /\ e.certs = d.certs \ C /\ e.defaultCerts = d.defaultCerts \ C
      /\ e \in Databases
  BY <1>1 DEF DeleteCertificates, Databases
<1>3. StoredKeys(e) = StoredKeys(d)
  BY <1>2 DEF StoredKeys
<1>4. NoOrphans(e)
  BY <1>1, <1>2, <1>3 DEF NoOrphans
<1>5. OneDefault(e)
  BY <1>1, <1>2 DEF OneDefault
<1> QED
  BY <1>2, <1>4, <1>5 DEF Sound, BitsStay

\* what a deletion leaves, in e, of the rows of d
DeletedKeys(d, e, K) ==
  /\ e.ids = d.ids /\ e.defaultIds = d.defaultIds
  /\ StoredKeys(e) = StoredKeys(d) \ K /\ e.defaultKeys = d.defaultKeys \ K
  /\ e.certs = d.certs \ CertsOfKeys(K) /\ e.defaultCerts = d.defaultCerts \ CertsOfKeys(K)

DeletedIdentity(d, e, i) ==
  LET K == KeysOfIds({i})
  IN /\ e.ids = d.ids \ {i} /\ e.defaultIds = d.defaultIds \ {i}
     /\ StoredKeys(e) = StoredKeys(d) \ K /\ e.defaultKeys = d.defaultKeys \ K
     /\ e.certs = d.certs \ CertsOfKeys(K) /\ e.defaultCerts = d.defaultCerts \ CertsOfKeys(K)

\* the deletion of keys, with their certificates
LEMMA DeleteKeysSound ==
  ASSUME NEW d, Sound(d), NEW K \in SUBSET KeyNames
  PROVE  /\ Sound(DeleteKeys(d, K)) /\ BitsStay(d, DeleteKeys(d, K))
         /\ DeletedKeys(d, DeleteKeys(d, K), K)
<1> DEFINE f == DeleteCertificates(d, CertsOfKeys(K))
           e == DeleteKeys(d, K)
<1>1. d \in Databases /\ NoOrphans(d) /\ OneDefault(d)
  BY DEF Sound
<1>2. /\ Sound(f) /\ f.ids = d.ids /\ f.defaultIds = d.defaultIds /\ f.keys = d.keys
      /\ f.defaultKeys = d.defaultKeys
      /\ f.certs = d.certs \ CertsOfKeys(K) /\ f.defaultCerts = d.defaultCerts \ CertsOfKeys(K)
  BY DeleteCertificatesSound
<1>3. f \in Databases
  BY <1>2 DEF Sound
<1> HIDE DEF f
<1>4. e = [f EXCEPT !.keys = [k \in KeyNames |-> IF k \in K THEN NoKey ELSE f.keys[k]],
                    !.defaultKeys = f.defaultKeys \ K]
  BY <1>3 DEF DeleteKeys, f, Databases
<1>5. /\ e.ids = d.ids /\ e.defaultIds = d.defaultIds
      /\ e.keys = [k \in KeyNames |-> IF k \in K THEN NoKey ELSE d.keys[k]]
      /\ e.defaultKeys = d.defaultKeys \ K
      /\ e.certs = d.certs \ CertsOfKeys(K) /\ e.defaultCerts = d.defaultCerts \ CertsOfKeys(K)
      /\ e \in Databases
  <2> HIDE DEF e
  <2>1. d.keys \in [KeyNames -> KeyBits \cup {NoKey}]
    BY <1>1 DEF Databases
  <2>2. [k \in KeyNames |-> IF k \in K THEN NoKey ELSE d.keys[k]] \in [KeyNames -> KeyBits \cup {NoKey}]
    BY <2>1
  <2>3. f.keys = d.keys
    BY <1>2
  <2>4. e = [f EXCEPT !.keys = [k \in KeyNames |-> IF k \in K THEN NoKey ELSE d.keys[k]],
                      !.defaultKeys = f.defaultKeys \ K]
    BY <1>4, <2>3
  <2>5. e \in Databases
    BY <1>3, <2>2, <2>4 DEF Databases
  <2> QED
    BY <1>2, <1>3, <2>4, <2>5 DEF Databases
<1>6. StoredKeys(e) = StoredKeys(d) \ K
  BY <1>5 DEF StoredKeys
<1>7. NoOrphans(e)
  <2>1. \A c \in e.certs : KeyOf[c] \in StoredKeys(e)
    BY <1>1, <1>5, <1>6 DEF NoOrphans, CertsOfKeys, Databases
  <2> QED
    BY <1>1, <1>5, <1>6, <2>1 DEF NoOrphans
<1>8. OneDefault(e)
  BY <1>1, <1>5 DEF OneDefault
<1>9. BitsStay(d, e)
  BY <1>5 DEF BitsStay, StoredKeys
<1> QED
  BY <1>5, <1>6, <1>7, <1>8, <1>9 DEF Sound, DeletedKeys

\* the deletion of an identity, with its keys
LEMMA DeleteIdentitySound ==
  ASSUME NEW d, Sound(d), NEW i \in Identities
  PROVE  /\ Sound(DeleteIdentity(d, i)) /\ BitsStay(d, DeleteIdentity(d, i))
         /\ DeletedIdentity(d, DeleteIdentity(d, i), i)
<1> DEFINE K == KeysOfIds({i})
           f == DeleteKeys(d, K)
           e == DeleteIdentity(d, i)
<1>1. K \in SUBSET KeyNames
  BY DEF KeysOfIds
<1>2. /\ Sound(f) /\ BitsStay(d, f) /\ DeletedKeys(d, f, K)
  BY <1>1, DeleteKeysSound
<1>3. f \in Databases /\ NoOrphans(f) /\ OneDefault(f)
  BY <1>2 DEF Sound
<1> HIDE DEF f
<1>4. e = [f EXCEPT !.ids = f.ids \ {i}, !.defaultIds = f.defaultIds \ {i}]
  BY DEF DeleteIdentity, f
<1>5. /\ e.ids = f.ids \ {i} /\ e.defaultIds = f.defaultIds \ {i}
      /\ e.keys = f.keys /\ e.defaultKeys = f.defaultKeys
      /\ e.certs = f.certs /\ e.defaultCerts = f.defaultCerts
      /\ e \in Databases
  BY <1>3, <1>4 DEF Databases
<1>6. StoredKeys(e) = StoredKeys(f)
  BY <1>5 DEF StoredKeys
<1>7. \A k \in StoredKeys(f) : IdentityOf[k] # i
  BY <1>2 DEF DeletedKeys, KeysOfIds, StoredKeys
<1>8. NoOrphans(e)
  BY <1>3, <1>5, <1>6, <1>7 DEF NoOrphans
<1>9. OneDefault(e)
  BY <1>3, <1>5 DEF OneDefault
<1>10. BitsStay(d, e)
  BY <1>2, <1>5 DEF BitsStay
<1> QED
  BY <1>2, <1>5, <1>6, <1>8, <1>9, <1>10 DEF Sound, DeletedIdentity, DeletedKeys

\* setDefaultIdentity()
LEMMA SetDefaultIdentitySound ==
  ASSUME NEW d, Sound(d), NEW i \in Identities
  PROVE  Sound(SetDefaultIdentity(d, i)) /\ BitsStay(d, SetDefaultIdentity(d, i))
<1> DEFINE e == SetDefaultIdentity(d, i)
<1>1. d \in Databases /\ NoOrphans(d) /\ OneDefault(d)
  BY DEF Sound
<1>2. CASE ~(i \in d.ids /\ i \notin d.defaultIds)
  <2>1. e = d
    BY <1>2 DEF SetDefaultIdentity
  <2> QED
    BY <2>1 DEF Sound, BitsStay
<1>3. CASE i \in d.ids /\ i \notin d.defaultIds
  <2>1. /\ e.ids = d.ids /\ e.defaultIds = (d.defaultIds \ Identities) \cup {i}
        /\ e.keys = d.keys /\ e.defaultKeys = d.defaultKeys
        /\ e.certs = d.certs /\ e.defaultCerts = d.defaultCerts
        /\ e \in Databases
    BY <1>1, <1>3 DEF SetDefaultIdentity, MarkDefault, Databases
  <2>2. StoredKeys(e) = StoredKeys(d)
    BY <2>1 DEF StoredKeys
  <2>3. NoOrphans(e)
    BY <1>1, <1>3, <2>1, <2>2 DEF NoOrphans
  <2>4. OneDefault(e)
    BY <1>1, <2>1 DEF OneDefault, Databases
  <2> QED
    BY <2>1, <2>3, <2>4 DEF Sound, BitsStay
<1> QED
  BY <1>2, <1>3

\* setDefaultKeyOfIdentity()
LEMMA SetDefaultKeySound ==
  ASSUME NEW d, Sound(d), NEW k \in KeyNames
  PROVE  /\ Sound(SetDefaultKeyNameOfIdentity(d, k))
         /\ BitsStay(d, SetDefaultKeyNameOfIdentity(d, k))
<1> DEFINE e == SetDefaultKeyNameOfIdentity(d, k)
<1>1. d \in Databases /\ NoOrphans(d) /\ OneDefault(d)
  BY DEF Sound
<1>2. CASE ~(k \in StoredKeys(d) /\ k \notin d.defaultKeys)
  <2>1. e = d
    BY <1>2 DEF SetDefaultKeyNameOfIdentity
  <2> QED
    BY <2>1 DEF Sound, BitsStay
<1>3. CASE k \in StoredKeys(d) /\ k \notin d.defaultKeys
  <2> DEFINE def == (d.defaultKeys \ Siblings(k)) \cup {k}
  <2>1. /\ e.ids = d.ids /\ e.defaultIds = d.defaultIds
        /\ e.keys = d.keys /\ e.defaultKeys = def
        /\ e.certs = d.certs /\ e.defaultCerts = d.defaultCerts
        /\ e \in Databases
    BY <1>1, <1>3 DEF SetDefaultKeyNameOfIdentity, MarkDefault, Databases
  <2>2. StoredKeys(e) = StoredKeys(d)
    BY <2>1 DEF StoredKeys
  <2>3. NoOrphans(e)
    BY <1>1, <1>3, <2>1, <2>2 DEF NoOrphans
  <2>4. \A x, y \in def : IdentityOf[x] = IdentityOf[y] => x = y
    BY <1>1 DEF OneDefault, Siblings, KeysOfIds, Databases
  <2>5. OneDefault(e)
    BY <1>1, <2>1, <2>4 DEF OneDefault
  <2> QED
    BY <2>1, <2>3, <2>5 DEF Sound, BitsStay
<1> QED
  BY <1>2, <1>3

\* setDefaultCertOfKey()
LEMMA SetDefaultCertSound ==
  ASSUME NEW d, Sound(d), NEW c \in CertNames
  PROVE  Sound(SetDefaultCertNameOfKey(d, c)) /\ BitsStay(d, SetDefaultCertNameOfKey(d, c))
<1> DEFINE e == SetDefaultCertNameOfKey(d, c)
<1>1. d \in Databases /\ NoOrphans(d) /\ OneDefault(d)
  BY DEF Sound
<1>2. CASE ~(c \in d.certs /\ c \notin d.defaultCerts)
  <2>1. e = d
    BY <1>2 DEF SetDefaultCertNameOfKey
  <2> QED
    BY <2>1 DEF Sound, BitsStay
<1>3. CASE c \in d.certs /\ c \notin d.defaultCerts
  <2> DEFINE def == (d.defaultCerts \ SameKey(c)) \cup {c}
  <2>1. /\ e.ids = d.ids /\ e.defaultIds = d.defaultIds
        /\ e.keys = d.keys /\ e.defaultKeys = d.defaultKeys
        /\ e.certs = d.certs /\ e.defaultCerts = def
        /\ e \in Databases
    BY <1>1, <1>3 DEF SetDefaultCertNameOfKey, MarkDefault, Databases
  <2>2. StoredKeys(e) = StoredKeys(d)
    BY <2>1 DEF StoredKeys
  <2>3. NoOrphans(e)
    BY <1>1, <1>3, <2>1, <2>2 DEF NoOrphans
  <2>4. \A x, y \in def : KeyOf[x] = KeyOf[y] => x = y
    BY <1>1 DEF OneDefault, SameKey, CertsOfKeys, Databases
  <2>5. OneDefault(e)
    BY <1>1, <2>1, <2>4 DEF OneDefault
  <2> QED
    BY <2>1, <2>3, <2>5 DEF Sound, BitsStay
<1> QED
  BY <1>2, <1>3

-----------------------------------------------------------------------------
(* The statements of a command fit what the command names *)

StatementsFor == [id |-> {"addIdentity", "defaultIdentity", "delete"},
                  key |-> {"addIdentity", "insertKey", "defaultKey", "defaultIdentity", "delete"},
                  cert |-> {"addIdentity", "insertKey", "insertCert", "defaultCert",
                            "defaultKey", "defaultIdentity", "delete"}]
Types == {"id", "key", "cert"}

\* the fields of a command
LEMMA RequestTyped ==
  ASSUME NEW r \in Requests
  PROVE  /\ r.op \in {"update", "delete"} /\ r.type \in Types
         /\ r.type = "id" => r.target \in Identities
         /\ r.type = "key" => r.target \in KeyNames
         /\ r.type = "cert" => r.target \in CertNames
         /\ r.op = "update" => r.bits \in KeyBits /\ r.opt \in Opts
         /\ r # NoRequest
<1>1. PICK t \in Types : r \in Updates(t) \/ r \in Deletes(t)
  BY DEF Requests, Types
<1>2. /\ Targets["id"] = Identities /\ Targets["key"] = KeyNames /\ Targets["cert"] = CertNames
  BY DEF Targets
<1>3. /\ r.op \in {"update", "delete"} /\ r.type = t /\ r.target \in Targets[t]
      /\ r.op = "update" => r.bits \in KeyBits /\ r.opt \in Opts
  BY <1>1 DEF Updates, Deletes
<1> QED
  BY <1>2, <1>3 DEF Types, NoRequest

\* short sequences and their lengths
LEMMA ShortSequences ==
  ASSUME NEW S, NEW x \in S, NEW y \in S, NEW z \in S
  PROVE  /\ << >> \in Seq(S) /\ Len(<< >>) = 0
         /\ <<x>> \in Seq(S) /\ Len(<<x>>) = 1
         /\ <<x, y>> \in Seq(S) /\ Len(<<x, y>>) = 2
         /\ <<x, y, z>> \in Seq(S) /\ Len(<<x, y, z>>) = 3
  OBVIOUS

\* concatenation keeps the elements and adds the lengths
LEMMA Concatenation ==
  ASSUME NEW S, NEW s \in Seq(S), NEW t \in Seq(S)
  PROVE  s \o t \in Seq(S) /\ Len(s \o t) = Len(s) + Len(t)
  OBVIOUS

\* a command has at least one statement, each for its type
LEMMA StatementsTyped ==
  ASSUME NEW r \in Requests
  PROVE  /\ Statements(r) \in Seq(StatementsFor[r.type])
         /\ Len(Statements(r)) \in Nat \ {0}
<1> DEFINE S == StatementsFor[r.type]
           Option(on, s) == IF on THEN <<s>> ELSE << >>
<1>1. r.op \in {"update", "delete"} /\ r.type \in Types
  BY RequestTyped
<1>2. ASSUME NEW on, NEW s \in S
      PROVE  Option(on, s) \in Seq(S) /\ Len(Option(on, s)) \in Nat
  BY ShortSequences
<1>3. ASSUME NEW s \in Seq(S), NEW t \in Seq(S), Len(s) \in Nat \ {0}, Len(t) \in Nat
      PROVE  s \o t \in Seq(S) /\ Len(s \o t) \in Nat \ {0}
  <2>1. s \o t \in Seq(S) /\ Len(s \o t) = Len(s) + Len(t)
    <3> HIDE DEF S
    <3> QED
      BY Concatenation
  <2> QED
    BY <1>3, <2>1
<1>4. "addIdentity" \in S /\ "defaultIdentity" \in S /\ "delete" \in S
  BY <1>1 DEF StatementsFor, Types
<1> HIDE DEF S, Option
<1>5. CASE r.op = "delete"
  <2>1. Statements(r) = <<"delete">>
    BY <1>5 DEF Statements
  <2>2. <<"delete">> \in Seq(S) /\ Len(<<"delete">>) = 1
    BY <1>4, ShortSequences
  <2> QED
    BY <2>1, <2>2 DEF S
<1>6. CASE r.op = "update" /\ r.type = "id"
  <2>1. Statements(r) = <<"addIdentity">> \o Option("USER" \in Masks(r.opt), "defaultIdentity")
    BY <1>6 DEF Statements, UpdateIdQuery, Option
  <2>2. <<"addIdentity">> \in Seq(S) /\ Len(<<"addIdentity">>) \in Nat \ {0}
    BY <1>4, ShortSequences
  <2> DEFINE o1 == Option("USER" \in Masks(r.opt), "defaultIdentity")
  <2>3. o1 \in Seq(S) /\ Len(o1) \in Nat
    BY <1>2, <1>4
  <2> HIDE DEF o1
  <2>4. <<"addIdentity">> \o o1 \in Seq(S) /\ Len(<<"addIdentity">> \o o1) \in Nat \ {0}
    BY <1>3, <2>2, <2>3
  <2> QED
    BY <2>1, <2>4 DEF S, o1
<1>7. CASE r.op = "update" /\ r.type = "key"
  <2> DEFINE s1 == <<"addIdentity", "insertKey">>
             o1 == Option("ID" \in Masks(r.opt), "defaultKey")
             o2 == Option("USER" \in Masks(r.opt), "defaultIdentity")
  <2>1. Statements(r) = (s1 \o o1) \o o2
    BY <1>7 DEF Statements, UpdateKeyQuery, Option
  <2>2. "insertKey" \in S /\ "defaultKey" \in S
    BY <1>7 DEF StatementsFor, S
  <2>3. s1 \in Seq(S) /\ Len(s1) \in Nat \ {0}
    BY <1>4, <2>2, ShortSequences
  <2>4. o1 \in Seq(S) /\ Len(o1) \in Nat /\ o2 \in Seq(S) /\ Len(o2) \in Nat
    BY <1>2, <1>4, <2>2
  <2> HIDE DEF s1, o1, o2
  <2>5. s1 \o o1 \in Seq(S) /\ Len(s1 \o o1) \in Nat \ {0}
    BY <1>3, <2>3, <2>4
  <2> QED
    BY <1>3, <2>1, <2>4, <2>5 DEF S
<1>8. CASE r.op = "update" /\ r.type = "cert"
  <2> DEFINE s1 == <<"addIdentity", "insertKey", "insertCert">>
             o1 == Option("KEY" \in Masks(r.opt), "defaultCert")
             o2 == Option("ID" \in Masks(r.opt), "defaultKey")
             o3 == Option("USER" \in Masks(r.opt), "defaultIdentity")
  <2>1. Statements(r) = ((s1 \o o1) \o o2) \o o3
    BY <1>8 DEF Statements, UpdateCertQuery, Option
  <2>2. "insertKey" \in S /\ "insertCert" \in S /\ "defaultKey" \in S /\ "defaultCert" \in S
    BY <1>8 DEF StatementsFor, S
  <2>3. s1 \in Seq(S) /\ Len(s1) \in Nat \ {0}
    BY <1>4, <2>2, ShortSequences
  <2>4. /\ o1 \in Seq(S) /\ Len(o1) \in Nat /\ o2 \in Seq(S) /\ Len(o2) \in Nat
        /\ o3 \in Seq(S) /\ Len(o3) \in Nat
    BY <1>2, <1>4, <2>2
  <2> HIDE DEF s1, o1, o2, o3
  <2>5. s1 \o o1 \in Seq(S) /\ Len(s1 \o o1) \in Nat \ {0}
    BY <1>3, <2>3, <2>4
  <2>6. (s1 \o o1) \o o2 \in Seq(S) /\ Len((s1 \o o1) \o o2) \in Nat \ {0}
    BY <1>3, <2>4, <2>5
  <2> QED
    BY <1>3, <2>1, <2>4, <2>6 DEF S
<1> QED
  BY <1>1, <1>5, <1>6, <1>7, <1>8 DEF Types

\* what the statement s of the command r makes of d
StatementMakes(s, d, r, e) ==
  \/ s = "addIdentity" /\ OwnerOf(r) \in Identities /\ e = AddIdentity(d, OwnerOf(r))
  \/ /\ s = "insertKey" /\ r.type # "id" /\ KeyNameOf(r) \in KeyNames /\ r.bits \in KeyBits
     /\ e = InsertKey(d, KeyNameOf(r), r.bits)
  \/ /\ s = "insertCert" /\ r.type = "cert" /\ r.target \in CertNames
     /\ e = InsertCertificate(d, r.target)
  \/ s = "defaultIdentity" /\ OwnerOf(r) \in Identities /\ e = SetDefaultIdentity(d, OwnerOf(r))
  \/ /\ s = "defaultKey" /\ r.type # "id" /\ KeyNameOf(r) \in KeyNames
     /\ e = SetDefaultKeyNameOfIdentity(d, KeyNameOf(r))
  \/ /\ s = "defaultCert" /\ r.type = "cert" /\ r.target \in CertNames
     /\ e = SetDefaultCertNameOfKey(d, r.target)
  \/ /\ s = "delete" /\ r.type = "id" /\ r.target \in Identities
     /\ e = DeleteIdentity(d, r.target)
  \/ /\ s = "delete" /\ r.type = "key" /\ {r.target} \in SUBSET KeyNames
     /\ e = DeleteKeys(d, {r.target})
  \/ s = "delete" /\ r.type = "cert" /\ e = DeleteCertificates(d, {r.target})

\* what a statement of a command makes of the tables is one of the operations above
LEMMA ExecuteCases ==
  ASSUME NEW d, NEW r \in Requests, NEW n \in 1 .. Len(Statements(r))
  PROVE  StatementMakes(Statements(r)[n], d, r, Execute(d, Statements(r)[n], r))
<1> DEFINE s == Statements(r)[n]
           e == Execute(d, s, r)
<1>1. /\ r.op \in {"update", "delete"} /\ r.type \in Types
      /\ r.type = "id" => r.target \in Identities
      /\ r.type = "key" => r.target \in KeyNames
      /\ r.type = "cert" => r.target \in CertNames
      /\ r.op = "update" => r.bits \in KeyBits
  BY RequestTyped
<1> SUFFICES StatementMakes(s, d, r, e)
  OBVIOUS
<1>2. s \in StatementsFor[r.type]
  BY StatementsTyped
<1>3. OwnerOf(r) \in Identities
  BY <1>1, NamesAssumption DEF OwnerOf, Types
<1>4. r.type # "id" => KeyNameOf(r) \in KeyNames
  BY <1>1, NamesAssumption DEF KeyNameOf, Types
<1>5. r.op = "delete" => s = "delete"
  BY <1>1 DEF Statements
<1> HIDE DEF s
<1>6. /\ s \in {"addIdentity", "insertKey", "insertCert", "defaultIdentity", "defaultKey",
                "defaultCert", "delete"}
      /\ s \in {"insertKey", "defaultKey"} => r.type # "id"
      /\ s \in {"insertCert", "defaultCert"} => r.type = "cert"
      /\ s = "insertKey" => r.bits \in KeyBits
  BY <1>1, <1>2, <1>5 DEF StatementsFor, Types
<1>7. CASE s = "delete"
  <2>1. e = DeleteTarget(d, r)
    BY <1>7 DEF Execute
  <2>2. CASE r.type = "id"
    BY <1>1, <1>7, <2>1, <2>2 DEF DeleteTarget, StatementMakes
  <2>3. CASE r.type = "key"
    <3>1. {r.target} \in SUBSET KeyNames
      BY <1>1, <2>3
    <3> QED
      BY <1>7, <2>1, <2>3, <3>1 DEF DeleteTarget, StatementMakes
  <2>4. CASE r.type = "cert"
    BY <1>7, <2>1, <2>4 DEF DeleteTarget, StatementMakes
  <2> QED
    BY <1>1, <2>2, <2>3, <2>4 DEF Types
<1>8. CASE s = "addIdentity"
  BY <1>3, <1>8 DEF Execute, StatementMakes
<1>9. CASE s = "insertKey"
  BY <1>4, <1>6, <1>9 DEF Execute, StatementMakes
<1>10. CASE s = "insertCert"
  BY <1>1, <1>6, <1>10 DEF Execute, StatementMakes
<1>11. CASE s = "defaultIdentity"
  BY <1>3, <1>11 DEF Execute, StatementMakes
<1>12. CASE s = "defaultKey"
  BY <1>4, <1>6, <1>12 DEF Execute, StatementMakes
<1>13. CASE s = "defaultCert"
  BY <1>1, <1>6, <1>13 DEF Execute, StatementMakes
<1> QED
  BY <1>6, <1>7, <1>8, <1>9, <1>10, <1>11, <1>12, <1>13

\* a statement of a command keeps the tables sound
LEMMA ExecuteSound ==
  ASSUME NEW d, Sound(d), NEW r \in Requests, NEW n \in 1 .. Len(Statements(r))
  PROVE  /\ Sound(Execute(d, Statements(r)[n], r))
         /\ BitsStay(d, Execute(d, Statements(r)[n], r))
<1> DEFINE s == Statements(r)[n]
           e == Execute(d, s, r)
<1>1. CASE OwnerOf(r) \in Identities /\ e = AddIdentity(d, OwnerOf(r))
  BY <1>1, AddIdentitySound
<1>2. CASE KeyNameOf(r) \in KeyNames /\ r.bits \in KeyBits /\ e = InsertKey(d, KeyNameOf(r), r.bits)
  BY <1>2, InsertKeySound
<1>3. CASE r.target \in CertNames /\ e = InsertCertificate(d, r.target)
  BY <1>3, InsertCertificateSound
<1>4. CASE OwnerOf(r) \in Identities /\ e = SetDefaultIdentity(d, OwnerOf(r))
  BY <1>4, SetDefaultIdentitySound
<1>5. CASE KeyNameOf(r) \in KeyNames /\ e = SetDefaultKeyNameOfIdentity(d, KeyNameOf(r))
  BY <1>5, SetDefaultKeySound
<1>6. CASE r.target \in CertNames /\ e = SetDefaultCertNameOfKey(d, r.target)
  BY <1>6, SetDefaultCertSound
<1>7. CASE r.target \in Identities /\ e = DeleteIdentity(d, r.target)
  BY <1>7, DeleteIdentitySound
<1>8. CASE {r.target} \in SUBSET KeyNames /\ e = DeleteKeys(d, {r.target})
  BY <1>8, DeleteKeysSound
<1>9. CASE e = DeleteCertificates(d, {r.target})
  BY <1>9, DeleteCertificatesSound
<1>10. StatementMakes(s, d, r, e)
  BY ExecuteCases
<1> HIDE DEF e, s
<1> QED
  BY <1>1, <1>2, <1>3, <1>4, <1>5, <1>6, <1>7, <1>8, <1>9, <1>10 DEF StatementMakes

-----------------------------------------------------------------------------
(* The inductive invariant: the tables are sound between any two statements,
   the command in progress has a next statement, and what the process keeps in
   memory agrees with the tables while it runs. *)
InProgress == request = NoRequest \/ (request \in Requests /\ step \in 1 .. Len(Statements(request)))
CacheTyped == keyCache \in [KeyNames -> KeyBits \cup {NoKey}]
IInv == /\ Sound(db) /\ InProgress /\ CacheTyped
        /\ CacheCurrent /\ PublishedStored /\ MgmtCertsAgree

\* The tables and the memory agree after a lookup in the key cache.
LEMMA LookUpCurrent ==
  ASSUME Sound(db), CacheTyped, CacheCurrent, up, NEW signer \in Signers, LookUp(signer),
         UNCHANGED <<db, up>>
  PROVE  CacheTyped' /\ CacheCurrent'
<1>1. db.keys \in [KeyNames -> KeyBits \cup {NoKey}]
  BY DEF Sound, Databases
<1>2. CASE UNCHANGED keyCache
  BY <1>2 DEF CacheTyped, CacheCurrent, Cached
<1>3. CASE signer \in StoredKeys(db) /\ InsertEntry(signer, db.keys[signer])
  <2>1. signer \in KeyNames /\ db.keys[signer] \in KeyBits
    BY <1>1, <1>3 DEF StoredKeys
  <2>2. \A k \in KeyNames : keyCache'[k] \in {db.keys[k], NoKey} \/ keyCache'[k] = keyCache[k]
    BY <1>3 DEF InsertEntry
  <2>3. CacheTyped'
    BY <1>3, <2>1 DEF InsertEntry, CacheTyped
  <2> QED
    BY <2>2, <2>3 DEF CacheCurrent, Cached
<1> QED
  BY <1>2, <1>3 DEF LookUp, AdjustLru, cache

\* The signals of a statement keep the memory in agreement with the tables.
LEMMA SignalsCurrent ==
  ASSUME Sound(db), CacheTyped, CacheCurrent, PublishedStored, up, up',
         Sound(db'), BitsStay(db, db'), ForgetKeys, Publish
  PROVE  CacheTyped' /\ CacheCurrent' /\ PublishedStored'
<1>1. CacheTyped'
  BY DEF ForgetKeys, CacheTyped
<1>2. CacheCurrent'
  <2> SUFFICES ASSUME NEW k \in KeyNames, keyCache'[k] # NoKey
               PROVE  keyCache'[k] = db'.keys[k]
    BY DEF CacheCurrent, Cached
  <2>1. keyCache'[k] = keyCache[k] /\ k \notin StoredKeys(db) \ StoredKeys(db')
    BY DEF ForgetKeys
  <2>2. keyCache[k] = db.keys[k]
    BY <2>1 DEF CacheCurrent, Cached
  <2>3. k \in StoredKeys(db) /\ k \in StoredKeys(db')
    BY <2>1, <2>2 DEF StoredKeys
  <2> QED
    BY <2>1, <2>2, <2>3 DEF BitsStay, StoredKeys
<1>3. PublishedStored'
  <2> DEFINE kept == responseCache \ (db.certs \ db'.certs)
             inserted == db'.certs \ db.certs
  <2>1. responseCache = db.certs /\ registered = Served(db.certs)
    BY DEF PublishedStored
  <2>2. kept \cup inserted = db'.certs
    BY <2>1
  <2>3. registered' = (registered \ (Served(db.certs \ db'.certs) \ Served(kept))) \cup Served(inserted)
    BY DEF Publish, StopPublish
  <2>4. Served(db.certs) = Served(kept) \cup Served(db.certs \ db'.certs)
    BY <2>1 DEF Served
  <2>5. Served(db'.certs) = Served(kept) \cup Served(inserted)
    BY <2>2 DEF Served
  <2>6. registered' = Served(db'.certs)
    BY <2>1, <2>3, <2>4, <2>5
  <2> QED
    BY <2>2, <2>6 DEF Publish, PublishedStored
<1> QED
  BY <1>1, <1>2, <1>3

\* The inductive invariant holds in every reachable state.
THEOREM Inductive == Spec => []IInv
<1>1. Init => IInv
  <2> SUFFICES ASSUME Init PROVE IInv
    OBVIOUS
  <2>1. StoredKeys(EmptyDb) = {}
    BY DEF EmptyDb, StoredKeys
  <2>2. Sound(EmptyDb)
    <3>1. EmptyDb \in Databases
      BY DEF EmptyDb, Databases
    <3>2. NoOrphans(EmptyDb) /\ OneDefault(EmptyDb)
      BY <2>1 DEF EmptyDb, NoOrphans, OneDefault
    <3> QED
      BY <3>1, <3>2 DEF Sound
  <2>3. CacheTyped /\ CacheCurrent
    BY DEF Init, CacheTyped, CacheCurrent, Cached, NothingCached
  <2>4. PublishedStored
    BY DEF Init, PublishedStored, Served, EmptyDb
  <2> QED
    BY <2>2, <2>3, <2>4 DEF Init, IInv, InProgress, MgmtCertsAgree
<1>2. IInv /\ [Next]_vars => IInv'
  <2> SUFFICES ASSUME IInv, [Next]_vars PROVE IInv'
    OBVIOUS
  <2>0. /\ Sound(db) /\ InProgress /\ CacheTyped
        /\ CacheCurrent /\ PublishedStored /\ MgmtCertsAgree
    BY DEF IInv
  <2>1. ASSUME NEW signer \in Signers, NEW signedWith \in KeyBits, NEW r \in Requests,
               Accept(r, signer, signedWith)
        PROVE  IInv'
    <3>1. CacheTyped' /\ CacheCurrent'
      BY <2>0, <2>1, LookUpCurrent DEF Accept
    <3>2. InProgress'
      BY <2>1, StatementsTyped DEF Accept, InProgress
    <3>3. PublishedStored' /\ MgmtCertsAgree' /\ Sound(db')
      BY <2>0, <2>1 DEF Accept, PublishedStored, MgmtCertsAgree
    <3> QED
      BY <3>1, <3>2, <3>3 DEF IInv
  <2>2. ASSUME NEW signer \in Signers, Reject(signer)
        PROVE  IInv'
    <3>1. CacheTyped' /\ CacheCurrent'
      BY <2>0, <2>2, LookUpCurrent DEF Reject
    <3>2. InProgress' /\ PublishedStored' /\ MgmtCertsAgree' /\ Sound(db')
      BY <2>0, <2>2 DEF Reject, InProgress, PublishedStored, MgmtCertsAgree
    <3> QED
      BY <3>1, <3>2 DEF IInv
  <2>3. ASSUME NEW signer \in Signers, NEW signedWith \in KeyBits, NEW certificate \in MgmtCerts,
               ProcessUpdateUser(certificate, signer, signedWith)
        PROVE  IInv'
    <3>1. CacheTyped' /\ CacheCurrent'
      BY <2>0, <2>3, LookUpCurrent DEF ProcessUpdateUser
    <3>2. InProgress' /\ PublishedStored' /\ Sound(db')
      BY <2>0, <2>3 DEF ProcessUpdateUser, InProgress, PublishedStored
    <3>3. MgmtCertsAgree'
      BY <2>3 DEF ProcessUpdateUser, UpdateUser, MgmtCertsAgree
    <3> QED
      BY <3>1, <3>2, <3>3 DEF IInv
  <2>4. ASSUME RunStatement PROVE IInv'
    <3>1. request \in Requests /\ step \in 1 .. Len(Statements(request))
      BY <2>0, <2>4 DEF RunStatement, InProgress
    <3>2. Sound(db') /\ BitsStay(db, db')
      BY <2>0, <2>4, <3>1, ExecuteSound DEF RunStatement
    <3>3. up /\ up' /\ ForgetKeys /\ Publish
      BY <2>4 DEF RunStatement
    <3>4. CacheTyped' /\ CacheCurrent' /\ PublishedStored'
      BY <2>0, <3>2, <3>3, SignalsCurrent
    <3>5. InProgress'
      <4>1. Len(Statements(request)) \in Nat
        BY <3>1, StatementsTyped
      <4>2. CASE step = Len(Statements(request))
        BY <2>4, <4>2 DEF RunStatement, InProgress
      <4>3. CASE step # Len(Statements(request))
        <5>1. step' = step + 1 /\ request' = request
          BY <2>4, <4>3 DEF RunStatement
        <5>2. step + 1 \in 1 .. Len(Statements(request))
          BY <3>1, <4>1, <4>3
        <5> QED
          BY <3>1, <5>1, <5>2 DEF InProgress
      <4> QED
        BY <4>2, <4>3
    <3>6. MgmtCertsAgree'
      BY <2>0, <2>4 DEF RunStatement, MgmtCertsAgree
    <3> QED
      BY <3>2, <3>4, <3>5, <3>6 DEF IInv
  <2>5. ASSUME Crash PROVE IInv'
    BY <2>0, <2>5
    DEF Crash, IInv, InProgress, CacheTyped, CacheCurrent, PublishedStored, MgmtCertsAgree,
        memory, cache
  <2>6. ASSUME NEW certificate \in MgmtCerts, Restart(certificate) PROVE IInv'
    <3>1. /\ keyCache' = NothingCached /\ responseCache' = db'.certs
          /\ registered' = Served(db'.certs)
          /\ mgmt' = certificate /\ m_mgmtCert' = certificate /\ validatorCert' = certificate
      BY <2>6 DEF Restart, Start
    <3>2. CacheTyped' /\ CacheCurrent'
      BY <3>1 DEF CacheTyped, CacheCurrent, Cached, NothingCached
    <3>3. PublishedStored' /\ MgmtCertsAgree'
      BY <3>1 DEF PublishedStored, MgmtCertsAgree
    <3>4. Sound(db') /\ InProgress'
      BY <2>0, <2>6 DEF Restart, InProgress
    <3> QED
      BY <3>2, <3>3, <3>4 DEF IInv
  <2>7. ASSUME UNCHANGED vars PROVE IInv'
    BY <2>0, <2>7
    DEF vars, memory, cache, IInv, InProgress, CacheTyped, CacheCurrent, PublishedStored,
        MgmtCertsAgree, Cached
  <2> QED
    BY <2>1, <2>2, <2>3, <2>4, <2>5, <2>6, <2>7 DEF Next, Command
<1> QED
  BY <1>1, <1>2, PTL DEF Spec

\* Whatever commands are given, and wherever a crash cuts one short, no row is
\* left without its parent and there is at most one default under each parent.
THEOREM TablesStaySound == Spec => []TablesSound
<1>1. IInv => TablesSound
  BY DEF IInv, Sound, TablesSound
<1> QED
  BY <1>1, Inductive, PTL

\* The keys and the management certificate the validator keeps in memory are
\* those of the database, and so is the certificate the service signs with.
THEOREM ValidatorIsCurrent == Spec => []ValidatorCurrent
<1>1. IInv => ValidatorCurrent
  BY DEF IInv, ValidatorCurrent
<1> QED
  BY <1>1, Inductive, PTL

\* The publisher serves the certificates of the database under their prefixes.
THEOREM PublisherIsCurrent == Spec => []PublishedStored
<1>1. IInv => PublishedStored
  BY DEF IInv
<1> QED
  BY <1>1, Inductive, PTL
-----------------------------------------------------------------------------
(* The key cache stays within its capacity: its two indexes hold the same
   entries, each once. *)

\* Induction over Nat for a set given by its members: were k missing, the numbers
\* 0 .. k could be mapped into 0 .. k - 1 without a collision.
LEMMA NatSetInduction ==
  ASSUME NEW S, 0 \in S, \A n \in Nat : n \in S => n + 1 \in S
  PROVE  Nat \subseteq S
<1> SUFFICES ASSUME NEW k \in Nat, k \notin S PROVE FALSE
  OBVIOUS
<1> DEFINE f == [i \in 0 .. k |-> IF i \in S THEN i ELSE i - 1]
<1>1. k # 0
  OBVIOUS
<1>2. f \in [0 .. k -> 0 .. k - 1]
  <2>1. ASSUME NEW i \in 0 .. k PROVE f[i] \in 0 .. k - 1
    <3>1. CASE i \in S
      BY <1>1, <3>1
    <3>2. CASE i \notin S
      BY <1>1, <3>2
    <3> QED
      BY <3>1, <3>2
  <2> QED
    BY <2>1
<1>3. IsFiniteSet(0 .. k) /\ IsFiniteSet(0 .. k - 1) /\ Cardinality(0 .. k - 1) < Cardinality(0 .. k)
  BY <1>1, FS_Interval
<1>4. PICK i \in 0 .. k, j \in 0 .. k : i # j /\ f[i] = f[j]
  <2> HIDE DEF f
  <2> QED
    BY <1>2, <1>3, FS_PigeonHole
<1>5. \A n \in Nat : n \in S => n + 1 \in S
  OBVIOUS
<1> QED
  BY <1>4, <1>5

\* The recursion of Without over s and gone, up to n
LeftBehind(s, gone, n, g) ==
  g = [m \in 0 .. n |-> IF m = 0 THEN << >>
                        ELSE IF s[m] \in gone THEN g[m - 1] ELSE Append(g[m - 1], s[m])]

\* There is a function with this recursion.
LEMMA LeftBehindExists ==
  ASSUME NEW s, NEW gone, NEW n \in Nat
  PROVE  \E g : LeftBehind(s, gone, n, g)
<1> DEFINE S == {k \in Nat : \E g : LeftBehind(s, gone, k, g)}
<1>1. 0 \in S
  <2> DEFINE g == [m \in 0 .. 0 |-> << >>]
  <2>1. LeftBehind(s, gone, 0, g)
    BY DEF LeftBehind
  <2> QED
    BY <2>1
<1>2. ASSUME NEW k \in Nat, k \in S PROVE k + 1 \in S
  <2>1. PICK g : LeftBehind(s, gone, k, g)
    BY <1>2
  <2> DEFINE next == IF s[k + 1] \in gone THEN g[k] ELSE Append(g[k], s[k + 1])
             h == [m \in 0 .. k + 1 |-> IF m = k + 1 THEN next ELSE g[m]]
  <2>2. \A m \in 0 .. k : h[m] = g[m]
    OBVIOUS
  <2>3. h[k + 1] = next
    OBVIOUS
  <2> HIDE DEF next
  <2>4. \A m \in 0 .. k : g[m] = IF m = 0 THEN << >>
                                 ELSE IF s[m] \in gone THEN g[m - 1] ELSE Append(g[m - 1], s[m])
    BY <2>1 DEF LeftBehind
  <2> DEFINE r == [m \in 0 .. k + 1 |->
                     IF m = 0 THEN << >>
                     ELSE IF s[m] \in gone THEN h[m - 1] ELSE Append(h[m - 1], s[m])]
  <2>5. ASSUME NEW m \in 0 .. k + 1 PROVE h[m] = r[m]
    <3>1. CASE m = k + 1
      <4>1. h[k] = g[k] /\ (k + 1) - 1 = k /\ k + 1 # 0
        BY <2>2
      <4> QED
        BY <2>3, <3>1, <4>1 DEF next
    <3>2. CASE m # k + 1
      <4>1. m \in 0 .. k /\ (m # 0 => m - 1 \in 0 .. k)
        BY <3>2
      <4> HIDE DEF h
      <4> QED
        BY <2>2, <2>4, <4>1
    <3> QED
      BY <3>1, <3>2
  <2>6. h = r
    BY <2>5
  <2>7. LeftBehind(s, gone, k + 1, h)
    BY <2>6 DEF LeftBehind
  <2> QED
    BY <2>7
<1> HIDE DEF S
<1>3. Nat \subseteq S
  BY <1>1, <1>2, NatSetInduction
<1> QED
  BY <1>3 DEF S

\* x is one of the entries of a sequence; they differ from each other
Holds(s, x) == \E i \in 1 .. Len(s) : s[i] = x
Different(s) == \A i, j \in 1 .. Len(s) : s[i] = s[j] => i = j

\* Without keeps exactly the entries that are not in gone, in a sequence that is
\* shorter if there was one that is, and no entry is repeated that was not.
LEMMA WithoutKeeps ==
  ASSUME NEW K, NEW s \in Seq(K), NEW gone
  PROVE  /\ Without(s, gone) \in Seq(K)
         /\ Len(Without(s, gone)) <= Len(s)
         /\ (\E x \in gone : Holds(s, x)) => Len(Without(s, gone)) < Len(s)
         /\ \A x : Holds(Without(s, gone), x) <=> x \notin gone /\ Holds(s, x)
         /\ Different(s) => Different(Without(s, gone))
<1> DEFINE N == Len(s)
<1>1. N \in Nat /\ \A i \in 1 .. N : s[i] \in K
  OBVIOUS
<1>2. PICK g : LeftBehind(s, gone, N, g) /\ Without(s, gone) = g[N]
  <2>1. \E g : LeftBehind(s, gone, N, g)
    BY <1>1, LeftBehindExists
  <2>2. LeftBehind(s, gone, N, CHOOSE g : LeftBehind(s, gone, N, g))
    BY <2>1
  <2>3. Without(s, gone) = (CHOOSE g : LeftBehind(s, gone, N, g))[N]
    BY DEF Without, LeftBehind
  <2> QED
    BY <2>2, <2>3
<1> DEFINE Good(n, t) ==
             /\ t \in Seq(K) /\ Len(t) <= n
             /\ (\E i \in 1 .. n : s[i] \in gone) => Len(t) < n
             /\ \A i \in 1 .. Len(t) : t[i] \notin gone /\ \E m \in 1 .. n : s[m] = t[i]
             /\ \A m \in 1 .. n : s[m] \notin gone => \E i \in 1 .. Len(t) : t[i] = s[m]
             /\ Different(s) => Different(t)
           S == {n \in Nat : n <= N => Good(n, g[n])}
<1>3. \A m \in 0 .. N : g[m] = IF m = 0 THEN << >>
                               ELSE IF s[m] \in gone THEN g[m - 1] ELSE Append(g[m - 1], s[m])
  BY <1>2 DEF LeftBehind
<1> HIDE DEF N
<1>4. 0 \in S
  <2>1. g[0] = << >>
    BY <1>1, <1>3
  <2>2. << >> \in Seq(K) /\ Len(<< >>) = 0 /\ 1 .. 0 = {}
    OBVIOUS
  <2>3. Good(0, << >>)
    BY <2>2 DEF Different
  <2> HIDE DEF Good
  <2> QED
    BY <2>1, <2>3
<1>5. ASSUME NEW n \in Nat, n \in S PROVE n + 1 \in S
  <2> SUFFICES ASSUME n + 1 <= N PROVE Good(n + 1, g[n + 1])
    OBVIOUS
  <2> DEFINE k == n + 1
             t == g[n]
             x == s[k]
  <2>1. k \in 1 .. N /\ k - 1 = n /\ k \in Nat
    BY <1>1
  <2>2. g[k] = IF x \in gone THEN t ELSE Append(t, x)
    BY <1>1, <1>3, <2>1
  <2>3. Good(n, t)
    <3>1. n <= N
      BY <1>1
    <3> HIDE DEF Good
    <3> QED
      BY <1>5, <3>1
  <2>4. x \in K
    BY <1>1, <2>1
  <2>5. \A i : i \in 1 .. k <=> i \in 1 .. n \/ i = k
    BY <2>1
  <2>6. 1 .. k \subseteq 1 .. Len(s)
    BY <1>1, <2>1 DEF N
  <2> SUFFICES Good(k, g[k])
    OBVIOUS
  <2>7. CASE x \in gone
    <3>1. g[k] = t
      BY <2>2, <2>7
    <3>2. Len(t) <= n /\ Len(t) \in Nat /\ n < k
      BY <2>1, <2>3
    <3>3. Len(t) < k /\ Len(t) <= k
      BY <2>1, <3>2
    <3> HIDE DEF k, t, x
    <3> QED
      BY <2>3, <2>5, <2>7, <3>1, <3>3 DEF x
  <2>8. CASE x \notin gone
    <3> DEFINE u == Append(t, x)
    <3>1. g[k] = u
      BY <2>2, <2>8
    <3>2. Len(t) \in Nat /\ t \in Seq(K)
      BY <2>3
    <3> HIDE DEF k, t, x
    <3>3. /\ u \in Seq(K) /\ Len(u) = Len(t) + 1
          /\ \A i \in 1 .. Len(t) : u[i] = t[i]
          /\ u[Len(t) + 1] = x
      BY <2>4, <3>2, AppendProperties
    <3> HIDE DEF u
    <3>4. \A i : i \in 1 .. Len(u) <=> i \in 1 .. Len(t) \/ i = Len(u)
      BY <3>2, <3>3
    <3>5. Len(u) <= k
      BY <2>1, <2>3, <3>2, <3>3
    <3>6. (\E i \in 1 .. k : s[i] \in gone) => Len(u) < k
      <4>1. (\E i \in 1 .. k : s[i] \in gone) => \E i \in 1 .. n : s[i] \in gone
        BY <2>5, <2>8 DEF x
      <4> QED
        BY <2>1, <2>3, <3>2, <3>3, <4>1
    <3>7. \A i \in 1 .. Len(u) : u[i] \notin gone /\ \E m \in 1 .. k : s[m] = u[i]
      BY <2>3, <2>5, <2>8, <3>3, <3>4 DEF x
    <3>8. \A m \in 1 .. k : s[m] \notin gone => \E i \in 1 .. Len(u) : u[i] = s[m]
      BY <2>3, <2>5, <3>3, <3>4 DEF x
    <3>9. Different(s) => Different(u)
      <4> SUFFICES ASSUME Different(s), NEW i \in 1 .. Len(u), NEW j \in 1 .. Len(u), u[i] = u[j]
                   PROVE  i = j
        BY DEF Different
      <4>1. Different(t)
        BY <2>3
      <4>2. \A m \in 1 .. n : s[m] # x
        <5>1. \A m \in 1 .. n : m \in 1 .. Len(s) /\ m # k
          BY <2>1, <2>5, <2>6
        <5>2. k \in 1 .. Len(s)
          BY <2>5, <2>6
        <5> QED
          BY <5>1, <5>2 DEF Different, x
      <4>3. \A m \in 1 .. Len(t) : u[m] # x
        BY <2>3, <3>3, <4>2
      <4>4. u[Len(u)] = x
        BY <3>3
      <4>5. CASE i = Len(u) \/ j = Len(u)
        BY <3>4, <4>3, <4>4, <4>5
      <4>6. CASE i \in 1 .. Len(t) /\ j \in 1 .. Len(t)
        BY <3>3, <4>1, <4>6 DEF Different
      <4> QED
        BY <3>4, <4>5, <4>6
    <3> QED
      BY <3>1, <3>3, <3>5, <3>6, <3>7, <3>8, <3>9
  <2> QED
    BY <2>7, <2>8
<1> HIDE DEF S
<1>6. Nat \subseteq S
  BY <1>4, <1>5, NatSetInduction
<1>7. Good(N, g[N])
  BY <1>1, <1>6 DEF S
<1> HIDE DEF Good
<1>8. Good(Len(s), Without(s, gone))
  BY <1>2, <1>7 DEF N
<1>9. \A x : Holds(Without(s, gone), x) <=> x \notin gone /\ Holds(s, x)
  BY <1>8, Zenon DEF Good, Holds
<1>10. (\E x \in gone : Holds(s, x)) => \E i \in 1 .. Len(s) : s[i] \in gone
  BY DEF Holds
<1> QED
  BY <1>8, <1>9, <1>10 DEF Good

-----------------------------------------------------------------------------
(* Both indexes of the key cache hold the same entries, and no more of them than
   its capacity. *)
CacheIndexed ==
  /\ usedTimes \in Seq(KeyNames) /\ Len(usedTimes) <= Capacity
  /\ Different(usedTimes)
  /\ \A k \in KeyNames : Cached(k) <=> Holds(usedTimes, k)

\* One more entry at the end of s
LEMMA OneMore ==
  ASSUME NEW K, NEW s \in Seq(K), NEW k \in K, Different(s), ~Holds(s, k)
  PROVE  /\ Append(s, k) \in Seq(K) /\ Len(Append(s, k)) = Len(s) + 1
         /\ Different(Append(s, k))
         /\ \A x : Holds(Append(s, k), x) <=> x = k \/ Holds(s, x)
<1> DEFINE t == Append(s, k)
<1>1. /\ t \in Seq(K) /\ Len(t) = Len(s) + 1 /\ Len(s) \in Nat
      /\ \A i \in 1 .. Len(s) : t[i] = s[i]
      /\ t[Len(s) + 1] = k
  BY AppendProperties
<1> HIDE DEF t
<1>2. \A i : i \in 1 .. Len(t) <=> i \in 1 .. Len(s) \/ i = Len(t)
  BY <1>1
<1>3. Different(t)
  BY <1>1, <1>2 DEF Different, Holds
<1>4. \A x : Holds(t, x) <=> x = k \/ Holds(s, x)
  BY <1>1, <1>2 DEF Holds
<1> QED
  BY <1>1, <1>3, <1>4 DEF t

\* The first entry of s taken away
LEMMA OneLess ==
  ASSUME NEW K, NEW s \in Seq(K), Len(s) > 0, Different(s)
  PROVE  /\ Tail(s) \in Seq(K) /\ Len(Tail(s)) = Len(s) - 1 /\ Head(s) = s[1]
         /\ Different(Tail(s))
         /\ \A x : Holds(Tail(s), x) <=> x # Head(s) /\ Holds(s, x)
<1> DEFINE t == Tail(s)
<1>1. /\ t \in Seq(K) /\ Len(t) = Len(s) - 1 /\ Len(s) \in Nat \ {0} /\ Head(s) = s[1]
      /\ \A i \in 1 .. Len(t) : t[i] = s[i + 1]
  <2>1. s # << >> /\ Len(s) \in Nat
    OBVIOUS
  <2> QED
    BY <2>1, HeadTailProperties
<1> HIDE DEF t
<1>2. /\ \A i \in 1 .. Len(t) : i + 1 \in 1 .. Len(s) /\ i + 1 # 1
      /\ \A i \in 1 .. Len(s) : i = 1 \/ (i - 1 \in 1 .. Len(t) /\ (i - 1) + 1 = i)
  BY <1>1
<1>3. Different(t)
  <2> SUFFICES ASSUME NEW i \in 1 .. Len(t), NEW j \in 1 .. Len(t), t[i] = t[j] PROVE i = j
    BY DEF Different
  <2>1. i + 1 = j + 1
    BY <1>1, <1>2 DEF Different
  <2> QED
    BY <2>1, <1>1
<1>4. 1 \in 1 .. Len(s)
  BY <1>1
<1>5. ASSUME NEW x PROVE Holds(t, x) <=> x # s[1] /\ Holds(s, x)
  <2>1. ASSUME NEW i \in 1 .. Len(t), t[i] = x PROVE x # s[1] /\ Holds(s, x)
    BY <1>1, <1>2, <1>4, <2>1 DEF Different, Holds
  <2>2. ASSUME NEW i \in 1 .. Len(s), s[i] = x, x # s[1] PROVE Holds(t, x)
    <3>1. i - 1 \in 1 .. Len(t) /\ (i - 1) + 1 = i
      BY <1>2, <2>2
    <3>2. t[i - 1] = x
      BY <1>1, <2>2, <3>1
    <3> QED
      BY <3>1, <3>2 DEF Holds
  <2> QED
    BY <2>1, <2>2 DEF Holds
<1> QED
  BY <1>1, <1>3, <1>5 DEF t

\* A lookup keeps the indexes in agreement, and evicts before it inserts.
LEMMA LookUpIndexed ==
  ASSUME db.keys \in [KeyNames -> KeyBits \cup {NoKey}], CacheTyped, CacheIndexed,
         NEW signer \in Signers, LookUp(signer)
  PROVE  CacheIndexed'
<1>1. /\ usedTimes \in Seq(KeyNames) /\ Len(usedTimes) <= Capacity /\ Different(usedTimes)
      /\ \A k \in KeyNames : keyCache[k] # NoKey <=> Holds(usedTimes, k)
      /\ Len(usedTimes) \in Nat /\ Capacity \in Nat \ {0}
  BY ServiceAssumption DEF CacheIndexed, Cached
<1>3. CASE UNCHANGED cache
  BY <1>3 DEF cache, CacheIndexed, Cached, Different, Holds
<1>4. CASE Cached(signer) /\ AdjustLru(signer)
  <2> DEFINE s == Without(usedTimes, {signer})
  <2>1. signer \in KeyNames /\ Holds(usedTimes, signer)
    BY <1>1, <1>4 DEF Cached
  <2>2. /\ s \in Seq(KeyNames) /\ Different(s)
        /\ \A x : Holds(s, x) <=> x # signer /\ Holds(usedTimes, x)
    BY <1>1, WithoutKeeps, Zenon
  <2>3. Len(s) < Len(usedTimes)
    <3>1. \E x \in {signer} : Holds(usedTimes, x)
      BY <2>1
    <3> QED
      BY <1>1, <3>1, WithoutKeeps
  <2>4. usedTimes' = Append(s, signer) /\ keyCache' = keyCache
    BY <1>4 DEF AdjustLru
  <2> HIDE DEF s
  <2>5. /\ Append(s, signer) \in Seq(KeyNames) /\ Len(Append(s, signer)) = Len(s) + 1
        /\ Different(Append(s, signer))
        /\ \A x : Holds(Append(s, signer), x) <=> x = signer \/ Holds(s, x)
    BY <2>1, <2>2, OneMore, Zenon
  <2>6. Len(s) + 1 <= Capacity
    BY <1>1, <2>2, <2>3
  <2>7. \A k \in KeyNames : keyCache'[k] # NoKey <=> Holds(usedTimes', k)
    BY <1>1, <2>1, <2>2, <2>4, <2>5
  <2> QED
    BY <2>4, <2>5, <2>6, <2>7 DEF CacheIndexed, Cached
<1>5. CASE ~Cached(signer) /\ signer \in StoredKeys(db) /\ InsertEntry(signer, db.keys[signer])
  <2> DEFINE s == IF IsFull THEN Tail(usedTimes) ELSE usedTimes
             evicted(k) == IsFull /\ k = Head(usedTimes)
  <2>1. signer \in KeyNames /\ db.keys[signer] # NoKey /\ ~Holds(usedTimes, signer)
    BY <1>1, <1>5 DEF Cached, StoredKeys
  <2>2. /\ s \in Seq(KeyNames) /\ Different(s) /\ Len(s) < Capacity
        /\ \A x : Holds(s, x) <=> Holds(usedTimes, x) /\ ~evicted(x)
    <3>1. CASE IsFull
      <4>1. Len(usedTimes) > 0
        BY <1>1, <3>1 DEF IsFull
      <4>2. /\ Tail(usedTimes) \in Seq(KeyNames) /\ Len(Tail(usedTimes)) = Len(usedTimes) - 1
            /\ Different(Tail(usedTimes))
            /\ \A x : Holds(Tail(usedTimes), x) <=> x # Head(usedTimes) /\ Holds(usedTimes, x)
        BY <1>1, <4>1, OneLess
      <4> QED
        BY <1>1, <3>1, <4>2
    <3>2. CASE ~IsFull
      BY <1>1, <3>2 DEF IsFull
    <3> QED
      BY <3>1, <3>2
  <2>3. /\ usedTimes' = Append(s, signer)
        /\ \A k \in KeyNames : keyCache'[k] = IF k = signer THEN db.keys[signer]
                                              ELSE IF evicted(k) THEN NoKey ELSE keyCache[k]
    BY <1>5 DEF InsertEntry
  <2> HIDE DEF s
  <2>4. ~Holds(s, signer)
    BY <2>1, <2>2
  <2>5. /\ Append(s, signer) \in Seq(KeyNames) /\ Len(Append(s, signer)) = Len(s) + 1
        /\ Different(Append(s, signer))
        /\ \A x : Holds(Append(s, signer), x) <=> x = signer \/ Holds(s, x)
    BY <2>1, <2>2, <2>4, OneMore, Zenon
  <2>6. Len(s) + 1 <= Capacity
    BY <1>1, <2>2
  <2>7. \A k \in KeyNames : keyCache'[k] # NoKey <=> Holds(usedTimes', k)
    <3> HIDE DEF evicted
    <3> QED
      BY <1>1, <2>1, <2>2, <2>3, <2>5
  <2> QED
    BY <2>3, <2>5, <2>6, <2>7 DEF CacheIndexed, Cached
<1> QED
  BY <1>3, <1>4, <1>5 DEF LookUp

\* So does the slot of keyDeleted.
LEMMA ForgetIndexed ==
  ASSUME CacheTyped, CacheIndexed, ForgetKeys
  PROVE  CacheIndexed'
<1> DEFINE gone == StoredKeys(db) \ StoredKeys(db')
           s == Without(usedTimes, gone)
<1>1. /\ usedTimes \in Seq(KeyNames) /\ Len(usedTimes) <= Capacity /\ Different(usedTimes)
      /\ \A k \in KeyNames : keyCache[k] # NoKey <=> Holds(usedTimes, k)
      /\ Len(usedTimes) \in Nat /\ Capacity \in Nat \ {0}
  BY ServiceAssumption DEF CacheIndexed, Cached
<1>2. /\ usedTimes' = s
      /\ \A k \in KeyNames : keyCache'[k] = IF k \in gone THEN NoKey ELSE keyCache[k]
  BY DEF ForgetKeys
<1> HIDE DEF gone
<1>3. /\ s \in Seq(KeyNames) /\ Different(s) /\ Len(s) <= Len(usedTimes)
      /\ \A x : Holds(s, x) <=> x \notin gone /\ Holds(usedTimes, x)
  BY <1>1, WithoutKeeps, Zenon
<1> HIDE DEF s
<1>4. Len(s) <= Capacity
  BY <1>1, <1>3
<1>5. \A k \in KeyNames : keyCache'[k] # NoKey <=> Holds(usedTimes', k)
  BY <1>1, <1>2, <1>3
<1> QED
  BY <1>2, <1>3, <1>4, <1>5 DEF CacheIndexed, Cached


-----------------------------------------------------------------------------
(* With the inductive invariant, these make every variable typed. *)
MemoryTyped ==
  /\ mgmt \in MgmtCerts /\ m_mgmtCert \in MgmtCerts /\ validatorCert \in MgmtCerts
  /\ up \in BOOLEAN /\ step \in Nat
  /\ responseCache \in SUBSET CertNames /\ registered \in SUBSET Prefixes

\* every step keeps the caches and the memory of the service in their types
LEMMA StepTyped ==
  IInv /\ IInv' /\ CacheIndexed /\ MemoryTyped /\ [Next]_vars => CacheIndexed' /\ MemoryTyped'
<1> SUFFICES ASSUME IInv, IInv', CacheIndexed, MemoryTyped, [Next]_vars
             PROVE  CacheIndexed' /\ MemoryTyped'
  OBVIOUS
<1>1. /\ db.keys \in [KeyNames -> KeyBits \cup {NoKey}] /\ CacheTyped /\ InProgress
      /\ db' \in Databases /\ db'.certs \in SUBSET CertNames
  BY DEF IInv, Sound, Databases
<1>2. \A C \in SUBSET CertNames : Served(C) \in SUBSET Prefixes
  BY ServiceAssumption DEF Served
<1>3. ASSUME NEW signer \in Signers, NEW signedWith \in KeyBits, NEW r \in Requests,
             Accept(r, signer, signedWith)
      PROVE  CacheIndexed' /\ MemoryTyped'
  BY <1>1, <1>3, LookUpIndexed DEF Accept, MemoryTyped
<1>4. ASSUME NEW signer \in Signers, Reject(signer)
      PROVE  CacheIndexed' /\ MemoryTyped'
  BY <1>1, <1>4, LookUpIndexed DEF Reject, MemoryTyped
<1>5. ASSUME NEW signer \in Signers, NEW signedWith \in KeyBits, NEW certificate \in MgmtCerts,
             ProcessUpdateUser(certificate, signer, signedWith)
      PROVE  CacheIndexed' /\ MemoryTyped'
  BY <1>1, <1>5, LookUpIndexed DEF ProcessUpdateUser, UpdateUser, MemoryTyped
<1>6. CASE RunStatement
  <2>1. CacheIndexed'
    BY <1>1, <1>6, ForgetIndexed DEF RunStatement
  <2>2. step' \in Nat
    BY <1>1, <1>6 DEF RunStatement, MemoryTyped
  <2>3. responseCache' \in SUBSET CertNames /\ registered' \in SUBSET Prefixes
    <3>1. up' /\ PublishedStored'
      BY <1>6 DEF RunStatement, MemoryTyped, IInv
    <3> QED
      BY <1>1, <1>2, <3>1 DEF PublishedStored
  <2> QED
    BY <1>6, <2>1, <2>2, <2>3 DEF RunStatement, MemoryTyped
<1>7. CASE Crash
  BY <1>7 DEF Crash, memory, cache, MemoryTyped, CacheIndexed, Cached, Different, Holds
<1>8. ASSUME NEW certificate \in MgmtCerts, Restart(certificate)
      PROVE  CacheIndexed' /\ MemoryTyped'
  <2>1. usedTimes' = << >> /\ \A k \in KeyNames : keyCache'[k] = NoKey
    BY <1>8 DEF Restart, Start, NothingCached
  <2>2. << >> \in Seq(KeyNames) /\ Len(<< >>) = 0 /\ 1 .. 0 = {} /\ 0 <= Capacity
    BY ServiceAssumption
  <2>3. CacheIndexed'
    BY <2>1, <2>2 DEF CacheIndexed, Cached, Different, Holds
  <2>4. MemoryTyped'
    BY <1>1, <1>2, <1>8 DEF Restart, Start, MemoryTyped
  <2> QED
    BY <2>3, <2>4
<1>9. CASE UNCHANGED vars
  BY <1>9 DEF vars, memory, cache, MemoryTyped, CacheIndexed, Cached, Different, Holds
<1> QED
  BY <1>3, <1>4, <1>5, <1>6, <1>7, <1>8, <1>9 DEF Next, Command

\* Every variable keeps its type: the key cache never holds more keys than its
\* capacity, although a deletion, a lookup and an eviction change its two indexes
\* apart, and the command in progress is one that a client can send.
THEOREM TypeCorrect == Spec => []TypeOK
<1>1. Init => CacheIndexed /\ MemoryTyped
  <2> SUFFICES ASSUME Init PROVE CacheIndexed /\ MemoryTyped
    OBVIOUS
  <2>1. << >> \in Seq(KeyNames) /\ Len(<< >>) = 0 /\ 1 .. 0 = {} /\ 0 <= Capacity
    BY ServiceAssumption
  <2>2. usedTimes = << >> /\ \A k \in KeyNames : keyCache[k] = NoKey
    BY DEF Init, NothingCached
  <2>3. CacheIndexed
    BY <2>1, <2>2 DEF CacheIndexed, Cached, Different, Holds
  <2> QED
    BY <2>3 DEF Init, MemoryTyped
<1>2. Spec => [](CacheIndexed /\ MemoryTyped)
  BY <1>1, StepTyped, Inductive, PTL DEF Spec
<1>3. IInv /\ CacheIndexed /\ MemoryTyped => TypeOK
  BY DEF IInv, Sound, InProgress, CacheTyped, CacheIndexed, MemoryTyped, TypeOK
<1> QED
  BY <1>2, <1>3, Inductive, PTL

-----------------------------------------------------------------------------
(* From d to e a default is lost only with its row. *)
DefaultsStay(d, e) ==
  /\ d.defaultIds # {} /\ e.defaultIds = {} => ~(d.defaultIds \subseteq e.ids)
  /\ \A k \in d.defaultKeys :
       (\A l \in e.defaultKeys : IdentityOf[l] # IdentityOf[k]) => k \notin StoredKeys(e)
  /\ \A b \in d.defaultCerts :
       (\A c \in e.defaultCerts : KeyOf[c] # KeyOf[b]) => b \notin e.certs

\* tables that lose no default keep the defaults
LEMMA NothingLost ==
  ASSUME NEW d, NEW e, d.defaultIds # {} => e.defaultIds # {},
         \A k \in d.defaultKeys : \E l \in e.defaultKeys : IdentityOf[l] = IdentityOf[k],
         \A b \in d.defaultCerts : \E c \in e.defaultCerts : KeyOf[c] = KeyOf[b]
  PROVE  DefaultsStay(d, e)
  BY DEF DefaultsStay

\* a statement of a command takes no default from a parent that stays
LEMMA ExecuteKeepsDefaults ==
  ASSUME NEW d, Sound(d), NEW r \in Requests, NEW n \in 1 .. Len(Statements(r))
  PROVE  DefaultsStay(d, Execute(d, Statements(r)[n], r))
<1> DEFINE s == Statements(r)[n]
           e == Execute(d, s, r)
<1> SUFFICES DefaultsStay(d, e)
  OBVIOUS
<1>1. d \in Databases
  BY DEF Sound
<1>2. CASE OwnerOf(r) \in Identities /\ e = AddIdentity(d, OwnerOf(r))
  <2> DEFINE i == OwnerOf(r)
  <2>1. /\ e.defaultKeys = d.defaultKeys /\ e.defaultCerts = d.defaultCerts
        /\ e.defaultIds \in {d.defaultIds, InsertDefault(d.defaultIds, Identities, i)}
    BY <1>1, <1>2 DEF AddIdentity, Databases
  <2> HIDE DEF e
  <2> QED
    BY <2>1, NothingLost DEF InsertDefault, MarkDefault
<1>3. CASE KeyNameOf(r) \in KeyNames /\ r.bits \in KeyBits /\ e = InsertKey(d, KeyNameOf(r), r.bits)
  <2> DEFINE k == KeyNameOf(r)
  <2>1. /\ e.defaultIds = d.defaultIds /\ e.defaultCerts = d.defaultCerts
        /\ e.defaultKeys \in {d.defaultKeys, InsertDefault(d.defaultKeys, Siblings(k), k)}
    BY <1>1, <1>3 DEF InsertKey, Databases
  <2>2. d.defaultKeys \subseteq e.defaultKeys
    BY <2>1 DEF InsertDefault, MarkDefault
  <2> HIDE DEF e
  <2> QED
    BY <2>1, <2>2, NothingLost
<1>4. CASE r.target \in CertNames /\ e = InsertCertificate(d, r.target)
  <2> DEFINE c == r.target
  <2>1. /\ e.defaultIds = d.defaultIds /\ e.defaultKeys = d.defaultKeys
        /\ e.defaultCerts \in {d.defaultCerts, InsertDefault(d.defaultCerts, SameKey(c), c)}
    BY <1>1, <1>4 DEF InsertCertificate, Databases
  <2>2. d.defaultCerts \subseteq e.defaultCerts
    BY <2>1 DEF InsertDefault, MarkDefault
  <2> HIDE DEF e
  <2> QED
    BY <2>1, <2>2, NothingLost
<1>5. CASE OwnerOf(r) \in Identities /\ e = SetDefaultIdentity(d, OwnerOf(r))
  <2> DEFINE i == OwnerOf(r)
  <2>1. /\ e.defaultKeys = d.defaultKeys /\ e.defaultCerts = d.defaultCerts
        /\ e.defaultIds = d.defaultIds \/ i \in e.defaultIds
    BY <1>1, <1>5 DEF SetDefaultIdentity, MarkDefault, Databases
  <2> HIDE DEF e
  <2> QED
    BY <2>1, NothingLost
<1>6. CASE KeyNameOf(r) \in KeyNames /\ e = SetDefaultKeyNameOfIdentity(d, KeyNameOf(r))
  <2> DEFINE k == KeyNameOf(r)
  <2>1. /\ e.defaultIds = d.defaultIds /\ e.defaultCerts = d.defaultCerts
        /\ e.defaultKeys \in {d.defaultKeys, MarkDefault(d.defaultKeys, Siblings(k), k)}
    BY <1>1, <1>6 DEF SetDefaultKeyNameOfIdentity, Databases
  <2>2. \A l \in d.defaultKeys : \E m \in e.defaultKeys : IdentityOf[m] = IdentityOf[l]
    BY <2>1 DEF MarkDefault, Siblings, KeysOfIds
  <2> HIDE DEF e
  <2> QED
    BY <2>1, <2>2, NothingLost
<1>7. CASE r.target \in CertNames /\ e = SetDefaultCertNameOfKey(d, r.target)
  <2> DEFINE c == r.target
  <2>1. /\ e.defaultIds = d.defaultIds /\ e.defaultKeys = d.defaultKeys
        /\ e.defaultCerts \in {d.defaultCerts, MarkDefault(d.defaultCerts, SameKey(c), c)}
    BY <1>1, <1>7 DEF SetDefaultCertNameOfKey, Databases
  <2>2. \A b \in d.defaultCerts : \E a \in e.defaultCerts : KeyOf[a] = KeyOf[b]
    BY <2>1 DEF MarkDefault, SameKey, CertsOfKeys
  <2> HIDE DEF e
  <2> QED
    BY <2>1, <2>2, NothingLost
<1>8. CASE r.target \in Identities /\ e = DeleteIdentity(d, r.target)
  <2>1. DeletedIdentity(d, e, r.target)
    BY <1>8, DeleteIdentitySound
  <2> HIDE DEF e
  <2> QED
    BY <2>1 DEF DefaultsStay, DeletedIdentity
<1>9. CASE {r.target} \in SUBSET KeyNames /\ e = DeleteKeys(d, {r.target})
  <2>1. DeletedKeys(d, e, {r.target})
    BY <1>9, DeleteKeysSound
  <2> HIDE DEF e
  <2> QED
    BY <2>1 DEF DefaultsStay, DeletedKeys
<1>10. CASE e = DeleteCertificates(d, {r.target})
  <2> DEFINE C == {r.target}
  <2>1. /\ e.defaultIds = d.defaultIds /\ e.defaultKeys = d.defaultKeys
        /\ e.certs = d.certs \ C /\ e.defaultCerts = d.defaultCerts \ C
    BY <1>10, DeleteCertificatesSound
  <2> HIDE DEF e
  <2> QED
    BY <2>1 DEF DefaultsStay
<1>11. StatementMakes(s, d, r, e)
  BY ExecuteCases
<1> HIDE DEF e, s
<1> QED
  BY <1>2, <1>3, <1>4, <1>5, <1>6, <1>7, <1>8, <1>9, <1>10, <1>11 DEF StatementMakes

\* A default is lost only with its row: the triggers clear a default only when
\* they set another one, and no update leaves a parent without the default it had.
THEOREM DefaultsStayKept == Spec => DefaultsKept
<1>1. ASSUME IInv, [Next]_vars PROVE DefaultsStay(db, db')
  <2>1. CASE RunStatement
    <3>1. Sound(db) /\ request \in Requests /\ step \in 1 .. Len(Statements(request))
      BY <1>1, <2>1 DEF IInv, InProgress, RunStatement
    <3>2. db' = Execute(db, Statements(request)[step], request)
      BY <2>1 DEF RunStatement
    <3> QED
      BY <3>1, <3>2, ExecuteKeepsDefaults
  <2>2. CASE UNCHANGED db
    BY <2>2, NothingLost
  <2>3. RunStatement \/ UNCHANGED db
    BY <1>1 DEF Next, Command, Accept, Reject, ProcessUpdateUser, Crash, Restart, vars
  <2> QED
    BY <2>1, <2>2, <2>3
<1>2. IInv /\ [Next]_vars =>
        [/\ db.defaultIds # {} /\ db'.defaultIds = {} => ~(db.defaultIds \subseteq db'.ids)
         /\ \A k \in db.defaultKeys :
              (\A l \in db'.defaultKeys : IdentityOf[l] # IdentityOf[k]) => k \notin StoredKeys(db')
         /\ \A b \in db.defaultCerts :
              (\A c \in db'.defaultCerts : KeyOf[c] # KeyOf[b]) => b \notin db'.certs]_vars
  BY <1>1 DEF DefaultsStay
<1> QED
  BY <1>2, Inductive, PTL DEF Spec, DefaultsKept

-----------------------------------------------------------------------------
(* What a statement is there for. A command's later statements find what they
   need, for the earlier ones have seen to it and nothing undoes it in between. *)
Achieved(d, s, r) ==
  /\ s = "addIdentity" => OwnerOf(r) \in d.ids
  /\ s = "insertKey" => KeyNameOf(r) \in StoredKeys(d)
  /\ s = "insertCert" => r.target \in d.certs
  /\ s = "defaultIdentity" => OwnerOf(r) \in d.defaultIds
  /\ s = "defaultKey" => KeyNameOf(r) \in d.defaultKeys
  /\ s = "defaultCert" => r.target \in d.defaultCerts
  /\ s = "delete" => /\ r.type = "id" => r.target \notin d.ids
                     /\ r.type = "key" => r.target \notin StoredKeys(d)
                     /\ r.type = "cert" => r.target \notin d.certs

Prepared(d, s, r) ==
  /\ s \in {"insertKey", "defaultIdentity"} => OwnerOf(r) \in d.ids
  /\ s \in {"insertCert", "defaultKey"} => KeyNameOf(r) \in StoredKeys(d)
  /\ s = "defaultCert" => r.target \in d.certs

\* the owner that a command names is the one of its key
LEMMA OwnerOfKey ==
  ASSUME NEW r \in Requests
  PROVE  /\ OwnerOf(r) \in Identities
         /\ r.type # "id" => KeyNameOf(r) \in KeyNames /\ OwnerOf(r) = IdentityOf[KeyNameOf(r)]
         /\ r.type = "cert" => KeyNameOf(r) = KeyOf[r.target]
  BY RequestTyped, NamesAssumption DEF OwnerOf, KeyNameOf, Types

\* A statement achieves what it is there for.
LEMMA ExecuteAchieves ==
  ASSUME NEW d, Sound(d), NEW r \in Requests, NEW n \in 1 .. Len(Statements(r)),
         Prepared(d, Statements(r)[n], r)
  PROVE  Achieved(Execute(d, Statements(r)[n], r), Statements(r)[n], r)
<1> DEFINE s == Statements(r)[n]
           e == Execute(d, s, r)
<1> SUFFICES Achieved(e, s, r)
  OBVIOUS
<1>1. d \in Databases /\ StatementMakes(s, d, r, e) /\ Prepared(d, s, r)
  BY ExecuteCases DEF Sound
<1>2. /\ r.type # "id" => OwnerOf(r) = IdentityOf[KeyNameOf(r)]
      /\ r.type = "cert" => KeyNameOf(r) = KeyOf[r.target]
  BY OwnerOfKey
<1> HIDE DEF e, s
<1>3. CASE s = "addIdentity" /\ e = AddIdentity(d, OwnerOf(r))
  BY <1>1, <1>3 DEF AddIdentity, Databases, Achieved
<1>4. CASE /\ s = "insertKey" /\ r.type # "id" /\ KeyNameOf(r) \in KeyNames /\ r.bits \in KeyBits
           /\ e = InsertKey(d, KeyNameOf(r), r.bits)
  <2> DEFINE k == KeyNameOf(r)
             def == InsertDefault(d.defaultKeys, Siblings(k), k)
  <2>1. IdentityOf[k] \in d.ids
    BY <1>1, <1>2, <1>4 DEF Prepared
  <2>2. CASE k \in StoredKeys(d)
    BY <1>4, <2>2 DEF InsertKey, Achieved
  <2>3. CASE k \notin StoredKeys(d)
    <3>1. e = [d EXCEPT !.keys = [d.keys EXCEPT ![k] = r.bits], !.defaultKeys = def]
      BY <1>1, <1>4, <2>1, <2>3 DEF InsertKey, Databases
    <3> HIDE DEF def, k
    <3>2. e.keys[k] = r.bits /\ k \in KeyNames
      BY <1>1, <1>4, <3>1 DEF Databases, k
    <3> QED
      BY <1>4, <3>2, NullsAssumption DEF Achieved, StoredKeys, k
  <2> QED
    BY <2>2, <2>3
<1>5. CASE s = "insertCert" /\ r.type = "cert" /\ e = InsertCertificate(d, r.target)
  <2>1. KeyOf[r.target] \in StoredKeys(d)
    BY <1>1, <1>2, <1>5 DEF Prepared
  <2> QED
    BY <1>1, <1>5, <2>1 DEF InsertCertificate, Databases, Achieved
<1>6. CASE s = "defaultIdentity" /\ e = SetDefaultIdentity(d, OwnerOf(r))
  BY <1>1, <1>6 DEF SetDefaultIdentity, MarkDefault, Databases, Achieved, Prepared
<1>7. CASE s = "defaultKey" /\ e = SetDefaultKeyNameOfIdentity(d, KeyNameOf(r))
  BY <1>1, <1>7 DEF SetDefaultKeyNameOfIdentity, MarkDefault, Databases, Achieved, Prepared
<1>8. CASE s = "defaultCert" /\ e = SetDefaultCertNameOfKey(d, r.target)
  BY <1>1, <1>8 DEF SetDefaultCertNameOfKey, MarkDefault, Databases, Achieved, Prepared
<1>9. CASE s = "delete" /\ r.type = "id" /\ r.target \in Identities /\ e = DeleteIdentity(d, r.target)
  <2>1. DeletedIdentity(d, e, r.target)
    BY <1>9, DeleteIdentitySound
  <2> QED
    BY <1>9, <2>1 DEF DeletedIdentity, Achieved
<1>10. CASE s = "delete" /\ r.type = "key" /\ {r.target} \in SUBSET KeyNames /\ e = DeleteKeys(d, {r.target})
  <2>1. DeletedKeys(d, e, {r.target})
    BY <1>10, DeleteKeysSound
  <2> QED
    BY <1>10, <2>1 DEF DeletedKeys, Achieved
<1>11. CASE s = "delete" /\ r.type = "cert" /\ e = DeleteCertificates(d, {r.target})
  <2>1. e.certs = d.certs \ {r.target}
    BY <1>11, DeleteCertificatesSound
  <2> QED
    BY <1>11, <2>1 DEF Achieved
<1> QED
  BY <1>1, <1>3, <1>4, <1>5, <1>6, <1>7, <1>8, <1>9, <1>10, <1>11 DEF StatementMakes

\* No statement of an update takes back what another one of the same update is
\* there for.
LEMMA ExecuteKeepsAchieved ==
  ASSUME NEW d, Sound(d), NEW r \in Requests, NEW n \in 1 .. Len(Statements(r)),
         Statements(r)[n] # "delete", NEW t, t # "delete", Achieved(d, t, r)
  PROVE  Achieved(Execute(d, Statements(r)[n], r), t, r)
<1> DEFINE s == Statements(r)[n]
           e == Execute(d, s, r)
           i == OwnerOf(r)
           k == KeyNameOf(r)
           c == r.target
           More == /\ d.ids \subseteq e.ids /\ StoredKeys(d) \subseteq StoredKeys(e)
                   /\ d.certs \subseteq e.certs
                   /\ i \in d.defaultIds => i \in e.defaultIds
                   /\ k \in d.defaultKeys => k \in e.defaultKeys
                   /\ c \in d.defaultCerts => c \in e.defaultCerts
<1>1. d \in Databases /\ StatementMakes(s, d, r, e) /\ s # "delete"
  BY ExecuteCases DEF Sound
<1> HIDE DEF e, s
<1>2. ASSUME i \in Identities /\ e = AddIdentity(d, i) PROVE More
  BY <1>1, <1>2 DEF AddIdentity, InsertDefault, MarkDefault, Databases, StoredKeys
<1>3. ASSUME k \in KeyNames /\ r.bits \in KeyBits /\ e = InsertKey(d, k, r.bits) PROVE More
  <2> DEFINE def == InsertDefault(d.defaultKeys, Siblings(k), k)
  <2>1. CASE e = d
    BY <2>1
  <2>2. CASE e = [d EXCEPT !.keys = [d.keys EXCEPT ![k] = r.bits], !.defaultKeys = def]
    <3>1. d.defaultKeys \subseteq def
      BY DEF InsertDefault, MarkDefault
    <3> HIDE DEF def, k
    <3>2. /\ e.ids = d.ids /\ e.defaultIds = d.defaultIds /\ e.defaultKeys = def
          /\ e.certs = d.certs /\ e.defaultCerts = d.defaultCerts
          /\ e.keys = [d.keys EXCEPT ![k] = r.bits]
      BY <1>1, <2>2 DEF Databases
    <3>3. StoredKeys(d) \subseteq StoredKeys(e)
      BY <1>1, <1>3, <3>2, NullsAssumption DEF Databases, StoredKeys
    <3> QED
      BY <3>1, <3>2, <3>3
  <2> QED
    BY <1>1, <1>3, <2>1, <2>2 DEF InsertKey, Databases
<1>4. ASSUME e = InsertCertificate(d, c) PROVE More
  BY <1>1, <1>4 DEF InsertCertificate, InsertDefault, MarkDefault, Databases, StoredKeys
<1>5. ASSUME e = SetDefaultIdentity(d, i) PROVE More
  BY <1>1, <1>5 DEF SetDefaultIdentity, MarkDefault, Databases, StoredKeys
<1>6. ASSUME e = SetDefaultKeyNameOfIdentity(d, k) PROVE More
  BY <1>1, <1>6 DEF SetDefaultKeyNameOfIdentity, MarkDefault, Databases, StoredKeys
<1>7. ASSUME e = SetDefaultCertNameOfKey(d, c) PROVE More
  BY <1>1, <1>7 DEF SetDefaultCertNameOfKey, MarkDefault, Databases, StoredKeys
<1>8. More
  BY <1>1, <1>2, <1>3, <1>4, <1>5, <1>6, <1>7 DEF StatementMakes
<1> QED
  BY <1>8 DEF Achieved, s, e

-----------------------------------------------------------------------------
(* The order of the statements of an update: first the rows, the parent before
   its child, and then the defaults that its option asks for. *)
AllStatements == {"addIdentity", "insertKey", "insertCert", "defaultCert", "defaultKey",
                  "defaultIdentity", "delete"}
SetsDefault == {"defaultCert", "defaultKey", "defaultIdentity"}
Rows(r) ==
  CASE r.type = "id"   -> <<"addIdentity">>
    [] r.type = "key"  -> <<"addIdentity", "insertKey">>
    [] r.type = "cert" -> <<"addIdentity", "insertKey", "insertCert">>
Begins(u, s) ==
  /\ u \in Seq(AllStatements) /\ Len(s) <= Len(u)
  /\ \A i \in 1 .. Len(s) : u[i] = s[i]
  /\ \A i \in 1 .. Len(u) : i > Len(s) => u[i] \in SetsDefault
Option(r, mask, s) == IF mask \in Masks(r.opt) THEN <<s>> ELSE << >>

\* a statement for a default comes behind the rows it needs
LEMMA OptionBehind ==
  ASSUME NEW s \in Seq(AllStatements), NEW u, Begins(u, s), NEW r, NEW mask, NEW x \in SetsDefault
  PROVE  /\ Begins(u \o Option(r, mask, x), s)
         /\ \A y : Holds(u \o Option(r, mask, x), y) <=> Holds(u, y) \/ (mask \in Masks(r.opt) /\ y = x)
<1> DEFINE o == Option(r, mask, x)
           on == mask \in Masks(r.opt)
           v == u \o o
<1>1. /\ o \in Seq(AllStatements) /\ Len(o) \in Nat
      /\ Len(o) = IF on THEN 1 ELSE 0
      /\ on => o[1] = x
  <2>1. << >> \in Seq(AllStatements) /\ Len(<< >>) = 0
    OBVIOUS
  <2>2. x \in AllStatements
    BY DEF SetsDefault, AllStatements
  <2>3. <<x>> \in Seq(AllStatements) /\ Len(<<x>>) = 1 /\ <<x>>[1] = x
    BY <2>2
  <2> QED
    BY <2>1, <2>3 DEF Option
<1>2. u \in Seq(AllStatements) /\ Len(u) \in Nat /\ Len(s) \in Nat
  BY DEF Begins
<1> HIDE DEF o, on
<1>3. /\ v \in Seq(AllStatements) /\ Len(v) = Len(u) + Len(o)
      /\ \A i \in 1 .. Len(u) : v[i] = u[i]
      /\ \A i \in 1 .. Len(v) : i > Len(u) => v[i] = o[i - Len(u)]
  BY <1>1, <1>2, ConcatProperties
<1> HIDE DEF v
<1>4. /\ \A i : i \in 1 .. Len(v) <=> i \in 1 .. Len(u) \/ (on /\ i = Len(u) + 1)
      /\ on => v[Len(u) + 1] = x
  BY <1>1, <1>2, <1>3
<1>5. Begins(v, s)
  <2>1. Len(s) <= Len(v)
    BY <1>1, <1>2, <1>3 DEF Begins
  <2>2. \A i \in 1 .. Len(s) : i \in 1 .. Len(u)
    BY <1>2 DEF Begins
  <2>3. \A i \in 1 .. Len(s) : v[i] = s[i]
    BY <1>3, <2>2 DEF Begins
  <2>4. \A i \in 1 .. Len(v) : i > Len(s) => v[i] \in SetsDefault
    BY <1>3, <1>4 DEF Begins
  <2> QED
    BY <1>3, <2>1, <2>3, <2>4 DEF Begins
<1>6. ASSUME NEW y
      PROVE  Holds(v, y) <=> (Holds(u, y) \/ (on /\ y = x))
  <2>1. ASSUME Holds(v, y)
        PROVE  Holds(u, y) \/ (on /\ y = x)
    <3>1. PICK i \in 1 .. Len(v) : v[i] = y
      BY <2>1 DEF Holds
    <3>2. CASE i \in 1 .. Len(u)
      BY <3>1, <3>2, <1>3 DEF Holds
    <3>3. CASE on /\ i = Len(u) + 1
      BY <3>1, <3>3, <1>4
    <3> QED
      BY <3>1, <3>2, <3>3, <1>4
  <2>2. ASSUME Holds(u, y)
        PROVE  Holds(v, y)
    <3>1. PICK i \in 1 .. Len(u) : u[i] = y
      BY <2>2 DEF Holds
    <3>2. i \in 1 .. Len(v) /\ v[i] = y
      BY <3>1, <1>3, <1>4
    <3> QED
      BY <3>2 DEF Holds
  <2>3. ASSUME on /\ y = x
        PROVE  Holds(v, y)
    <3>1. Len(u) + 1 \in 1 .. Len(v) /\ v[Len(u) + 1] = y
      BY <2>3, <1>4
    <3> QED
      BY <3>1 DEF Holds
  <2> QED
    BY <2>1, <2>2, <2>3
<1> QED
  BY <1>5, <1>6 DEF v, o, on

\* the statements that make rows come first
LEMMA RowsBegin ==
  ASSUME NEW r, r.type \in Types
  PROVE  Rows(r) \in Seq(AllStatements) /\ Begins(Rows(r), Rows(r))
<1>1. /\ "addIdentity" \in AllStatements /\ "insertKey" \in AllStatements
      /\ "insertCert" \in AllStatements
  BY DEF AllStatements
<1>2. /\ <<"addIdentity">> \in Seq(AllStatements)
      /\ <<"addIdentity", "insertKey">> \in Seq(AllStatements)
      /\ <<"addIdentity", "insertKey", "insertCert">> \in Seq(AllStatements)
  BY <1>1, ShortSequences
<1>3. Rows(r) \in Seq(AllStatements)
  BY <1>2 DEF Rows, Types
<1> HIDE DEF Rows
<1> QED
  BY <1>3 DEF Begins

\* What an update's statements are.
LEMMA UpdateStatements ==
  ASSUME NEW r \in Requests, r.op = "update"
  PROVE  /\ Begins(Statements(r), Rows(r))
         /\ Rows(r) \in Seq(AllStatements)
         /\ \A y : Holds(Rows(r), y) => Holds(Statements(r), y)
         /\ "USER" \in Masks(r.opt) => Holds(Statements(r), "defaultIdentity")
         /\ "ID" \in Masks(r.opt) /\ r.type # "id" => Holds(Statements(r), "defaultKey")
         /\ "KEY" \in Masks(r.opt) /\ r.type = "cert" => Holds(Statements(r), "defaultCert")
<1> DEFINE s == Rows(r)
           o(mask, x) == Option(r, mask, x)
<1>1. r.type \in Types
  BY RequestTyped
<1>2. s \in Seq(AllStatements) /\ Begins(s, s)
  BY <1>1, RowsBegin
<1>3. /\ "defaultIdentity" \in SetsDefault /\ "defaultKey" \in SetsDefault
      /\ "defaultCert" \in SetsDefault
  BY DEF SetsDefault
<1>4. CASE r.type = "id"
  <2>1. Statements(r) = s \o o("USER", "defaultIdentity")
    BY <1>4 DEF Statements, UpdateIdQuery, Rows, Option
  <2> HIDE DEF s
  <2>2. /\ Begins(Statements(r), s)
        /\ \A y : Holds(Statements(r), y)
                    <=> Holds(s, y) \/ ("USER" \in Masks(r.opt) /\ y = "defaultIdentity")
    BY <1>2, <1>3, <2>1, OptionBehind
  <2> QED
    BY <1>2, <1>4, <2>2 DEF s
<1>5. CASE r.type = "key"
  <2> DEFINE u == s \o o("ID", "defaultKey")
  <2>1. Statements(r) = u \o o("USER", "defaultIdentity")
    BY <1>5 DEF Statements, UpdateKeyQuery, Rows, Option
  <2> HIDE DEF s
  <2>2. /\ Begins(u, s)
        /\ \A y : Holds(u, y) <=> Holds(s, y) \/ ("ID" \in Masks(r.opt) /\ y = "defaultKey")
    BY <1>2, <1>3, OptionBehind
  <2> HIDE DEF u
  <2>3. /\ Begins(Statements(r), s)
        /\ \A y : Holds(Statements(r), y)
                    <=> Holds(u, y) \/ ("USER" \in Masks(r.opt) /\ y = "defaultIdentity")
    BY <1>2, <1>3, <2>1, <2>2, OptionBehind
  <2> QED
    BY <1>2, <1>5, <2>2, <2>3 DEF s
<1>6. CASE r.type = "cert"
  <2> DEFINE u == s \o o("KEY", "defaultCert")
             v == u \o o("ID", "defaultKey")
  <2>1. Statements(r) = v \o o("USER", "defaultIdentity")
    BY <1>6 DEF Statements, UpdateCertQuery, Rows, Option
  <2> HIDE DEF s
  <2>2. /\ Begins(u, s)
        /\ \A y : Holds(u, y) <=> Holds(s, y) \/ ("KEY" \in Masks(r.opt) /\ y = "defaultCert")
    BY <1>2, <1>3, OptionBehind
  <2> HIDE DEF u
  <2>3. /\ Begins(v, s)
        /\ \A y : Holds(v, y) <=> Holds(u, y) \/ ("ID" \in Masks(r.opt) /\ y = "defaultKey")
    BY <1>2, <1>3, <2>2, OptionBehind
  <2> HIDE DEF v
  <2>4. /\ Begins(Statements(r), s)
        /\ \A y : Holds(Statements(r), y)
                    <=> Holds(v, y) \/ ("USER" \in Masks(r.opt) /\ y = "defaultIdentity")
    BY <1>2, <1>3, <2>1, <2>3, OptionBehind
  <2> QED
    BY <1>2, <1>6, <2>2, <2>3, <2>4 DEF s
<1> QED
  BY <1>1, <1>4, <1>5, <1>6 DEF Types

\* The rows an update needs are inserted, and its defaults asked for.
LEMMA UpdateCovers ==
  ASSUME NEW r \in Requests, r.op = "update"
  PROVE  /\ Holds(Statements(r), "addIdentity")
         /\ r.type # "id" => Holds(Statements(r), "insertKey")
         /\ r.type = "cert" => Holds(Statements(r), "insertCert")
         /\ "USER" \in Masks(r.opt) => Holds(Statements(r), "defaultIdentity")
         /\ "ID" \in Masks(r.opt) /\ r.type # "id" => Holds(Statements(r), "defaultKey")
         /\ "KEY" \in Masks(r.opt) /\ r.type = "cert" => Holds(Statements(r), "defaultCert")
<1>1. r.type \in Types
  BY RequestTyped
<1>2. /\ Holds(<<"addIdentity">>, "addIdentity")
      /\ Holds(<<"addIdentity", "insertKey">>, "addIdentity")
      /\ Holds(<<"addIdentity", "insertKey">>, "insertKey")
      /\ Holds(<<"addIdentity", "insertKey", "insertCert">>, "addIdentity")
      /\ Holds(<<"addIdentity", "insertKey", "insertCert">>, "insertKey")
      /\ Holds(<<"addIdentity", "insertKey", "insertCert">>, "insertCert")
  <2>1. \A a : Holds(<<a>>, a)
    BY DEF Holds
  <2>2. \A a, b : Holds(<<a, b>>, a) /\ Holds(<<a, b>>, b)
    <3> SUFFICES ASSUME NEW a, NEW b PROVE Holds(<<a, b>>, a) /\ Holds(<<a, b>>, b)
      OBVIOUS
    <3>1. Len(<<a, b>>) = 2 /\ <<a, b>>[1] = a /\ <<a, b>>[2] = b /\ 1 \in 1 .. 2 /\ 2 \in 1 .. 2
      OBVIOUS
    <3> QED
      BY <3>1 DEF Holds
  <2>3. \A a, b, c : Holds(<<a, b, c>>, a) /\ Holds(<<a, b, c>>, b) /\ Holds(<<a, b, c>>, c)
    <3> SUFFICES ASSUME NEW a, NEW b, NEW c
                 PROVE  Holds(<<a, b, c>>, a) /\ Holds(<<a, b, c>>, b) /\ Holds(<<a, b, c>>, c)
      OBVIOUS
    <3>1. /\ Len(<<a, b, c>>) = 3 /\ 1 \in 1 .. 3 /\ 2 \in 1 .. 3 /\ 3 \in 1 .. 3
          /\ <<a, b, c>>[1] = a /\ <<a, b, c>>[2] = b /\ <<a, b, c>>[3] = c
      OBVIOUS
    <3> QED
      BY <3>1 DEF Holds
  <2> QED
    BY <2>1, <2>2, <2>3
<1>3. /\ Holds(Rows(r), "addIdentity")
      /\ r.type # "id" => Holds(Rows(r), "insertKey")
      /\ r.type = "cert" => Holds(Rows(r), "insertCert")
  BY <1>1, <1>2 DEF Rows, Types
<1> QED
  BY <1>3, UpdateStatements

\* An update deletes nothing.
LEMMA NoDelete ==
  ASSUME NEW r \in Requests, r.op # "delete", NEW n \in 1 .. Len(Statements(r))
  PROVE  Statements(r)[n] # "delete"
<1> DEFINE u == Statements(r)
           N == Len(Rows(r))
<1>1. r.op = "update" /\ r.type \in Types
  BY RequestTyped
<1>2. Begins(u, Rows(r)) /\ Rows(r) \in Seq(AllStatements) /\ N \in Nat /\ Len(u) \in Nat
  BY <1>1, UpdateStatements DEF Begins
<1>3. \A i \in 1 .. N : Rows(r)[i] # "delete"
  BY <1>1 DEF Rows, Types
<1> HIDE DEF N, u
<1> SUFFICES u[n] # "delete"
  BY DEF u
<1>4. n \in 1 .. Len(u)
  BY DEF u
<1>5. CASE n \in 1 .. N
  BY <1>2, <1>3, <1>5 DEF Begins, N
<1>6. CASE n > N
  BY <1>2, <1>4, <1>6 DEF Begins, SetsDefault, N
<1> QED
  BY <1>2, <1>4, <1>5, <1>6

\* When the statement n of an update is the next, those before have prepared it.
LEMMA EarlierPrepare ==
  ASSUME NEW d, Sound(d), NEW r \in Requests, NEW n \in 1 .. Len(Statements(r)),
         \A m \in 1 .. n - 1 : Achieved(d, Statements(r)[m], r)
  PROVE  Prepared(d, Statements(r)[n], r)
<1> DEFINE s == Statements(r)[n]
<1>1. r.op \in {"update", "delete"} /\ r.type \in Types
  BY RequestTyped
<1>2. CASE r.op = "delete"
  <2>1. Statements(r) = <<"delete">>
    BY <1>2 DEF Statements
  <2>2. s = "delete"
    BY <2>1
  <2> HIDE DEF s
  <2> QED
    BY <2>2 DEF Prepared, s
<1>3. CASE r.op = "update"
  <2> DEFINE u == Statements(r)
             N == Len(Rows(r))
  <2>1. Begins(u, Rows(r)) /\ Rows(r) \in Seq(AllStatements) /\ N \in Nat /\ Len(u) \in Nat
    BY <1>3, UpdateStatements DEF Begins
  <2>2. /\ N = IF r.type = "id" THEN 1 ELSE IF r.type = "key" THEN 2 ELSE 3
        /\ Rows(r)[1] = "addIdentity"
        /\ r.type # "id" => Rows(r)[2] = "insertKey"
        /\ r.type = "cert" => Rows(r)[3] = "insertCert"
    BY <1>1 DEF Rows, Types
  <2>3. N <= Len(u) /\ \A i \in 1 .. N : u[i] = Rows(r)[i]
    BY <2>1 DEF Begins
  <2>4. n > N => s \in SetsDefault
    BY <2>1 DEF Begins
  <2>5. /\ s \in {"defaultKey", "insertKey"} => r.type # "id"
        /\ s \in {"insertCert", "defaultCert"} => r.type = "cert"
    <3>1. s \in StatementsFor[r.type]
      BY StatementsTyped
    <3> HIDE DEF s
    <3> QED
      BY <1>1, <3>1 DEF StatementsFor, Types
  <2> HIDE DEF N, u, s, Rows
  <2> SUFFICES Prepared(d, s, r)
    BY DEF s
  <2>6. /\ n \in Nat /\ n >= 1
        /\ \A m \in 1 .. n - 1 : Achieved(d, u[m], r)
    BY DEF u
  <2>7. CASE n <= N
    <3>1. u[n] = Rows(r)[n] /\ s = u[n]
      BY <2>1, <2>3, <2>6, <2>7 DEF s, u
    <3>2. n = 1 \/ (n = 2 /\ r.type # "id") \/ (n = 3 /\ r.type = "cert")
      BY <1>1, <2>2, <2>6, <2>7 DEF Types
    <3>3. CASE n = 1
      BY <2>2, <3>1, <3>3 DEF Prepared
    <3>4. CASE n = 2 /\ r.type # "id"
      <4>1. u[1] = "addIdentity" /\ s = "insertKey"
        BY <2>2, <2>3, <3>1, <3>4
      <4>2. Achieved(d, u[1], r)
        BY <2>6, <3>4
      <4> QED
        BY <4>1, <4>2 DEF Prepared, Achieved
    <3>5. CASE n = 3 /\ r.type = "cert"
      <4>1. u[2] = "insertKey" /\ s = "insertCert"
        BY <2>2, <2>3, <3>1, <3>5
      <4>2. Achieved(d, u[2], r)
        BY <2>6, <3>5
      <4> QED
        BY <4>1, <4>2 DEF Prepared, Achieved
    <3> QED
      BY <3>2, <3>3, <3>4, <3>5
  <2>8. CASE n > N
    <3>1. \A i \in 1 .. N : i \in 1 .. n - 1
      BY <2>1, <2>6, <2>8
    <3>2. \A i \in 1 .. N : Achieved(d, Rows(r)[i], r)
      BY <2>3, <2>6, <3>1
    <3>3. OwnerOf(r) \in d.ids
      <4>1. 1 \in 1 .. N
        BY <2>1, <2>2
      <4> QED
        BY <2>2, <3>2, <4>1 DEF Achieved
    <3>4. r.type # "id" => KeyNameOf(r) \in StoredKeys(d)
      <4>1. r.type # "id" => 2 \in 1 .. N
        BY <2>1, <2>2
      <4> QED
        BY <2>2, <3>2, <4>1 DEF Achieved
    <3>5. r.type = "cert" => r.target \in d.certs
      <4>1. r.type = "cert" => 3 \in 1 .. N
        BY <2>1, <2>2
      <4> QED
        BY <2>2, <3>2, <4>1 DEF Achieved
    <3>6. s \in SetsDefault
      BY <2>4, <2>8
    <3> QED
      BY <2>5, <3>3, <3>4, <3>5, <3>6 DEF Prepared, SetsDefault
  <2> QED
    BY <2>1, <2>6, <2>7, <2>8
<1> QED
  BY <1>1, <1>2, <1>3

-----------------------------------------------------------------------------
(* A command on its way: what its statements up to now are there for, holds. *)
Achieving ==
  request # NoRequest => \A m \in 1 .. step - 1 : Achieved(db, Statements(request)[m], request)

\* The next statement adds what it is there for itself.
LEMMA RunAchieves ==
  IInv /\ Achieving /\ RunStatement
    => \A m \in 1 .. step : Achieved(db', Statements(request)[m], request)
<1> SUFFICES ASSUME IInv, Achieving, RunStatement, NEW m \in 1 .. step
             PROVE  Achieved(db', Statements(request)[m], request)
  OBVIOUS
<1>1. Sound(db) /\ request \in Requests /\ step \in 1 .. Len(Statements(request))
  BY DEF IInv, InProgress, RunStatement
<1>2. db' = Execute(db, Statements(request)[step], request)
  BY DEF RunStatement
<1>3. \A l \in 1 .. step - 1 : Achieved(db, Statements(request)[l], request)
  BY DEF Achieving, RunStatement
<1>4. Len(Statements(request)) \in Nat
  BY <1>1, StatementsTyped
<1>5. CASE m = step
  <2>1. Prepared(db, Statements(request)[step], request)
    BY <1>1, <1>3, EarlierPrepare
  <2> QED
    BY <1>1, <1>2, <1>5, <2>1, ExecuteAchieves
<1>6. CASE m < step
  <2>1. m \in 1 .. step - 1 /\ step \in 1 .. Len(Statements(request)) /\ 1 < Len(Statements(request))
    BY <1>1, <1>4, <1>6
  <2>2. request.op # "delete"
    BY <2>1 DEF Statements
  <2>3. m \in 1 .. Len(Statements(request)) /\ Achieved(db, Statements(request)[m], request)
    BY <1>1, <1>3, <1>4, <2>1
  <2>4. Statements(request)[m] # "delete" /\ Statements(request)[step] # "delete"
    BY <1>1, <2>2, <2>3, NoDelete
  <2> QED
    BY <1>1, <1>2, <2>3, <2>4, ExecuteKeepsAchieved
<1> QED
  BY <1>1, <1>4, <1>5, <1>6

\* Between two statements of a command, what those before are there for still
\* holds: nothing that the service does in the meantime takes it back.
THEOREM Progress == Spec => []Achieving
<1>1. Init => Achieving
  BY DEF Init, Achieving
<1>2. IInv /\ Achieving /\ [Next]_vars => Achieving'
  <2> SUFFICES ASSUME IInv, Achieving, [Next]_vars PROVE Achieving'
    OBVIOUS
  <2>1. CASE RunStatement
    <3>1. \A m \in 1 .. step : Achieved(db', Statements(request)[m], request)
      BY <2>1, RunAchieves
    <3>2. CASE request' = NoRequest
      BY <3>2 DEF Achieving
    <3>3. CASE request' = request /\ step' = step + 1
      <4>1. step \in Nat
        BY <2>1 DEF IInv, InProgress, RunStatement
      <4>2. step' - 1 = step
        BY <3>3, <4>1
      <4> QED
        BY <3>1, <3>3, <4>2 DEF Achieving
    <3> QED
      BY <2>1, <3>2, <3>3 DEF RunStatement
  <2>2. CASE \E r \in Requests : request' = r /\ step' = 1
    <3>1. 1 .. step' - 1 = {}
      BY <2>2
    <3> QED
      BY <3>1 DEF Achieving
  <2>3. CASE request' = NoRequest
    BY <2>3 DEF Achieving
  <2>4. CASE UNCHANGED <<db, request, step>>
    BY <2>4 DEF Achieving
  <2>5. \/ RunStatement \/ (\E r \in Requests : request' = r /\ step' = 1)
        \/ request' = NoRequest \/ UNCHANGED <<db, request, step>>
    BY DEF Next, Command, Accept, Reject, ProcessUpdateUser, Crash, Restart, vars
  <2> QED
    BY <2>1, <2>2, <2>3, <2>4, <2>5
<1> QED
  BY <1>1, <1>2, Inductive, PTL DEF Spec
=============================================================================
