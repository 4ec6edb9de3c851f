-------------------------- MODULE PibQueries_proof --------------------------
(***************************************************************************)
(* Proofs about PibQueries: parameters and replies survive their encoding, *)
(* get and the lists agree, and so do the defaults, whatever the names,    *)
(* the commands and the moments at which the process ends.                 *)
(***************************************************************************)
EXTENDS PibQueries, Pib_proof, SequenceTheorems

-----------------------------------------------------------------------------
(* Encoders concatenate what is always there and what may be there. *)

\* one element and another
LEMMA OneAndOne ==
  ASSUME NEW a, NEW b
  PROVE  <<a>> \o <<b>> = <<a, b>>
<1> DEFINE S == {a, b}
           s == <<a>> \o <<b>>
<1>1. <<a>> \in Seq(S) /\ <<b>> \in Seq(S) /\ <<a, b>> \in Seq(S)
  OBVIOUS
<1>2. Len(<<a>>) = 1 /\ Len(<<b>>) = 1 /\ Len(<<a, b>>) = 2
  OBVIOUS
<1>3. /\ s \in Seq(S) /\ Len(s) = 2
      /\ \A i \in 1 .. 2 : s[i] = IF i <= 1 THEN <<a>>[i] ELSE <<b>>[i - 1]
  BY <1>1, <1>2, ConcatProperties
<1>4. \A i \in 1 .. 2 : s[i] = <<a, b>>[i]
  BY <1>3
<1> QED
  BY <1>1, <1>2, <1>3, <1>4, SeqEqual

\* two elements and a third
LEMMA TwoAndOne ==
  ASSUME NEW a, NEW b, NEW c
  PROVE  <<a, b>> \o <<c>> = <<a, b, c>>
<1> DEFINE S == {a, b, c}
           s == <<a, b>> \o <<c>>
<1>1. <<a, b>> \in Seq(S) /\ <<c>> \in Seq(S) /\ <<a, b, c>> \in Seq(S)
  OBVIOUS
<1>2. Len(<<a, b>>) = 2 /\ Len(<<c>>) = 1 /\ Len(<<a, b, c>>) = 3
  OBVIOUS
<1>3. /\ s \in Seq(S) /\ Len(s) = 3
      /\ \A i \in 1 .. 3 : s[i] = IF i <= 2 THEN <<a, b>>[i] ELSE <<c>>[i - 2]
  BY <1>1, <1>2, ConcatProperties
<1>4. \A i \in 1 .. 3 : s[i] = <<a, b, c>>[i]
  BY <1>3
<1> QED
  BY <1>1, <1>2, <1>3, <1>4, SeqEqual

\* an element that is left out adds nothing
LEMMA AndNone ==
  ASSUME NEW a, NEW b
  PROVE  <<a>> \o << >> = <<a>> /\ <<a, b>> \o << >> = <<a, b>>
<1>1. <<a>> \in Seq({a, b}) /\ <<a, b>> \in Seq({a, b})
  OBVIOUS
<1> QED
  BY <1>1, ConcatEmptySeq

-----------------------------------------------------------------------------
(* What is decoded is what was encoded *)

OriginTypes == {"USER", "ID", "KEY", "CERT"}
NameOf(type, name) == IF type = "USER" THEN EmptyName ELSE name

\* The parameters of get.
LEMMA GetParamRead ==
  ASSUME NEW type \in OriginTypes, NEW name
  PROVE  GetParamDecode(GetParamEncode([targetType |-> type, targetName |-> name]))
           = [targetType |-> type, targetName |-> NameOf(type, name)]
<1>1. CASE type = "USER"
  BY <1>1, AndNone DEF GetParamDecode, GetParamEncode, NameIfNamed, NamedTypes, Has, Block, NameOf
<1>2. CASE type \in NamedTypes
  BY <1>2, OneAndOne DEF GetParamDecode, GetParamEncode, NameIfNamed, NamedTypes, Has, Block, NameOf
<1> QED  BY <1>1, <1>2 DEF OriginTypes, NamedTypes

\* The parameters of list.
LEMMA ListParamRead ==
  ASSUME NEW type \in OriginTypes, NEW name
  PROVE  ListParamDecode(ListParamEncode([originType |-> type, originName |-> name]))
           = [originType |-> type, originName |-> NameOf(type, name)]
<1>1. CASE type = "USER"
  BY <1>1, AndNone DEF ListParamDecode, ListParamEncode, NameIfNamed, NamedTypes, Has, Block, NameOf
<1>2. CASE type \in NamedTypes
  BY <1>2, OneAndOne DEF ListParamDecode, ListParamEncode, NameIfNamed, NamedTypes, Has, Block, NameOf
<1> QED  BY <1>1, <1>2 DEF OriginTypes, NamedTypes

\* The parameters of default, whose two types are elements of the same kind.
LEMMA DefaultParamRead ==
  ASSUME NEW target, NEW type \in OriginTypes, NEW name
  PROVE  DefaultParamDecode(DefaultParamEncode(
             [targetType |-> target, originType |-> type, originName |-> name]))
           = [targetType |-> target, originType |-> type, originName |-> NameOf(type, name)]
<1>1. CASE type = "USER"
  BY <1>1, AndNone DEF DefaultParamDecode, DefaultParamEncode, NameIfNamed, NamedTypes, Has, Block, NameOf
<1>2. CASE type \in NamedTypes
  BY <1>2, TwoAndOne DEF DefaultParamDecode, DefaultParamEncode, NameIfNamed, NamedTypes, Has, Block, NameOf
<1> QED  BY <1>1, <1>2 DEF OriginTypes, NamedTypes

\* The replies: entities and errors.
LEMMA RepliesRead ==
  ASSUME NEW name, NEW x
  PROVE  /\ Reply(PibIdentityEncode(name)) = [identity |-> name]
         /\ Reply(PibPublicKeyEncode(name, x)) = [keyName |-> name, key |-> x]
         /\ Reply(PibCertificateEncode(x)) = [certificate |-> x]
         /\ Reply(PibErrorEncode(x)) = ErrorReply(x)
  BY DEF Reply, EntityDecode, Has, Block, ErrorReply,
         PibIdentityEncode, PibIdentityDecode, PibPublicKeyEncode, PibPublicKeyDecode,
         PibCertificateEncode, PibCertificateDecode, PibErrorEncode, PibErrorDecode

\* The replies: lists of names.
LEMMA NameListRead ==
  ASSUME NEW names
  PROVE  Reply(PibNameListEncode(names)).names = names
<1> DEFINE wire == PibNameListEncode(names)
<1>1. wire.type = "NameList" /\ wire.value = {Block("Name", n) : n \in names}
  BY DEF PibNameListEncode, Block
<1>2. \A n : Block("Name", n).type = "Name" /\ Block("Name", n).value = n
  BY DEF Block
<1>3. {b.value : b \in {e \in wire.value : e.type = "Name"}} = names
  BY <1>1, <1>2
<1> QED  BY <1>1, <1>3 DEF Reply, PibNameListDecode

\* The reply about the owner.
LEMMA UserRead ==
  ASSUME NEW certificate
  PROVE  Reply(PibUserEncode(certificate, TpmLocator))
           = [mgmtCert |-> certificate, tpmLocator |-> TpmLocator]
<1>1. CASE TpmLocator = ""
  <2>1. PibUserEncode(certificate, TpmLocator) = Block("User", <<Block("Data", certificate)>>)
    BY <1>1, AndNone DEF PibUserEncode
  <2>2. Len(<<Block("Data", certificate)>>) = 1
    OBVIOUS
  <2>3. ~Has(PibUserEncode(certificate, TpmLocator), 2, "TpmLocator")
    BY <2>1, <2>2 DEF Has, Block
  <2>4. /\ PibUserEncode(certificate, TpmLocator).type = "User"
        /\ Has(PibUserEncode(certificate, TpmLocator), 1, "Data")
        /\ PibUserEncode(certificate, TpmLocator).value[1].value = certificate
    BY <2>1, <2>2 DEF Has, Block
  <2> QED  BY <1>1, <2>3, <2>4 DEF Reply, EntityDecode, PibUserDecode
<1>2. CASE TpmLocator # ""
  <2>1. PibUserEncode(certificate, TpmLocator)
          = Block("User", <<Block("Data", certificate), Block("TpmLocator", TpmLocator)>>)
    BY <1>2, OneAndOne DEF PibUserEncode
  <2> QED  BY <2>1 DEF Reply, EntityDecode, Has, Block, PibUserDecode
<1> QED  BY <1>1, <1>2

-----------------------------------------------------------------------------
(* The answers, as the client has them *)

\* what the client reads from the answer to "get"
LEMMA GetAnswers ==
  ASSUME NEW d, NEW n
  PROVE  /\ Get(d, "ID", n) = IF n \in d.ids THEN [identity |-> n] ELSE ErrorReply("NON_EXISTING_ID")
         /\ n # EmptyName =>
              Get(d, "KEY", n) = IF GetKey(d, n) = NoKey THEN ErrorReply("NON_EXISTING_KEY")
                                 ELSE [keyName |-> n, key |-> GetKey(d, n)]
         /\ Get(d, "CERT", n) = IF n \in d.certs THEN [certificate |-> n]
                                ELSE ErrorReply("NON_EXISTING_CERT")
         /\ Get(d, "USER", n) = [mgmtCert |-> mgmt, tpmLocator |-> TpmLocator]
<1>1. \A type, name : [targetType |-> type, targetName |-> name] # DecodeError
  BY DEF DecodeError
<1>2. \A type \in OriginTypes :
        GetParamDecode(GetParamEncode([targetType |-> type, targetName |-> n]))
          = [targetType |-> type, targetName |-> NameOf(type, n)]
  BY GetParamRead
<1>3. /\ Get(d, "ID", n) = Reply(ProcessGetIdQuery(d, n))
      /\ Get(d, "KEY", n) = Reply(ProcessGetKeyQuery(d, n))
      /\ Get(d, "CERT", n) = Reply(ProcessGetCertQuery(d, n))
      /\ Get(d, "USER", n) = Reply(ProcessGetUserQuery)
  <2>1. Get(d, "ID", n) = Reply(ProcessGetIdQuery(d, n))
    BY <1>1, <1>2 DEF Get, GetQuery, OriginTypes, NameOf
  <2>2. Get(d, "KEY", n) = Reply(ProcessGetKeyQuery(d, n))
    BY <1>1, <1>2 DEF Get, GetQuery, OriginTypes, NameOf
  <2>3. Get(d, "CERT", n) = Reply(ProcessGetCertQuery(d, n))
    BY <1>1, <1>2 DEF Get, GetQuery, OriginTypes, NameOf
  <2>4. Get(d, "USER", n) = Reply(ProcessGetUserQuery)
    BY <1>1, <1>2 DEF Get, GetQuery, OriginTypes, NameOf
  <2> QED
    BY <2>1, <2>2, <2>3, <2>4
<1>4. Get(d, "ID", n) = IF n \in d.ids THEN [identity |-> n] ELSE ErrorReply("NON_EXISTING_ID")
  <2>1. Reply(PibIdentityEncode(n)) = [identity |-> n]
    BY RepliesRead
  <2>2. Reply(PibErrorEncode("NON_EXISTING_ID")) = ErrorReply("NON_EXISTING_ID")
    BY RepliesRead
  <2> QED  BY <1>3, <2>1, <2>2 DEF ProcessGetIdQuery, HasIdentity
<1>5. n # EmptyName =>
        Get(d, "KEY", n) = IF GetKey(d, n) = NoKey THEN ErrorReply("NON_EXISTING_KEY")
                           ELSE [keyName |-> n, key |-> GetKey(d, n)]
  BY <1>3, RepliesRead DEF ProcessGetKeyQuery
<1>6. Get(d, "CERT", n) = IF n \in d.certs THEN [certificate |-> n]
                          ELSE ErrorReply("NON_EXISTING_CERT")
  BY <1>3, RepliesRead DEF ProcessGetCertQuery
<1>7. Get(d, "USER", n) = [mgmtCert |-> mgmt, tpmLocator |-> TpmLocator]
  BY <1>3, UserRead DEF ProcessGetUserQuery
<1> QED
  BY <1>4, <1>5, <1>6, <1>7

\* what the client reads from the answer to "list"
LEMMA ListAnswers ==
  ASSUME NEW d, NEW n
  PROVE  /\ Listed(d, "USER", n) = d.ids
         /\ Listed(d, "ID", n) = ListKeyNamesOfIdentity(d, n)
         /\ n # EmptyName => Listed(d, "KEY", n) = ListCertNamesOfKey(d, n)
<1>1. \A type, name : [originType |-> type, originName |-> name] # DecodeError
  BY DEF DecodeError
<1>2. /\ ListOf(d, "USER", n) = Reply(PibNameListEncode(d.ids))
      /\ ListOf(d, "ID", n) = Reply(PibNameListEncode(ListKeyNamesOfIdentity(d, n)))
      /\ n # EmptyName => ListOf(d, "KEY", n) = Reply(PibNameListEncode(ListCertNamesOfKey(d, n)))
  BY <1>1, ListParamRead DEF ListOf, ListQuery, OriginTypes, NameOf
<1> QED
  BY <1>2, NameListRead DEF Listed

\* what the client reads from the answers to "default"
LEMMA DefaultAnswers ==
  ASSUME NEW d, NEW n
  PROVE  LET i == GetDefaultIdentity(d)
             KeyAnswer(k) == IF GetKey(d, k) = NoKey THEN ErrorReply("NO_DEFAULT_KEY")
                             ELSE [keyName |-> k, key |-> GetKey(d, k)]
             CertAnswer(k) == IF GetDefaultCertNameOfKey(d, k) \in d.certs
                              THEN [certificate |-> GetDefaultCertNameOfKey(d, k)]
                              ELSE ErrorReply("NO_DEFAULT_CERT")
             K(o) == GetDefaultKeyNameOfIdentity(d, o)
         IN /\ DefaultOf(d, "ID", "USER", n) = [identity |-> i]
            /\ DefaultOf(d, "KEY", "USER", n) = KeyAnswer(K(i))
            /\ DefaultOf(d, "KEY", "ID", n) = KeyAnswer(K(n))
            /\ K(i) # EmptyName => DefaultOf(d, "CERT", "USER", n) = CertAnswer(K(i))
            /\ K(n) # EmptyName => DefaultOf(d, "CERT", "ID", n) = CertAnswer(K(n))
            /\ n # EmptyName => DefaultOf(d, "CERT", "KEY", n) = CertAnswer(n)
<1> DEFINE p(target, origin) == [targetType |-> target, originType |-> origin,
                                 originName |-> NameOf(origin, n)]
<1>1. \A target, origin : p(target, origin) # DecodeError
  BY DEF DecodeError
<1>2. ASSUME NEW target, NEW origin \in OriginTypes
      PROVE  DefaultOf(d, target, origin, n) = Reply(
               CASE target = "ID"   -> ProcessDefaultIdQuery(d, p(target, origin))
                 [] target = "KEY"  -> ProcessDefaultKeyQuery(d, p(target, origin))
                 [] target = "CERT" -> ProcessDefaultCertQuery(d, p(target, origin))
                 [] OTHER -> PibErrorEncode("WRONG_PARAM"))
  BY <1>1, DefaultParamRead DEF DefaultOf, DefaultQuery
<1>3. \A origin \in OriginTypes :
        /\ DefaultOf(d, "ID", origin, n) = Reply(ProcessDefaultIdQuery(d, p("ID", origin)))
        /\ DefaultOf(d, "KEY", origin, n) = Reply(ProcessDefaultKeyQuery(d, p("KEY", origin)))
        /\ DefaultOf(d, "CERT", origin, n) = Reply(ProcessDefaultCertQuery(d, p("CERT", origin)))
  BY <1>2
<1>4. DefaultOf(d, "ID", "USER", n) = [identity |-> GetDefaultIdentity(d)]
  BY <1>3, RepliesRead DEF OriginTypes, ProcessDefaultIdQuery
<1>5. /\ OriginIdentity(d, p("KEY", "USER")) = GetDefaultIdentity(d)
      /\ OriginIdentity(d, p("CERT", "USER")) = GetDefaultIdentity(d)
      /\ OriginIdentity(d, p("KEY", "ID")) = n /\ OriginIdentity(d, p("CERT", "ID")) = n
  BY DEF OriginIdentity, NameOf
<1>6. \A origin \in {"USER", "ID"} :
        LET k == GetDefaultKeyNameOfIdentity(d, OriginIdentity(d, p("KEY", origin)))
        IN  DefaultOf(d, "KEY", origin, n) =
              IF GetKey(d, k) = NoKey THEN ErrorReply("NO_DEFAULT_KEY")
              ELSE [keyName |-> k, key |-> GetKey(d, k)]
  BY <1>3, RepliesRead DEF OriginTypes, ProcessDefaultKeyQuery
<1>7. \A origin \in {"USER", "ID", "KEY"} :
        LET k == IF origin = "KEY" THEN NameOf(origin, n)
                 ELSE GetDefaultKeyNameOfIdentity(d, OriginIdentity(d, p("CERT", origin)))
            c == GetDefaultCertNameOfKey(d, k)
        IN  k # EmptyName =>
              DefaultOf(d, "CERT", origin, n) =
                IF c \in d.certs THEN [certificate |-> c] ELSE ErrorReply("NO_DEFAULT_CERT")
  BY <1>3, RepliesRead DEF OriginTypes, ProcessDefaultCertQuery
<1>8. NameOf("KEY", n) = n
  BY DEF NameOf
<1> QED
  BY <1>4, <1>5, <1>6, <1>7, <1>8

-----------------------------------------------------------------------------
\* get and the lists agree: every row is listed under its parent and found, and
\* nothing else is, whatever commands were given and cut short.
THEOREM ListsAreFound == Spec => []ListedIsFound
<1>1. ASSUME IInv PROVE ListedIsFound
  <2> SUFFICES ASSUME Idle PROVE ListedIsFound
    BY DEF ListedIsFound
  <2>1. /\ db \in Databases /\ NoOrphans(db) /\ validatorCert = mgmt
    BY <1>1 DEF IInv, Sound, MgmtCertsAgree, Idle
  <2>2. /\ \A k \in KeyNames : k # EmptyName /\ IdentityOf[k] \in Identities
        /\ \A c \in CertNames : KeyOf[c] \in KeyNames /\ KeyOf[c] # EmptyName
        /\ NoKey \notin KeyBits
    BY NamesAssumption, NullsAssumption, QueriesAssumption
  <2>3. \A k \in KeyNames : GetKey(db, k) = db.keys[k]
    BY <2>1 DEF GetKey, StoredKeys, Databases
  <2>4. \A i \in Identities : i \in Listed(db, "USER", EmptyName) <=> Get(db, "ID", i) = [identity |-> i]
    <3>1. \A i : [identity |-> i] # ErrorReply("NON_EXISTING_ID")
      BY DEF ErrorReply
    <3> QED  BY <3>1, GetAnswers, ListAnswers
  <2>5. \A k \in KeyNames :
          k \in Listed(db, "ID", IdentityOf[k]) <=> Get(db, "KEY", k) # ErrorReply("NON_EXISTING_KEY")
    <3>1. \A k, b : [keyName |-> k, key |-> b] # ErrorReply("NON_EXISTING_KEY")
      BY DEF ErrorReply
    <3>2. \A k \in KeyNames : k \in ListKeyNamesOfIdentity(db, IdentityOf[k]) <=> db.keys[k] # NoKey
      BY <2>1 DEF ListKeyNamesOfIdentity, StoredKeys, NoOrphans
    <3> QED  BY <3>1, <3>2, <2>2, <2>3, GetAnswers, ListAnswers
  <2>6. \A c \in CertNames :
          c \in Listed(db, "KEY", KeyOf[c]) <=> Get(db, "CERT", c) # ErrorReply("NON_EXISTING_CERT")
    <3>1. \A c : [certificate |-> c] # ErrorReply("NON_EXISTING_CERT")
      BY DEF ErrorReply
    <3>2. \A c \in CertNames : c \in ListCertNamesOfKey(db, KeyOf[c]) <=> c \in db.certs
      BY <2>1 DEF ListCertNamesOfKey, NoOrphans
    <3> QED  BY <3>1, <3>2, <2>2, GetAnswers, ListAnswers
  <2>7. \A i \in Identities : \A k \in Listed(db, "ID", i) :
          IdentityOf[k] = i /\ Get(db, "KEY", k) = [keyName |-> k, key |-> db.keys[k]]
    <3>1. \A i : \A k \in ListKeyNamesOfIdentity(db, i) :
            k \in KeyNames /\ IdentityOf[k] = i /\ db.keys[k] # NoKey
      BY DEF ListKeyNamesOfIdentity, StoredKeys
    <3> QED  BY <3>1, <2>2, <2>3, GetAnswers, ListAnswers
  <2>8. \A k \in KeyNames : \A c \in Listed(db, "KEY", k) :
          KeyOf[c] = k /\ Get(db, "CERT", c) = [certificate |-> c]
    <3>1. \A k : \A c \in ListCertNamesOfKey(db, k) : c \in db.certs /\ KeyOf[c] = k
      BY DEF ListCertNamesOfKey
    <3> QED  BY <3>1, <2>2, GetAnswers, ListAnswers
  <2>9. Get(db, "USER", EmptyName) = [mgmtCert |-> validatorCert, tpmLocator |-> TpmLocator]
    BY <2>1, GetAnswers
  <2> QED
    BY <2>4, <2>5, <2>6, <2>7, <2>8, <2>9 DEF ListedIsFound
<1> QED
  BY <1>1, Inductive, PTL

\* The chain of defaults answers the same from the user down as step by step,
\* stays within the lists, and ends in an error and not in a row of another
\* parent, although the lookups go on with a reserved name: as long as no key is
\* stored under that name.
THEOREM DefaultsFollow == Spec => []DefaultsResolve
<1>1. ASSUME IInv PROVE DefaultsResolve
  <2> SUFFICES ASSUME Idle, NoneIsNoKey(db) PROVE DefaultsResolve
    BY DEF DefaultsResolve
  <2> DEFINE i == GetDefaultIdentity(db)
             k == GetDefaultKeyNameOfIdentity(db, i)
             c == GetDefaultCertNameOfKey(db, k)
             key == DefaultOf(db, "KEY", "USER", EmptyName)
             cert == DefaultOf(db, "CERT", "USER", EmptyName)
  <2>1. db \in Databases /\ NoOrphans(db)
    BY <1>1 DEF IInv, Sound
  <2>2. i \in db.ids \cup {NON_EXISTING_IDENTITY}
    BY <2>1 DEF GetDefaultIdentity, NoOrphans
  <2>3. \/ k = NON_EXISTING_KEY /\ GetKey(db, k) = NoKey /\ c = NON_EXISTING_CERTIFICATE
        \/ k \in StoredKeys(db) /\ IdentityOf[k] = i /\ i \in db.ids
    <3>1. NON_EXISTING_KEY \notin StoredKeys(db)
      BY DEF NoneIsNoKey
    <3>2. CASE db.defaultKeys \cap KeysOfIds({i}) = {}
      BY <3>1, <3>2 DEF GetDefaultKeyNameOfIdentity, GetKey, GetDefaultCertNameOfKey
    <3>3. CASE db.defaultKeys \cap KeysOfIds({i}) # {}
      <4>1. \E l \in db.defaultKeys : IdentityOf[l] = i
        BY <3>3 DEF KeysOfIds
      <4>2. k \in db.defaultKeys /\ IdentityOf[k] = i
        BY <3>3, <4>1 DEF GetDefaultKeyNameOfIdentity
      <4> QED
        BY <2>1, <4>2 DEF NoOrphans
    <3> QED
      BY <3>2, <3>3
  <2>4. c = NON_EXISTING_CERTIFICATE \/ (c \in db.certs /\ KeyOf[c] = k /\ k \in StoredKeys(db))
    <3> DEFINE found == {b \in db.defaultCerts : KeyOf[b] = k /\ k \in StoredKeys(db)}
    <3>1. CASE found = {}
      BY <3>1 DEF GetDefaultCertNameOfKey
    <3>2. CASE found # {}
      <4>1. c \in found
        BY <3>2 DEF GetDefaultCertNameOfKey
      <4> QED
        BY <2>1, <4>1 DEF NoOrphans
    <3> QED
      BY <3>1, <3>2
  <2>5. /\ k # EmptyName /\ i # EmptyName
        /\ NON_EXISTING_CERTIFICATE \notin db.certs /\ NON_EXISTING_KEY \notin StoredKeys(db)
    BY <2>1, <2>2, <2>3, NullsAssumption, QueriesAssumption DEF StoredKeys, Databases, NoneIsNoKey
  <2>6. DefaultOf(db, "ID", "USER", EmptyName) = [identity |-> i]
    BY DefaultAnswers
  <2>7. /\ key = IF GetKey(db, k) = NoKey THEN ErrorReply("NO_DEFAULT_KEY")
                 ELSE [keyName |-> k, key |-> GetKey(db, k)]
        /\ key = DefaultOf(db, "KEY", "ID", i)
    BY DefaultAnswers
  <2>8. /\ cert = IF c \in db.certs THEN [certificate |-> c] ELSE ErrorReply("NO_DEFAULT_CERT")
        /\ cert = DefaultOf(db, "CERT", "ID", i)
        /\ cert = DefaultOf(db, "CERT", "KEY", k)
    BY <2>5, DefaultAnswers
  <2>9. CASE k = NON_EXISTING_KEY
    <3>1. key = ErrorReply("NO_DEFAULT_KEY")
      BY <2>3, <2>5, <2>7, <2>9 DEF StoredKeys
    <3>2. cert = ErrorReply("NO_DEFAULT_CERT")
      BY <2>3, <2>5, <2>8, <2>9 DEF StoredKeys
    <3> QED
      BY <2>2, <2>6, <2>7, <2>8, <3>1, <3>2, ListAnswers DEF DefaultsResolve
  <2>10. CASE k # NON_EXISTING_KEY
    <3>1. k \in StoredKeys(db) /\ IdentityOf[k] = i /\ i \in db.ids
      BY <2>3, <2>10
    <3>2. k \in Listed(db, "ID", i)
      BY <3>1, ListAnswers DEF ListKeyNamesOfIdentity
    <3>3. GetKey(db, k) # NoKey
      BY <3>1 DEF GetKey, StoredKeys
    <3>4. key = Get(db, "KEY", k)
      BY <2>5, <2>7, <3>3, GetAnswers
    <3>5. \/ cert = ErrorReply("NO_DEFAULT_CERT")
          \/ \E b \in Listed(db, "KEY", k) : cert = Get(db, "CERT", b)
      <4>1. CASE c \notin db.certs
        BY <2>8, <4>1
      <4>2. CASE c \in db.certs
        <5>1. c \in Listed(db, "KEY", k)
          BY <2>4, <2>5, <4>2, ListAnswers DEF ListCertNamesOfKey
        <5>2. cert = Get(db, "CERT", c)
          BY <2>8, <4>2, GetAnswers
        <5> QED
          BY <5>1, <5>2
      <4> QED
        BY <4>1, <4>2
    <3>6. i \in Listed(db, "USER", EmptyName)
      BY <3>1, ListAnswers
    <3> QED
      BY <2>6, <2>7, <2>8, <3>2, <3>4, <3>5, <3>6 DEF DefaultsResolve
  <2> QED
    BY <2>9, <2>10
<1> QED
  BY <1>1, Inductive, PTL

-----------------------------------------------------------------------------
(* What a client reads once its command has been answered *)

\* With one default under each parent, the getters find the row that is one.
LEMMA DefaultsFound ==
  ASSUME NEW d, Sound(d)
  PROVE  /\ \A i \in d.defaultIds : GetDefaultIdentity(d) = i
         /\ \A k \in d.defaultKeys : GetDefaultKeyNameOfIdentity(d, IdentityOf[k]) = k
         /\ \A c \in d.defaultCerts : GetDefaultCertNameOfKey(d, KeyOf[c]) = c
<1>1. d \in Databases /\ NoOrphans(d) /\ OneDefault(d)
  BY DEF Sound
<1>2. ASSUME NEW i \in d.defaultIds PROVE GetDefaultIdentity(d) = i
  BY <1>1 DEF GetDefaultIdentity, OneDefault
<1>3. ASSUME NEW k \in d.defaultKeys
      PROVE  GetDefaultKeyNameOfIdentity(d, IdentityOf[k]) = k
  <2>1. k \in KeysOfIds({IdentityOf[k]})
    BY <1>1 DEF Databases, KeysOfIds
  <2>2. \A l \in d.defaultKeys : IdentityOf[l] = IdentityOf[k] => l = k
    BY <1>1 DEF OneDefault
  <2>3. (CHOOSE l \in d.defaultKeys : IdentityOf[l] = IdentityOf[k]) = k
    BY <2>2
  <2>4. d.defaultKeys \cap KeysOfIds({IdentityOf[k]}) # {}
    BY <2>1
  <2> QED
    BY <2>3, <2>4 DEF GetDefaultKeyNameOfIdentity
<1>4. ASSUME NEW c \in d.defaultCerts
      PROVE  GetDefaultCertNameOfKey(d, KeyOf[c]) = c
  <2> DEFINE found == {b \in d.defaultCerts : KeyOf[b] = KeyOf[c] /\ KeyOf[c] \in StoredKeys(d)}
  <2>1. c \in found
    BY <1>1 DEF NoOrphans
  <2>2. \A b \in found : b = c
    BY <1>1 DEF OneDefault
  <2>3. GetDefaultCertNameOfKey(d, KeyOf[c]) = CHOOSE b \in found : TRUE
    BY <2>1 DEF GetDefaultCertNameOfKey
  <2> QED
    BY <2>1, <2>2, <2>3
<1> QED
  BY <1>2, <1>3, <1>4

\* A database that has what a deletion is there for shows it: neither the row
\* nor anything below it is found.
LEMMA DeletionObserved ==
  ASSUME NEW d, Sound(d), NEW r \in Requests, r.op = "delete", Achieved(d, "delete", r)
  PROVE  Observed(d, r)
<1> DEFINE n == r.target
<1>1. d \in Databases /\ NoOrphans(d)
  BY DEF Sound
<1>2. /\ r.type \in Types
      /\ r.type = "id" => n \in Identities /\ n \notin d.ids
      /\ r.type = "key" => n \in KeyNames /\ n \notin StoredKeys(d)
      /\ r.type = "cert" => n \in CertNames /\ n \notin d.certs
  BY RequestTyped DEF Achieved
<1>3. /\ n # EmptyName /\ NON_EXISTING_KEY # EmptyName
      /\ NON_EXISTING_CERTIFICATE \notin d.certs
  BY <1>1, <1>2, NullsAssumption, QueriesAssumption DEF Types, Databases
<1> HIDE DEF n
<1>4. CASE r.type = "id"
  <2>1. Get(d, "ID", n) = ErrorReply("NON_EXISTING_ID")
    BY <1>2, <1>4, GetAnswers
  <2>2. Listed(d, "ID", n) = {}
    BY <1>2, <1>4, ListAnswers DEF ListKeyNamesOfIdentity
  <2>3. \A k \in d.defaultKeys : IdentityOf[k] # n
    BY <1>1, <1>2, <1>4 DEF NoOrphans
  <2>4. GetDefaultKeyNameOfIdentity(d, n) = NON_EXISTING_KEY
    BY <2>3 DEF GetDefaultKeyNameOfIdentity, KeysOfIds
  <2>5. NoneIsNoKey(d) => GetDefaultCertNameOfKey(d, NON_EXISTING_KEY) = NON_EXISTING_CERTIFICATE
    BY DEF GetDefaultCertNameOfKey, NoneIsNoKey
  <2>6. NoneIsNoKey(d) => DefaultOf(d, "CERT", "ID", n) = ErrorReply("NO_DEFAULT_CERT")
    BY <1>3, <2>4, <2>5, DefaultAnswers
  <2> QED
    BY <1>4, <2>1, <2>2, <2>6 DEF Observed, TypeNamed, NonExisting, n
<1>5. CASE r.type = "key"
  <2>1. Get(d, "KEY", n) = ErrorReply("NON_EXISTING_KEY")
    BY <1>2, <1>3, <1>5, GetAnswers DEF GetKey
  <2>2. Listed(d, "KEY", n) = {}
    BY <1>2, <1>3, <1>5, ListAnswers DEF ListCertNamesOfKey
  <2>3. GetDefaultCertNameOfKey(d, n) = NON_EXISTING_CERTIFICATE
    BY <1>2, <1>5 DEF GetDefaultCertNameOfKey
  <2>4. DefaultOf(d, "CERT", "KEY", n) = ErrorReply("NO_DEFAULT_CERT")
    BY <1>3, <2>3, DefaultAnswers
  <2> QED
    BY <1>5, <2>1, <2>2, <2>4 DEF Observed, TypeNamed, NonExisting, n
<1>6. CASE r.type = "cert"
  <2>1. Get(d, "CERT", n) = ErrorReply("NON_EXISTING_CERT")
    BY <1>2, <1>6, GetAnswers
  <2> QED
    BY <1>6, <2>1 DEF Observed, TypeNamed, NonExisting, n
<1> QED
  BY <1>2, <1>4, <1>5, <1>6 DEF Types

\* One that has what the statements of an update are there for shows it too.
LEMMA UpdateObserved ==
  ASSUME NEW d, Sound(d), NEW r \in Requests, r.op = "update",
         \A m \in 1 .. Len(Statements(r)) : Achieved(d, Statements(r)[m], r)
  PROVE  Observed(d, r)
<1> DEFINE i == OwnerOf(r)
           k == KeyNameOf(r)
           c == r.target
<1>1. d \in Databases /\ NoOrphans(d)
  BY DEF Sound
<1>2. \A s : Holds(Statements(r), s) => Achieved(d, s, r)
  BY DEF Holds
<1>3. /\ i \in d.ids
      /\ r.type # "id" => k \in StoredKeys(d)
      /\ r.type = "cert" => c \in d.certs
      /\ "USER" \in Masks(r.opt) => i \in d.defaultIds
      /\ "ID" \in Masks(r.opt) /\ r.type # "id" => k \in d.defaultKeys
      /\ "KEY" \in Masks(r.opt) /\ r.type = "cert" => c \in d.defaultCerts
  BY <1>2, UpdateCovers DEF Achieved
<1>4. /\ r.type # "id" => k \in KeyNames /\ i = IdentityOf[k] /\ k # EmptyName
      /\ r.type = "cert" => k = KeyOf[c]
  BY OwnerOfKey, QueriesAssumption
<1>5. r.op # "delete"
  OBVIOUS
<1> HIDE DEF i, k, c
<1>6. i \in Listed(d, "USER", EmptyName)
  BY <1>3, ListAnswers
<1>7. r.type # "id" => k \in Listed(d, "ID", i)
  BY <1>3, <1>4, ListAnswers DEF ListKeyNamesOfIdentity
<1>8. ASSUME r.type = "cert" PROVE c \in Listed(d, "KEY", k)
  <2>1. k \in StoredKeys(d) /\ k # EmptyName /\ k = KeyOf[c] /\ c \in d.certs
    BY <1>3, <1>4, <1>8
  <2> QED
    BY <2>1, ListAnswers DEF ListCertNamesOfKey
<1>9. ASSUME r.type = "cert", "KEY" \in Masks(r.opt)
      PROVE  DefaultOf(d, "CERT", "KEY", k) = Get(d, "CERT", c)
  <2>1. /\ GetDefaultCertNameOfKey(d, k) = c /\ c \in d.certs /\ k # EmptyName
    BY <1>3, <1>4, <1>9, DefaultsFound
  <2>2. DefaultOf(d, "CERT", "KEY", k) = [certificate |-> c]
    BY <2>1, DefaultAnswers
  <2> QED
    BY <2>1, <2>2, GetAnswers
<1>10. ASSUME r.type # "id", "ID" \in Masks(r.opt)
       PROVE  DefaultOf(d, "KEY", "ID", i) = Get(d, "KEY", k)
  <2>1. GetDefaultKeyNameOfIdentity(d, i) = k /\ k # EmptyName
    BY <1>3, <1>4, <1>10, DefaultsFound
  <2>2. GetKey(d, k) # NoKey
    BY <1>3, <1>10 DEF GetKey, StoredKeys
  <2>3. DefaultOf(d, "KEY", "ID", i) = [keyName |-> k, key |-> GetKey(d, k)]
    BY <2>1, <2>2, DefaultAnswers
  <2> QED
    BY <2>1, <2>2, <2>3, GetAnswers
<1>11. ASSUME "USER" \in Masks(r.opt)
       PROVE  DefaultOf(d, "ID", "USER", EmptyName) = Get(d, "ID", i)
  <2>1. GetDefaultIdentity(d) = i
    BY <1>3, <1>11, DefaultsFound
  <2> QED
    BY <1>3, <2>1, DefaultAnswers, GetAnswers
<1> QED
  BY <1>5, <1>6, <1>7, <1>8, <1>9, <1>10, <1>11 DEF Observed, i, k, c

\* A command that was answered with success has been carried out whole, as its
\* client can see: its own statements found what they need whatever was in the
\* database, also when a crash had cut the same command short before.
THEOREM WritesAreRead == Spec => ReadsOwnWrites
<1>1. ASSUME IInv, Achieving, [Next]_vars, request # NoRequest, request' = NoRequest, up'
      PROVE  Observed(db', request)
  <2>1. RunStatement
    BY <1>1 DEF Next, Command, Accept, Reject, ProcessUpdateUser, Crash, Restart, vars
  <2>2. request \in Requests /\ step \in 1 .. Len(Statements(request)) /\ Sound(db)
    BY <1>1 DEF IInv, InProgress
  <2>3. step = Len(Statements(request))
    BY <1>1, <2>1 DEF RunStatement
  <2>4. Sound(db')
    BY <2>1, <2>2, ExecuteSound DEF RunStatement
  <2>5. \A m \in 1 .. Len(Statements(request)) : Achieved(db', Statements(request)[m], request)
    BY <1>1, <2>1, <2>3, RunAchieves
  <2>6. CASE request.op = "update"
    BY <2>2, <2>4, <2>5, <2>6, UpdateObserved
  <2>7. CASE request.op = "delete"
    <3>1. Statements(request) = <<"delete">>
      BY <2>7 DEF Statements
    <3>2. Len(Statements(request)) = 1 /\ Statements(request)[1] = "delete"
      BY <3>1
    <3>3. Achieved(db', "delete", request)
      BY <2>5, <3>2
    <3> QED
      BY <2>2, <2>4, <2>7, <3>3, DeletionObserved
  <2> QED
    BY <2>2, <2>6, <2>7, RequestTyped
<1>2. IInv /\ Achieving /\ [Next]_vars =>
        [request # NoRequest /\ request' = NoRequest /\ up' => Observed(db', request)]_vars
  BY <1>1
<1> QED
  BY <1>2, Inductive, Progress, PTL DEF Spec, ReadsOwnWrites

-----------------------------------------------------------------------------
(* The parameters of commands *)

\* The entity of an update, as it is decoded.
EntitySent(r) ==
  CASE r.type = "id"   -> [identity |-> r.target]
    [] r.type = "key"  -> [keyName |-> r.target, key |-> r.bits]
    [] r.type = "cert" -> [certificate |-> CertificateOf(r)]

\* an update carries its entity so that the service reads the same
LEMMA EntityRead ==
  ASSUME NEW r, r.type \in Types
  PROVE  /\ Entity(r).type = EntityTypeNamed[r.type]
         /\ EntityDecode(Entity(r)) = EntitySent(r)
         /\ EntitySent(r) # DecodeError
<1>1. CASE r.type = "id"
  BY <1>1 DEF Entity, EntityTypeNamed, EntityDecode, EntitySent, Block, Has, DecodeError,
              PibIdentityEncode, PibIdentityDecode
<1>2. CASE r.type = "key"
  BY <1>2 DEF Entity, EntityTypeNamed, EntityDecode, EntitySent, Block, Has, DecodeError,
              PibPublicKeyEncode, PibPublicKeyDecode
<1>3. CASE r.type = "cert"
  BY <1>3 DEF Entity, EntityTypeNamed, EntityDecode, EntitySent, Block, Has, DecodeError,
              PibCertificateEncode, PibCertificateDecode
<1> QED
  BY <1>1, <1>2, <1>3 DEF Types

\* The parameters of delete and update, whole.
LEMMA CommandRead ==
  /\ \A type, name : CommandDecode(DeleteParamEncode([targetType |-> type, targetName |-> name]))
                       = [targetType |-> type, targetName |-> name]
  /\ \A entity, opt : EntityDecode(entity) # DecodeError =>
       CommandDecode(UpdateParamEncode(entity, opt))
         = [entityType |-> entity.type, entity |-> EntityDecode(entity), defaultOpt |-> opt]
<1>1. \A type, name : CommandDecode(DeleteParamEncode([targetType |-> type, targetName |-> name]))
                        = [targetType |-> type, targetName |-> name]
  BY DEF CommandDecode, DeleteParamEncode, DeleteParamDecode, Block, Has
<1>2. ASSUME NEW entity, NEW opt, EntityDecode(entity) # DecodeError
      PROVE  CommandDecode(UpdateParamEncode(entity, opt))
               = [entityType |-> entity.type, entity |-> EntityDecode(entity), defaultOpt |-> opt]
  <2> DEFINE wire == UpdateParamEncode(entity, opt)
  <2>1. /\ wire.type = "UpdateParam" /\ Len(wire.value) = 2 /\ wire.value[1] = entity
        /\ wire.value[2].type = "DefaultOpt" /\ wire.value[2].value = opt
    BY DEF UpdateParamEncode, Block
  <2> HIDE DEF wire
  <2> SUFFICES CommandDecode(wire) = [entityType |-> entity.type, entity |-> EntityDecode(entity),
                                      defaultOpt |-> opt]
    BY DEF wire
  <2> QED
    BY <1>2, <2>1 DEF CommandDecode, UpdateParamDecode, Has
<1> QED
  BY <1>1, <1>2

\* What is left of a sequence of one or two elements, and one element more.
LEMMA CutAndMore ==
  ASSUME NEW a, NEW b, NEW e
  PROVE  /\ \A n \in 0 .. 1 - 1 : Len(SubSeq(<<a>>, 1, n)) = 0
         /\ \A n \in 0 .. 2 - 1 : Len(SubSeq(<<a, b>>, 1, n)) \in 0 .. 1
         /\ Len(Append(<<a, b>>, e)) = 3
<1>1. <<a>> \in Seq({a, b, e}) /\ <<a, b>> \in Seq({a, b, e})
  OBVIOUS
<1>2. Len(<<a>>) = 1 /\ Len(<<a, b>>) = 2
  OBVIOUS
<1>3. Len(Append(<<a, b>>, e)) = 3
  BY <1>1, <1>2, AppendProperties
<1>4. \A n \in 0 .. 0 : Len(SubSeq(<<a>>, 1, n)) = 0
  BY <1>1, <1>2, SubSeqProperties
<1>5. \A n \in 0 .. 1 : Len(SubSeq(<<a, b>>, 1, n)) \in 0 .. 1
  BY <1>1, <1>2, SubSeqProperties
<1> QED
  BY <1>3, <1>4, <1>5

\* A parameter with fewer or more than two elements is no command.
LEMMA TwoElements ==
  ASSUME NEW type \in {"UpdateParam", "DeleteParam"}, NEW a, NEW b
  PROVE  /\ \A n \in 0 .. Len(<<a, b>>) - 1 :
              CommandDecode(Block(type, SubSeq(<<a, b>>, 1, n))) = DecodeError
         /\ \A e : CommandDecode(Block(type, Append(<<a, b>>, e))) = DecodeError
<1>1. \A v : Len(v) # 2 => CommandDecode(Block(type, v)) = DecodeError
  BY DEF CommandDecode, UpdateParamDecode, DeleteParamDecode, Block
<1>2. Len(<<a, b>>) = 2
  OBVIOUS
<1>3. /\ \A n \in 0 .. 2 - 1 : Len(SubSeq(<<a, b>>, 1, n)) # 2
      /\ \A e : Len(Append(<<a, b>>, e)) # 2
  BY CutAndMore
<1> QED
  BY <1>1, <1>2, <1>3

\* Nor is one whose entity lacks elements.
LEMMA EntityCut ==
  ASSUME NEW r, r.type \in Types, NEW n \in 0 .. Len(Entity(r).value) - 1
  PROVE  EntityDecode(Block(Entity(r).type, SubSeq(Entity(r).value, 1, n))) = DecodeError
<1> DEFINE cut == SubSeq(Entity(r).value, 1, n)
           w == Block(Entity(r).type, cut)
<1>1. w.type = Entity(r).type /\ w.value = cut
  BY DEF Block
<1>2. CASE r.type \in {"id", "cert"}
  <2>1. /\ Entity(r).type = IF r.type = "id" THEN "Identity" ELSE "Certificate"
        /\ \E a : Entity(r).value = <<a>>
    BY <1>2 DEF Entity, Block, PibIdentityEncode, PibCertificateEncode
  <2>2. Len(cut) = 0
    BY <2>1, CutAndMore
  <2> HIDE DEF cut, w
  <2> SUFFICES EntityDecode(w) = DecodeError
    BY DEF w, cut
  <2> QED
    BY <1>1, <2>1, <2>2 DEF EntityDecode, PibIdentityDecode, PibCertificateDecode, Has
<1>3. CASE r.type = "key"
  <2>1. Entity(r).type = "PublicKey" /\ \E a, b : Entity(r).value = <<a, b>>
    BY <1>3 DEF Entity, Block, PibPublicKeyEncode
  <2>2. Len(cut) \in 0 .. 1
    BY <2>1, CutAndMore
  <2> HIDE DEF cut, w
  <2> SUFFICES EntityDecode(w) = DecodeError
    BY DEF w, cut
  <2> QED
    BY <1>1, <2>1, <2>2 DEF EntityDecode, PibPublicKeyDecode
<1> QED
  BY <1>2, <1>3 DEF Types

\* What the service decodes is the command that was encoded; with an element less
\* or more it is no command.
THEOREM CommandsAreDecoded == Spec => []CommandsDecoded
<1>1. ASSUME IInv PROVE CommandsDecoded
  <2> SUFFICES ASSUME request # NoRequest PROVE DecodedAsSent /\ MalformedRejected
    BY DEF CommandsDecoded, DecodedAsSent, MalformedRejected
  <2> DEFINE r == request
             wire == CommandEncode(r)
  <2>1. r \in Requests /\ r.op \in {"update", "delete"} /\ r.type \in Types
    BY <1>1, RequestTyped DEF IInv, InProgress
  <2>2. \E type \in {"UpdateParam", "DeleteParam"} : \E a, b : wire = Block(type, <<a, b>>)
    BY <2>1 DEF CommandEncode, UpdateParamEncode, DeleteParamEncode
  <2>3. /\ \A n \in 0 .. Len(wire.value) - 1 :
             CommandDecode(Block(wire.type, SubSeq(wire.value, 1, n))) = DecodeError
        /\ \A e : CommandDecode(Block(wire.type, Append(wire.value, e))) = DecodeError
    <3>1. PICK type \in {"UpdateParam", "DeleteParam"} : \E a, b : wire = Block(type, <<a, b>>)
      BY <2>2
    <3>2. PICK a, b : wire = Block(type, <<a, b>>)
      BY <3>1
    <3>3. wire.type = type /\ wire.value = <<a, b>>
      BY <3>2 DEF Block
    <3> QED
      BY <3>3, TwoElements
  <2>4. ASSUME r.op = "update", NEW n \in 0 .. Len(Entity(r).value) - 1
        PROVE  CommandDecode(UpdateParamEncode(
                 Block(Entity(r).type, SubSeq(Entity(r).value, 1, n)), r.opt)) = DecodeError
    BY <2>1, <2>4, EntityCut
    DEF CommandDecode, UpdateParamEncode, UpdateParamDecode, Block
  <2>5. MalformedRejected
    <3> HIDE DEF wire
    <3> QED
      BY <2>3, <2>4 DEF MalformedRejected, wire, Block
  <2>6. ASSUME r.op = "delete" PROVE DecodedAsSent
    <3>1. CommandDecode(wire) = [targetType |-> TypeNamed[r.type], targetName |-> r.target]
      <4>1. wire = DeleteParamEncode([targetType |-> TypeNamed[r.type], targetName |-> r.target])
        BY <2>6 DEF CommandEncode
      <4> QED
        BY <4>1, CommandRead
    <3> QED
      BY <2>6, <3>1 DEF DecodedAsSent
  <2>7. ASSUME r.op = "update" PROVE DecodedAsSent
    <3>1. CommandDecode(wire) = [entityType |-> EntityTypeNamed[r.type], entity |-> EntitySent(r),
                                 defaultOpt |-> r.opt]
      <4>1. wire = UpdateParamEncode(Entity(r), r.opt)
        BY <2>7 DEF CommandEncode
      <4>2. EntityDecode(Entity(r)) # DecodeError
        BY <2>1, EntityRead
      <4> QED
        BY <2>1, <4>1, <4>2, EntityRead, CommandRead
    <3> QED
      BY <2>7, <3>1 DEF DecodedAsSent, EntitySent
  <2> QED
    BY <2>1, <2>5, <2>6, <2>7
<1> QED
  BY <1>1, Inductive, PTL
=============================================================================
