----------------------------- MODULE PibQueries -----------------------------
(***************************************************************************)
(* tools/pib: the queries get, default and list, as a client sees them: it *)
(* encodes its parameters, the processor decodes them, reads the database  *)
(* and encodes a reply, and the client decodes that. A query changes       *)
(* nothing that is read again, and comes between two commands.             *)
(***************************************************************************)
EXTENDS Pib, PibEncoding

CONSTANT TpmLocator     \* Pib's argument, which it stores in the database

ASSUME QueriesAssumption ==
  /\ EmptyName \notin {NON_EXISTING_IDENTITY, NON_EXISTING_KEY}
  /\ EmptyName \notin Identities \cup KeyNames \cup CertNames

-----------------------------------------------------------------------------
(* The SELECT statements of PibDb *)

HasIdentity(d, n) == n \in d.ids
GetKey(d, n) == IF n \in StoredKeys(d) THEN d.keys[n] ELSE NoKey

GetDefaultIdentity(d) ==
  IF d.defaultIds = {} THEN NON_EXISTING_IDENTITY ELSE CHOOSE i \in d.defaultIds : TRUE

GetDefaultCertNameOfKey(d, n) ==
  LET found == {c \in d.defaultCerts : KeyOf[c] = n /\ n \in StoredKeys(d)}
  IN IF found = {} THEN NON_EXISTING_CERTIFICATE ELSE CHOOSE c \in found : TRUE

\* the JOINs pass over rows without their parent
ListKeyNamesOfIdentity(d, n) == {k \in StoredKeys(d) : IdentityOf[k] = n /\ n \in d.ids}
ListCertNamesOfKey(d, n) == {c \in d.certs : KeyOf[c] = n /\ n \in StoredKeys(d)}

-----------------------------------------------------------------------------
(* GetQueryProcessor *)

ProcessGetIdQuery(d, n) ==
  IF HasIdentity(d, n) THEN PibIdentityEncode(n) ELSE PibErrorEncode("NON_EXISTING_ID")

ProcessGetKeyQuery(d, n) ==
  IF n = EmptyName THEN PibErrorEncode("WRONG_PARAM")
  ELSE IF GetKey(d, n) = NoKey THEN PibErrorEncode("NON_EXISTING_KEY")
  ELSE PibPublicKeyEncode(n, GetKey(d, n))

ProcessGetCertQuery(d, n) ==
  IF n \in d.certs THEN PibCertificateEncode(n) ELSE PibErrorEncode("NON_EXISTING_CERT")

\* of the owner, whose name is in the prefix of the filter
ProcessGetUserQuery == PibUserEncode(mgmt, TpmLocator)

GetQuery(d, wire) ==
  LET p == GetParamDecode(wire)
  IN IF p = DecodeError THEN PibErrorEncode("WRONG_PARAM")
     ELSE CASE p.targetType = "ID"   -> ProcessGetIdQuery(d, p.targetName)
            [] p.targetType = "KEY"  -> ProcessGetKeyQuery(d, p.targetName)
            [] p.targetType = "CERT" -> ProcessGetCertQuery(d, p.targetName)
            [] p.targetType = "USER" -> ProcessGetUserQuery

(* DefaultQueryProcessor. The getters of PibDb throw nothing: without a
   default they give a reserved name, so ERR_NO_DEFAULT_ID is never sent. *)

ProcessDefaultIdQuery(d, p) ==
  IF p.originType = "USER" THEN PibIdentityEncode(GetDefaultIdentity(d))
  ELSE PibErrorEncode("WRONG_PARAM")

OriginIdentity(d, p) == IF p.originType = "USER" THEN GetDefaultIdentity(d) ELSE p.originName

ProcessDefaultKeyQuery(d, p) ==
  LET keyName == GetDefaultKeyNameOfIdentity(d, OriginIdentity(d, p))
  IN IF p.originType \notin {"USER", "ID"} THEN PibErrorEncode("WRONG_PARAM")
     ELSE IF GetKey(d, keyName) = NoKey THEN PibErrorEncode("NO_DEFAULT_KEY")
     ELSE PibPublicKeyEncode(keyName, GetKey(d, keyName))

ProcessDefaultCertQuery(d, p) ==
  LET keyName  == IF p.originType = "KEY" THEN p.originName
                  ELSE GetDefaultKeyNameOfIdentity(d, OriginIdentity(d, p))
      certName == GetDefaultCertNameOfKey(d, keyName)
  IN IF p.originType \notin {"USER", "ID", "KEY"} \/ keyName = EmptyName
     THEN PibErrorEncode("WRONG_PARAM")
     ELSE IF certName \in d.certs THEN PibCertificateEncode(certName)
     ELSE PibErrorEncode("NO_DEFAULT_CERT")

DefaultQuery(d, wire) ==
  LET p == DefaultParamDecode(wire)
  IN IF p = DecodeError THEN PibErrorEncode("WRONG_PARAM")
     ELSE CASE p.targetType = "ID"   -> ProcessDefaultIdQuery(d, p)
            [] p.targetType = "KEY"  -> ProcessDefaultKeyQuery(d, p)
            [] p.targetType = "CERT" -> ProcessDefaultCertQuery(d, p)
            [] OTHER -> PibErrorEncode("WRONG_PARAM")

(* ListQueryProcessor *)

ListQuery_AllKeys(d, wire) ==     \* mutant: the JOIN has no WHERE
  LET p == ListParamDecode(wire)
  IN IF p = DecodeError \/ p.originType = "CERT" \/ (p.originType = "KEY" /\ p.originName = EmptyName)
     THEN PibErrorEncode("WRONG_PARAM")
     ELSE CASE p.originType = "USER" -> PibNameListEncode(d.ids)
            [] p.originType = "ID"   -> PibNameListEncode(StoredKeys(d))
            [] p.originType = "KEY"  -> PibNameListEncode(ListCertNamesOfKey(d, p.originName))
ListQuery(d, wire) ==
  LET p == ListParamDecode(wire)
  IN IF p = DecodeError \/ p.originType = "CERT" \/ (p.originType = "KEY" /\ p.originName = EmptyName)
     THEN PibErrorEncode("WRONG_PARAM")
     ELSE CASE p.originType = "USER" -> PibNameListEncode(d.ids)
            [] p.originType = "ID"   -> PibNameListEncode(ListKeyNamesOfIdentity(d, p.originName))
            [] p.originType = "KEY"  -> PibNameListEncode(ListCertNamesOfKey(d, p.originName))

-----------------------------------------------------------------------------
(* The client's side: the entity in the reply, or the error *)

Reply(wire) ==
  CASE wire.type = "NameList" -> PibNameListDecode(wire)
    [] wire.type = "Error"    -> PibErrorDecode(wire)
    [] OTHER -> EntityDecode(wire)

Get(d, type, name) == Reply(GetQuery(d, GetParamEncode([targetType |-> type, targetName |-> name])))
DefaultOf(d, target, origin, name) ==
  Reply(DefaultQuery(d, DefaultParamEncode(
          [targetType |-> target, originType |-> origin, originName |-> name])))
ListOf(d, origin, name) ==
  Reply(ListQuery(d, ListParamEncode([originType |-> origin, originName |-> name])))

ErrorReply(code) == [errorCode |-> code]
Listed(d, origin, name) == ListOf(d, origin, name).names

(* and the parameters of the commands *)

TypeNamed == [id |-> "ID", key |-> "KEY", cert |-> "CERT"]
EntityTypeNamed == [id |-> "Identity", key |-> "PublicKey", cert |-> "Certificate"]
NonExisting == [id |-> "NON_EXISTING_ID", key |-> "NON_EXISTING_KEY", cert |-> "NON_EXISTING_CERT"]
CertificateOf(r) == [name |-> r.target, publicKeyInfo |-> r.bits]
Entity(r) ==
  CASE r.type = "id"   -> PibIdentityEncode(r.target)
    [] r.type = "key"  -> PibPublicKeyEncode(r.target, r.bits)
    [] r.type = "cert" -> PibCertificateEncode(CertificateOf(r))
CommandEncode(r) ==
  IF r.op = "update" THEN UpdateParamEncode(Entity(r), r.opt)
  ELSE DeleteParamEncode([targetType |-> TypeNamed[r.type], targetName |-> r.target])
CommandDecode(wire) ==
  IF wire.type = "UpdateParam" THEN UpdateParamDecode(wire) ELSE DeleteParamDecode(wire)

-----------------------------------------------------------------------------
(* What must hold *)

Idle == up /\ request = NoRequest

\* What the lists name, get returns, and the other way round: from the
\* identities to their keys and on to the certificates no row is out of reach,
\* none is listed under two parents, and the bits of a key are those of the
\* command that stored it. The owner's certificate is the one the validator
\* trusts.
ListedIsFound ==
  Idle =>
    /\ \A i \in Identities : i \in Listed(db, "USER", EmptyName) <=> Get(db, "ID", i) = [identity |-> i]
    /\ \A k \in KeyNames :
         k \in Listed(db, "ID", IdentityOf[k]) <=> Get(db, "KEY", k) # ErrorReply("NON_EXISTING_KEY")
    /\ \A c \in CertNames :
         c \in Listed(db, "KEY", KeyOf[c]) <=> Get(db, "CERT", c) # ErrorReply("NON_EXISTING_CERT")
    /\ \A i \in Identities : \A k \in Listed(db, "ID", i) :
         IdentityOf[k] = i /\ Get(db, "KEY", k) = [keyName |-> k, key |-> db.keys[k]]
    /\ \A k \in KeyNames : \A c \in Listed(db, "KEY", k) :
         KeyOf[c] = k /\ Get(db, "CERT", c) = [certificate |-> c]
    /\ Get(db, "USER", EmptyName) = [mgmtCert |-> validatorCert, tpmLocator |-> TpmLocator]

\* No key is stored under the name that stands for none. Nothing refuses one that
\* is, and default then answers with it for every identity without a default key.
NoneIsNoKey(d) == NON_EXISTING_KEY \notin StoredKeys(d)

\* The chain of defaults: what "default" answers for the user is what it answers
\* step by step, each one is listed under the one before, and an error stays an
\* error down the chain. Without a default identity the reply is the reserved
\* name, and a key or a certificate is found below it only where such an identity
\* is stored.
DefaultsResolve ==
  Idle /\ NoneIsNoKey(db) =>
    \E i \in Listed(db, "USER", EmptyName) \cup {NON_EXISTING_IDENTITY} :
      /\ DefaultOf(db, "ID", "USER", EmptyName) = [identity |-> i]
      /\ LET key  == DefaultOf(db, "KEY", "USER", EmptyName)
             cert == DefaultOf(db, "CERT", "USER", EmptyName)
         IN /\ key = DefaultOf(db, "KEY", "ID", i) /\ cert = DefaultOf(db, "CERT", "ID", i)
            /\ \/ /\ key = ErrorReply("NO_DEFAULT_KEY")
                  /\ cert = ErrorReply("NO_DEFAULT_CERT")
               \/ \E k \in Listed(db, "ID", i) :
                    /\ key = Get(db, "KEY", k)
                    /\ cert = DefaultOf(db, "CERT", "KEY", k)
                    /\ \/ cert = ErrorReply("NO_DEFAULT_CERT")
                       \/ \E c \in Listed(db, "KEY", k) : cert = Get(db, "CERT", c)

\* What a client that was told ERR_SUCCESS for r finds with its queries
Observed(d, r) ==
  IF r.op = "delete"
  THEN /\ Get(d, TypeNamed[r.type], r.target) = ErrorReply(NonExisting[r.type])
       /\ r.type = "id" => Listed(d, "ID", r.target) = {}
       /\ r.type = "key" => Listed(d, "KEY", r.target) = {}
       /\ r.type = "key" \/ (r.type = "id" /\ NoneIsNoKey(d)) =>
            DefaultOf(d, "CERT", TypeNamed[r.type], r.target) = ErrorReply("NO_DEFAULT_CERT")
  ELSE /\ OwnerOf(r) \in Listed(d, "USER", EmptyName)
       /\ r.type # "id" => KeyNameOf(r) \in Listed(d, "ID", OwnerOf(r))
       /\ r.type = "cert" => r.target \in Listed(d, "KEY", KeyNameOf(r))
       /\ r.type = "cert" /\ "KEY" \in Masks(r.opt) =>
            DefaultOf(d, "CERT", "KEY", KeyNameOf(r)) = Get(d, "CERT", r.target)
       /\ r.type # "id" /\ "ID" \in Masks(r.opt) =>
            DefaultOf(d, "KEY", "ID", OwnerOf(r)) = Get(d, "KEY", KeyNameOf(r))
       /\ "USER" \in Masks(r.opt) =>
            DefaultOf(d, "ID", "USER", EmptyName) = Get(d, "ID", OwnerOf(r))

\* When a command is answered with success, queries show everything it asked for,
\* whatever was there before, also after a crash cut it short and it was given
\* again - but for the bits of a key and the contents of a certificate that were
\* there, which stay as they are.
ReadsOwnWrites ==
  [][request # NoRequest /\ request' = NoRequest /\ up' =>
       Observed(db', request)]_vars

\* The command the service works on is the one its client encoded, whatever its
\* kind.
DecodedAsSent ==
  request # NoRequest =>
    CommandDecode(CommandEncode(request)) =
      IF request.op = "delete"
      THEN [targetType |-> TypeNamed[request.type], targetName |-> request.target]
      ELSE [entityType |-> EntityTypeNamed[request.type],
            entity |->
              CASE request.type = "id"   -> [identity |-> request.target]
                [] request.type = "key"  -> [keyName |-> request.target, key |-> request.bits]
                [] request.type = "cert" -> [certificate |-> CertificateOf(request)],
            defaultOpt |-> request.opt]

\* A command cut short or continued is not executed as another one: no parameter
\* or entity that lacks elements, and no parameter with one more, is decoded.
MalformedRejected ==
  request # NoRequest =>
    LET wire == CommandEncode(request)
        Cut(b) == {Block(b.type, SubSeq(b.value, 1, n)) : n \in 0 .. Len(b.value) - 1}
        More(b) == {Block(b.type, Append(b.value, e)) :
                      e \in {Block("Name", EmptyName), Block("DefaultOpt", DEFAULT_OPT.USER)}}
    IN /\ \A w \in Cut(wire) \cup More(wire) : CommandDecode(w) = DecodeError
       /\ request.op = "update" =>
            \A entity \in Cut(Entity(request)) :
              CommandDecode(UpdateParamEncode(entity, request.opt)) = DecodeError

\* What is decoded is what was sent: all of it, and nothing else.
CommandsDecoded == DecodedAsSent /\ MalformedRejected
=============================================================================
