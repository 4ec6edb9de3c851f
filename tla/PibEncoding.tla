---------------------------- MODULE PibEncoding ----------------------------
(***************************************************************************)
(* tools/pib/encoding: the parameters of queries and commands and the      *)
(* replies, as TLV blocks. The value of a block is a sequence of blocks,   *)
(* or a datum that is encoded and decoded elsewhere (a Name, a Data, ...). *)
(* A decoder checks the elements one after the other, by type; where it    *)
(* throws a tlv::Error the operator gives DecodeError.                     *)
(***************************************************************************)
EXTENDS Naturals, Sequences

Block(type, value) == [type |-> type, value |-> value]
DecodeError == [error |-> "tlv::Error"]
EmptyName == "/"    \* Name()

\* it != m_wire.elements_end() && it->type() == type, at the i-th element
Has(wire, i, type) == i <= Len(wire.value) /\ wire.value[i].type = type

NamedTypes == {"ID", "KEY", "CERT"}    \* TYPE_...; TYPE_USER stands without a name
NameIfNamed(type, name) == IF type \in NamedTypes THEN <<Block("Name", name)>> ELSE << >>

-----------------------------------------------------------------------------
(* The parameters of queries. What follows the name, or TYPE_USER, is not
   looked at. *)

GetParamEncode(p) ==
  Block("GetParam", <<Block("Type", p.targetType)>> \o NameIfNamed(p.targetType, p.targetName))

GetParamDecode(wire) ==
  IF wire.type # "GetParam" \/ ~Has(wire, 1, "Type") THEN DecodeError
  ELSE LET type == wire.value[1].value
       IN CASE type \in NamedTypes /\ Has(wire, 2, "Name") ->
                 [targetType |-> type, targetName |-> wire.value[2].value]
            [] type = "USER" -> [targetType |-> type, targetName |-> EmptyName]
            [] OTHER -> DecodeError

ListParamEncode(p) ==
  Block("ListParam", <<Block("Type", p.originType)>> \o NameIfNamed(p.originType, p.originName))

ListParamDecode(wire) ==
  IF wire.type # "ListParam" \/ ~Has(wire, 1, "Type") THEN DecodeError
  ELSE LET type == wire.value[1].value
       IN CASE type \in NamedTypes /\ Has(wire, 2, "Name") ->
                 [originType |-> type, originName |-> wire.value[2].value]
            [] type = "USER" -> [originType |-> type, originName |-> EmptyName]
            [] OTHER -> DecodeError

\* mutant: the types are prepended in the order in which they are read
DefaultParamEncode_Swapped(p) ==
  Block("DefaultParam", <<Block("Type", p.originType), Block("Type", p.targetType)>>
                        \o NameIfNamed(p.originType, p.originName))
DefaultParamEncode(p) ==
  Block("DefaultParam", <<Block("Type", p.targetType), Block("Type", p.originType)>>
                        \o NameIfNamed(p.originType, p.originName))

DefaultParamDecode(wire) ==
  IF wire.type # "DefaultParam" \/ ~Has(wire, 1, "Type") \/ ~Has(wire, 2, "Type")
  THEN DecodeError
  ELSE LET target == wire.value[1].value
           origin == wire.value[2].value
       IN CASE origin \in NamedTypes /\ Has(wire, 3, "Name") ->
                 [targetType |-> target, originType |-> origin, originName |-> wire.value[3].value]
            [] origin = "USER" ->
                 [targetType |-> target, originType |-> origin, originName |-> EmptyName]
            [] OTHER -> DecodeError

-----------------------------------------------------------------------------
(* The entities: of a command that updates them, and of the replies *)

PibIdentityEncode(name) == Block("Identity", <<Block("Name", name)>>)
PibIdentityDecode(wire) ==
  IF wire.type = "Identity" /\ Has(wire, 1, "Name") THEN [identity |-> wire.value[1].value]
  ELSE DecodeError

PibPublicKeyEncode(name, key) ==
  Block("PublicKey", <<Block("Name", name), Block("Bytes", key)>>)
PibPublicKeyDecode(wire) ==
  IF /\ wire.type = "PublicKey" /\ Len(wire.value) = 2
     /\ Has(wire, 1, "Name") /\ Has(wire, 2, "Bytes")
  THEN [keyName |-> wire.value[1].value, key |-> wire.value[2].value]
  ELSE DecodeError

PibCertificateEncode(certificate) == Block("Certificate", <<Block("Data", certificate)>>)
PibCertificateDecode(wire) ==
  IF wire.type = "Certificate" /\ Has(wire, 1, "Data") THEN [certificate |-> wire.value[1].value]
  ELSE DecodeError

\* the locator is left out when it is empty, and only looked for behind the Data
PibUserEncode(certificate, locator) ==
  Block("User", <<Block("Data", certificate)>>
                \o (IF locator = "" THEN << >> ELSE <<Block("TpmLocator", locator)>>))
PibUserDecode(wire) ==
  IF wire.type = "User" /\ Has(wire, 1, "Data")
  THEN [mgmtCert |-> wire.value[1].value,
        tpmLocator |-> IF Has(wire, 2, "TpmLocator") THEN wire.value[2].value ELSE ""]
  ELSE DecodeError

(* Replies that are no entities. The names of a list have no order here: the
   SELECT statements ask for none. The decoder passes over what is no name. *)

PibNameListEncode(names) == Block("NameList", {Block("Name", n) : n \in names})
PibNameListDecode(wire) ==
  IF wire.type # "NameList" THEN DecodeError
  ELSE [names |-> {b.value : b \in {e \in wire.value : e.type = "Name"}}]

PibErrorEncode(code) == Block("Error", <<Block("ErrorCode", code), Block("Bytes", "message")>>)
PibErrorDecode(wire) ==
  IF wire.type = "Error" /\ Has(wire, 1, "ErrorCode") /\ Has(wire, 2, "Bytes")
  THEN [errorCode |-> wire.value[1].value]
  ELSE DecodeError

-----------------------------------------------------------------------------
(* The parameters of commands: nothing may follow. DeleteParam accepts every
   type, which its processor looks at. *)

DeleteParamEncode(p) ==
  Block("DeleteParam", <<Block("Type", p.targetType), Block("Name", p.targetName)>>)
DeleteParamDecode(wire) ==
  IF /\ wire.type = "DeleteParam" /\ Len(wire.value) = 2
     /\ Has(wire, 1, "Type") /\ Has(wire, 2, "Name")
  THEN [targetType |-> wire.value[1].value, targetName |-> wire.value[2].value]
  ELSE DecodeError

EntityDecode(wire) ==
  CASE wire.type = "Identity"    -> PibIdentityDecode(wire)
    [] wire.type = "PublicKey"   -> PibPublicKeyDecode(wire)
    [] wire.type = "Certificate" -> PibCertificateDecode(wire)
    [] wire.type = "User"        -> PibUserDecode(wire)
    [] OTHER -> DecodeError

\* mutant: not in the reverse order, although a block is built from its end
UpdateParamEncode_AsRead(entity, opt) == Block("UpdateParam", <<Block("DefaultOpt", opt), entity>>)
UpdateParamEncode(entity, opt) == Block("UpdateParam", <<entity, Block("DefaultOpt", opt)>>)

\* mutant: an option that is missing is taken for DEFAULT_OPT_NO
UpdateParamDecode_NoOption(wire) ==
  IF wire.type # "UpdateParam" \/ wire.value = << >> THEN DecodeError
  ELSE [entityType |-> wire.value[1].type, entity |-> EntityDecode(wire.value[1]),
        defaultOpt |-> IF Has(wire, 2, "DefaultOpt") THEN wire.value[2].value ELSE 0]
UpdateParamDecode(wire) ==
  IF /\ wire.type = "UpdateParam" /\ Len(wire.value) = 2
     /\ EntityDecode(wire.value[1]) # DecodeError /\ Has(wire, 2, "DefaultOpt")
  THEN [entityType |-> wire.value[1].type, entity |-> EntityDecode(wire.value[1]),
        defaultOpt |-> wire.value[2].value]
  ELSE DecodeError
=============================================================================
