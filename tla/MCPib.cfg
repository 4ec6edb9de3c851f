SPECIFICATION Spec
CONSTANTS
  r = r  m = m
  kn = kn  kr = kr  km = km
  c1 = c1  c2 = c2  cm = cm
  b1 = b1  b2 = b2
  NoKey = NoKey
  NON_EXISTING_IDENTITY = none
  NON_EXISTING_KEY = kn
  NON_EXISTING_CERTIFICATE = none
  Identities = {r, m}
  KeyNames = {kn, kr, km}
  CertNames = {c1, c2, cm}
  KeyBits = {b1, b2}
  IdentityOf <- IdentityOfKey
  KeyOf <- KeyOfCert
  MgmtCerts = {mgmt1, mgmt2}
  mgmt1 = mgmt1  mgmt2 = mgmt2
  MgmtId = m
  Reserved = {m, km}
  Below <- BelowId
  Prefixes = {"kn", "km"}
  PrefixOf <- PrefixOfCert
  Opts = {0, 1, 2, 3, 4, 5, 6, 7}
  Capacity = 2
  TpmLocator = "tpm-file"
INVARIANTS
  TypeOK
  TablesSound
  ValidatorCurrent
  PublishedStored
  ListedIsFound
  DefaultsResolve
  CommandsDecoded
PROPERTIES
  ReadsOwnWrites
  DefaultsKept
SYMMETRY Symmetry
