SPECIFICATION Spec
CONSTANTS
  u1 = u1
  u2 = u2
  u3 = u3
  c1 = c1
  a1 = a1
  a2 = a2
  m1 = m1
  m2 = m2
  Urls <- MCUrls
  Collections = {c1}
  DirectLinks <- MCDirect
  CollectionLinks = {c1}
  Members <- MCMembers
  NoCollectionId = {}
  Assets = {a1, a2}
  AssetsOf <- MCAssetsOf
  Mets = {m1, m2}
  MetKind <- MCMetKinds
  MaxReceives = 2
  TriggerFailures = {}
CHECK_DEADLOCK FALSE
INVARIANTS MetadataIsValid
