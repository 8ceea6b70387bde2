SPECIFICATION Spec
CONSTANTS
  data = data
  metadata = metadata
  browse = browse
  h5 = h5
  xml = xml
  AssetCount = 4
  NameOf <- MCNameOf
  Linked = {1, 2, 4}
  RoleOf <- MCRoleOf
  EndingsOf <- MCEndingsOf
  Described = {1, 2, 3}
  Agreements <- MCAgreements
  NoTypes = NoTypes
  SkipStaging = FALSE
  MaxRuns = 2
CHECK_DEADLOCK FALSE
INVARIANTS MessageNamesStagedCopy
