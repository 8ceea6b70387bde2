SPECIFICATION Spec
CONSTANTS
  user = user
  algorithm = algorithm
  admin = admin
  exact = exact
  general = general
  daac1 = daac1
  daac2 = daac2
  Groups = {user, algorithm}
  UserGroups = {user, algorithm}
  AlgorithmGroup = algorithm
  AdminGroups = {admin}
  Callers <- MCCallers
  NameLength = 2
  Sources <- MCPatterns
  Targets <- MCPatterns
  Daacs = {daac1, daac2}
  SourceMatches <- MCSourceMatches
  SourceCloseness <- MCSourceCloseness
  TargetMatches <- MCTargetMatches
  TargetCloseness <- MCTargetCloseness
  Position <- MCPosition
  MaxRows = 3
  MaxChanges = 1
INVARIANTS
  TypeOK
  UndisturbedDecisionFollowsRule
  GrantRestsOnLiveRows
PROPERTIES
  AgreementsChangeByRight
CHECK_DEADLOCK FALSE
