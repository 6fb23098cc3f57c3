SPECIFICATION MCSpec
CONSTANTS
  Caller = {a, b, c}
  Document = {d1, d2}
  d1 = d1
  d2 = d2
  Names <- SomeNames
  Config <- SomeConfigs
  HasIssuer = TRUE
  Down = down
  NoDoc = nodoc
  NoCaller = nobody
  AnyText <- ShortTexts
  RoleText <- SomeRoles
  RoleList <- SomeLists
  Lower <- SomeLower
  Letters <- SomeLetters
  PathText <- SomePaths
  User = {u1, u2}
  NoLayer = nolayer
CONSTRAINT LayerOrProvider
INVARIANTS
  OneDocument
  UndiscoveredOnlyIfDown
  RolesAsWritten
  LayersAgree
  OnlyHoldersPass
  GuardsAreLayers
PROPERTIES
  ImplementsEndpoints
  EveryCallerEnds
  OutagesEnd
