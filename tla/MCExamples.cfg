CONSTANTS
  Visitor = {v1, v2, v3}
  Title = {"x", "y"}
  Database = {"mysql", "gorm", "mongodb"}
  Bad = Bad
  MaxVisits = 1
  MaxLost = 1
  Reader = {r1, r2}
  MaxIndex = 3
  MaxLoads = 4
  Words = 3
  Monitor = {"site", "timings", "metrics", "prometheus", "expvars"}
  Hit = {h1, h2, h3}
  Sleeps = {0, 49}
  Segment <- MCSegment
  Lists <- MCLists
  Headers <- MCHeaders
  Calls <- MCCalls
  Types <- MCTypes
  Data <- MCData
  depth <- MCDepth
  Schemas <- MCSchemas
  Bodies <- MCBodies
  Paths <- MCPaths
  Numerals <- MCNumerals
  MaxRows = 2
  MaxId = 3
SPECIFICATION Spec
INVARIANTS
  WordsComeBack
  RequestsAreCounted
  FilledIfItFits
  AuthDecides
PROPERTIES
  RowsAreTheirOwn
  VersionCoversConfig
  
  
CHECK_DEADLOCK FALSE
