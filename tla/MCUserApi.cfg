CONSTANTS
  Request = {r1, r2, r3}
  Queries <- MCQueries
  Tester = r1
  Structs <- MCStructs
  TestForms <- MCTestForms
  Nothing = Nothing
SPECIFICATION FairSpec
INVARIANTS
  GeneratorMeans
PROPERTIES
  UsersRefined
  EveryRequestIsAnswered
CHECK_DEADLOCK FALSE
