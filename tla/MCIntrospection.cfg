\* Two objects under any of eight paths; interfaces and methods are added meanwhile.
CONSTANTS
  Objects = {a, b}
  Paths <- MCPaths
  Interfaces = {"Properties", "I"}
  Methods <- MCMethods
  MethodName = {"m"}
  Absent = Absent
  MaxAdded = 1
SPECIFICATION WalkSpec
INVARIANTS WalkFindsEverything LeadsSomewhere DescriptionStaysTrue
CHECK_DEADLOCK FALSE
