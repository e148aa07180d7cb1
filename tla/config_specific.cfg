SPECIFICATION MCSpec
CONSTANTS
  Parts = {"config"}
  Star = 1
  Dot = 2
  NoContext = NoContext
  None = None
  Contexts <- MCContexts
  Offsets <- MCOffsets
  Paths <- MCPaths
  MaxWrites = 3
  Nodes <- MCNodes
  Root = "a"
  Kids <- MCKids
  PathOf <- MCPathOf
  Types = {"base", "variant"}
  Requested = "base"
  PortsOf <- MCPortsOf
  Overridable <- MCOverridable
  MaxOverrides = 2
  MaxPublished = 2
  MaxConnects = 4
INVARIANTS
  MostSpecificWins
