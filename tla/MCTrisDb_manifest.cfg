CONSTANTS
  tcp = tcp
  uds = uds
  main_thread = main_thread
  a = a
  star = star
  Terms <- MCTerms
  Wildcard = star
  Universe <- MCUniverse
  MaxCopies = 1
  Servers <- MCServers
  Callers <- MCCallers
  Main = main_thread
  MaxStatements = 1
  Statements = {"read", "write", "save"}
  Faults = {"crash"}
SPECIFICATION Spec
INVARIANTS
  ManifestMeansDatabase
