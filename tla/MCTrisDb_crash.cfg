CONSTANTS
  tcp = tcp
  uds = uds
  main_thread = main_thread
  a = a
  star = star
  Terms <- MCTerms
  Wildcard = star
  Universe <- MCUniverse
  MaxCopies = 1
  Servers <- MCServers
  Callers <- MCCallers
  Main = main_thread
  MaxStatements = 2
  Statements = {"read", "write", "save", "quit", "invalid"}
  Faults = {"crash", "bind"}
SPECIFICATION FairSpec
INVARIANTS
  TypeOK
  CleanMeansSaved
  ExitKeepsData
PROPERTIES
  SaveIsSnapshot
  KeepsPromises
  ShutdownSaves
