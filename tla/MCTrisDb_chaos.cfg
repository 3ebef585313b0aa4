CONSTANTS
  tcp = tcp
  uds = uds
  main_thread = main_thread
  a = a
  star = star
  Terms <- MCTerms
  Wildcard = star
  Universe <- MCNothing
  MaxCopies = 1
  Servers <- MCOneServer
  Callers <- MCTwoCallers
  Main = main_thread
  MaxStatements = 1
  Statements = {"read", "write", "quit", "invalid"}
  Faults = {"crash", "bind", "slow", "disk"}
SPECIFICATION FairSpec
PROPERTIES
  ShutdownCompletes
