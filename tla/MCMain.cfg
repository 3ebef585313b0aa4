CONSTANTS
  Lines <- MCLines
  MaxLines = 3
  toLower <- MCtoLower
  atoi <- MCatoi
  Defaults <- MCDefaults
  Paths <- MCPaths
  Named <- MCNamed
  Numbers <- MCNumbers
  to_string <- MCto_string
  Sockets <- MCSockets
  Loose <- MCLoose
  MaxLoose = 3
  MaxOptions = 3
SPECIFICATION MainSpec
CHECK_DEADLOCK FALSE
INVARIANTS
  TypeOK
  WholeFileOrDefaults
  ErrorNamesItsLine
PROPERTIES
  CommandLineObeyed
  StartEnds
