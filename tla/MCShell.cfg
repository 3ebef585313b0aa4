CONSTANTS
  Base = 2
  Messages <- MCMessages
  MaxStatements = 3
  Window = 4
SPECIFICATION FairSpec
CHECK_DEADLOCK FALSE
INVARIANTS
  TypeOK
  MessagesKept
  ResultBelongs
PROPERTIES
  MessagesArrive
  PromptReturns
