CONSTANTS
  c1 = c1
  c2 = c2
  c3 = c3
  Clients <- MCClients
  MaxRequests <- MCMaxRequests
  Window <- MCWindow
  MaxOpen = 2
SPECIFICATION FairSpec
CHECK_DEADLOCK FALSE
INVARIANTS
  TypeOK
  CountIsOpen
  OneOperation
  AtMostOneUnanswered
PROPERTIES
  KeepsConversation
  RequestsEnd
  SessionsEnd
  BacklogEnds
