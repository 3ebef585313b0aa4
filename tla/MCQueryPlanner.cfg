CONSTANTS
  a = a
  b = b
  star = star
  Terms <- MCTerms
  Wildcard = star
  Universe <- MCUniverse
  MaxCopies = 2
  Limits <- MCLimits
  Text <- MCText
  Unwritten <- MCUnwritten
  SizeBytes = 2
SPECIFICATION Spec
INVARIANTS
  TypeOK
  IndexesAgree
  SavedIsLoaded
  
PROPERTIES
  RefinesStore
\* QUIT ends the process.
CHECK_DEADLOCK FALSE
