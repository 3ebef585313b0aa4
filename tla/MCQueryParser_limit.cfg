CONSTANTS
  sp = sp
  qt = qt
  star = star
  LIMIT = LIMIT
  limit = limit
  a = a
  five = five
  seven = seven
  get = get
  create = create
  count = count
  Space = sp
  Quote = qt
  Star = star
  UpperLimit = LIMIT
  LowerLimit = limit
  Names = {a}
  Numerals = {five, seven}
  atoi <- MCNumbers
  to_upper <- MCWords
  Texts <- MCTexts
SPECIFICATION Spec
CHECK_DEADLOCK FALSE
PROPERTIES
  QueryIsOfStatement
