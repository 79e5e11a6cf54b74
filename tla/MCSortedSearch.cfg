SPECIFICATION FairSearch
CONSTANTS
  Numbers <- MCNumbers
  MaxTop = 6
  Searches <- AllSearches
INVARIANTS
  SearchTypeOK
  FindsEqual
  FindsNext
  FindsLast
PROPERTIES
  Returns
