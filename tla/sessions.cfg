SPECIFICATION FairSpec
CONSTANTS
  None = None
  Client = {1, 2}
  Process = {p, q}
  Headers <- MCHeaders
  Tokens = {"ours"}
  MaxAsk = 2
  MaxFault = 1
INVARIANTS
  SourcesApart
  
PROPERTIES
  ExchangeSpec
  Served
CHECK_DEADLOCK FALSE
