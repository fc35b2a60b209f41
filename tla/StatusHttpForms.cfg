SPECIFICATION FairHttpSpec
CONSTANTS
  t1 = t1
  t2 = t2
  c1 = c1
  Clients = {c1}
  Groups <- TwoGroups
  HttpRequests <- AllRequests
  Size = 2
  ByteWidth = 2
  MaxLists = 2
  MaxExchanges = 2
  Commands <- EveryCommand
  Doers <- MCDoers
  Required = Required
  None = None
INVARIANTS HttpTypeOK HttpInv DocumentedForms ResultsAreTrue
PROPERTIES EveryExchangeEnds
