SPECIFICATION HttpSpec
CONSTANTS
  t1 = t1
  t2 = t2
  c1 = c1
  Clients = {c1}
  Groups <- OneGroup
  HttpRequests <- EveryRequest
  Size = 2
  ByteWidth = 2
  MaxLists = 1
  MaxExchanges = 1
  Commands <- NoCommands
  Doers <- MCDoers
  Required = Required
  None = None
INVARIANTS NoEmptySuccess
