SPECIFICATION Spec
CONSTANTS
  t1 = t1
  t2 = t2
  c1 = c1
  v1 = v1
  v2 = v2
  j1 = j1
  j2 = j2
  j3 = j3
  s1 = s1
  s2 = s2
  p1 = p1
  Clients = {c1, v1}
  Verifiers = {v1}
  Groups <- OneGroup
  GroupOf <- SameTenant
  Jobs = {j1}
  MaxAttempts <- AskOnce
  HttpRequests <- NoRequests
  VerifyTypes = {"StatusList2021", "statuslist+jwt"}
  Indexes <- AnyIndex
  Subscribers = {s1}
  Publishers <- NoPublishers
  Published <- MCPublished
  Size = 1
  ByteWidth = 1
  MaxLists = 1
  MaxExchanges = 1
  None = None
INVARIANTS ListNamesItsUrl
