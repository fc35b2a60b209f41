SPECIFICATION SpecShared
CONSTANTS
  t1 = t1
  t2 = t2
  c1 = c1
  v1 = v1
  v2 = v2
  j1 = j1
  j2 = j2
  j3 = j3
  s1 = s1
  s2 = s2
  p1 = p1
  Clients = {v1}
  Verifiers = {v1}
  Groups <- TwoGroups
  GroupOf <- OwnTenants
  Jobs = {j1, j2}
  MaxAttempts <- FirstAsksTwice
  HttpRequests <- NoRequests
  VerifyTypes = {"statuslist+jwt"}
  Indexes <- AnyIndex
  Subscribers = {s1, s2}
  Publishers <- NoPublishers
  Published <- MCPublished
  Size = 2
  ByteWidth = 2
  MaxLists = 3
  MaxExchanges = 0
  None = None
SYMMETRY SymmetricReplicas
INVARIANTS HeldEntries MessagingInv
PROPERTIES ImplementsPromise
