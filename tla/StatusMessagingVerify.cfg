SPECIFICATION SpecHolding
CONSTANTS
  t1 = t1
  t2 = t2
  c1 = c1
  v1 = v1
  v2 = v2
  j1 = j1
  j2 = j2
  j3 = j3
  s1 = s1
  s2 = s2
  p1 = p1
  Clients = {c1, v1, v2}
  Verifiers = {v1, v2}
  Groups <- TwoGroups
  GroupOf <- OwnTenants
  Jobs = {j1, j3}
  MaxAttempts <- AskOnce
  HttpRequests <- OnlyRevoke
  VerifyTypes = {"statuslist+jwt", "StatusList2021"}
  Indexes <- AnyIndex
  Subscribers = {s1}
  Publishers <- OnePublisher
  Published <- MCPublished
  Size = 1
  ByteWidth = 2
  MaxLists = 2
  MaxExchanges = 3
  None = None
INVARIANTS MessagingTypeOK MessagingInv VerdictIsTrue ListAnswerIsTrue
PROPERTIES OnlyOthersDelay KeepsPromise
