SPECIFICATION SpecOpenLists
CONSTANTS
  w1 = w1
  w2 = w2
  w3 = w3
  t1 = t1
  t2 = t2
  s1 = s1
  None = None
  Workers = {w1, w2, w3}
  Tenants = {t1, t2}
  Signers = {s1}
  Types = {"", "StatusList2021"}
  Purposes = {"", "revocation"}
  Requests <- OneRequest
  Revocations <- FirstEntry
  ListSize <- OneByte
  ByteWidth = 2
  MaxConns = 2
  MaxCalls = 4
PROPERTIES EveryCallReturns
