SPECIFICATION SpecEitherWay
CONSTANTS
  w1 = w1
  w2 = w2
  w3 = w3
  t1 = t1
  t2 = t2
  s1 = s1
  None = None
  Workers = {w1, w2, w3}
  Tenants = {t1, t2}
  Signers = {s1}
  Types = {"", "StatusList2021"}
  Purposes = {"", "revocation"}
  Requests <- OneGroup
  Revocations <- SomeEntries
  ListSize <- OneByte
  ByteWidth = 2
  MaxConns = 3
  MaxCalls = 4
SYMMETRY SymmetricWorkers
INVARIANTS TypeOK UniqueEntries RevocationsExact BoundedFragmentation NoLockCycle LocksInOrder ConnectionsApart
