------------------------ MODULE StatusRevocationProofs ------------------------
(***************************************************************************)
(* Proofs about the revocations of StatusStore, from the invariant of      *)
(* StatusStoreProofs: the bits of the rows are those of the committed      *)
(* revocations, and rows only grow.                                        *)
(***************************************************************************)
EXTENDS StatusStoreProofs

(* What others see changes only when a transaction commits.                *)
LEMMA OnlyCommitsWrite ==
  ASSUME [Next]_vars
  PROVE  \/ UNCHANGED <<rows, granted, revoked, acked>>
         \/ \E u \in Workers : CommitAllocate(u) \/ CommitRevoke(u)
<1>1. ASSUME NEW u \in Workers, Error(u)
      PROVE  UNCHANGED <<rows, granted, revoked, acked>>
  BY <1>1 DEF Error, store, history
<1>2. ASSUME NEW u \in Workers, Allocate(u), ~CommitAllocate(u)
      PROVE  UNCHANGED <<rows, granted, revoked, acked>>
  BY <1>2, <1>1 DEF Allocate, SelectCandidates, Lock, LockOpenList,
     SkipFullList, InsertList, RefuseInsert, SetStatusUrl, UpdateList,
     store, history
<1>3. ASSUME NEW u \in Workers, Revoke(u), ~CommitRevoke(u)
      PROVE  UNCHANGED <<rows, granted, revoked, acked>>
  BY <1>3, <1>1 DEF Revoke, RevokeNotFound, LockRevoked, RevokePanic,
     RevokeEntry, store, history
<1>4. ASSUME NEW u \in Workers,
             InvokeAllocate(u) \/ InvokeRevoke(u) \/ BeginTx(u) \/ Fail(u)
      PROVE  UNCHANGED <<rows, granted, revoked, acked>>
  BY <1>4, <1>1 DEF InvokeAllocate, InvokeRevoke, Invoke, BeginTx, Fail,
     store, history
<1>5. CASE UNCHANGED vars
  BY <1>5 DEF vars, store, history
<1> QED
  BY <1>2, <1>3, <1>4, <1>5 DEF Next, Step, Quiesced

(* An index that does not panic is an entry of the list, or one that       *)
(* truncation maps to its first byte.                                      *)
LEMMA InBoundsCases ==
  ASSUME NEW bytes \in Seq(Byte), NEW i \in Int, InBounds(bytes, i)
  PROVE  \/ i \in 0 .. BitLen(bytes) - 1
         \/ bytes # <<>> /\ -ByteWidth < i /\ i < 0
<1>1. Len(bytes) \in Nat /\ ByteWidth \in Nat \ {0}
  BY ByteWidthAssumption
<1>2. Quo(i) \in 0 .. Len(bytes) - 1
  BY <1>1 DEF InBounds, Quo
<1>3. CASE i >= 0
  <2>1. i \div ByteWidth <= Len(bytes) - 1
    BY <1>2, <1>3 DEF Quo
  <2>2. i < Len(bytes) * ByteWidth
    BY <1>1, <1>3, <2>1
  <2> QED
    BY <1>1, <1>3, <2>2 DEF BitLen
<1>4. CASE i < 0
  <2>1. (-i) \div ByteWidth = 0
    BY <1>1, <1>2, <1>4 DEF Quo
  <2>2. -ByteWidth < i
    BY <1>1, <1>4, <2>1
  <2> QED
    BY <1>1, <1>2, <1>4, <2>2
<1> QED
  BY <1>3, <1>4

(* A revocation sets the bit of its entry, when the list has that entry.   *)
LEMMA RevocationSets ==
  ASSUME NEW x \in Row, NEW i \in Int, InBounds(x.bits, i)
  PROVE  LET y == WithRevocation(x, RevokeAtIndex(x.bits, i)) IN
         /\ BitLen(y.bits) = BitLen(x.bits)
         /\ RevokedIn(y) = RevokedIn(x) \cup ({i} \cap (0 .. BitLen(x.bits) - 1))
<1> DEFINE y == WithRevocation(x, RevokeAtIndex(x.bits, i))
<1>1. x.bits \in Seq(Byte) /\ y.bits = RevokeAtIndex(x.bits, i)
  BY DEF Row, WithRevocation
<1>2. BitLen(y.bits) = BitLen(x.bits)
  BY <1>1, RevokeAtIndexType
<1>3. CASE i \in 0 .. BitLen(x.bits) - 1
  <2>1. \A j \in 0 .. BitLen(x.bits) - 1 :
          CheckBitAtIndex(y.bits, j) <=> CheckBitAtIndex(x.bits, j) \/ j = i
    BY <1>1, <1>3, RevokeSetsOneEntry
  <2> QED
    BY <1>2, <1>3, <2>1 DEF RevokedIn
<1>4. CASE x.bits # <<>> /\ -ByteWidth < i /\ i < 0
  <2>1. y.bits = x.bits
    BY <1>1, <1>4, NegativeRevokeIsLost
  <2> QED
    BY <1>4, <2>1 DEF RevokedIn
<1> QED
  BY <1>1, <1>3, <1>4, InBoundsCases

(* A fresh list has no bit that is 1.                                      *)
LEMMA NothingRevokedAtFirst ==
  ASSUME NEW size \in Nat, NEW x, x.bits = NewBytes(size)
  PROVE  RevokedIn(x) = {}
<1> SUFFICES ASSUME NEW i \in 0 .. BitLen(x.bits) - 1
             PROVE  ~CheckBitAtIndex(x.bits, i)
  BY DEF RevokedIn
<1>1. x.bits \in Seq(Byte) /\ Len(x.bits) = size
  BY NewBytesType
<1>2. Quo(i) + 1 \in 1 .. size
  BY <1>1, EntryInBounds DEF InBounds
<1> QED
  BY <1>2 DEF CheckBitAtIndex, NewBytes

-------------------------------------------------------------------------------
(* The two commits.                                                        *)

(* A committed allocation inserts a row without revocations, or moves the  *)
(* counter of the row that is there now.                                   *)
LEMMA AllocationCommitted ==
  ASSUME StoreInv, NEW u \in Workers, CommitAllocate(u)
  PROVE  LET l == listId[u] IN
         /\ rows' = [m \in DOMAIN rows \cup {l} |-> IF m = l THEN row[u] ELSE rows[m]]
         /\ revoked' = revoked
         /\ \/ l \notin DOMAIN rows /\ RevokedIn(row[u]) = {}
            \/ /\ l \in DOMAIN rows
               /\ row[u] = WithEntry(rows[l], rows[l].bits, rows[l].next, call[u].expires)
               /\ call[u].expires \in Nat
<1>1. pc[u] = "commitAllocate" /\ Commit(u) /\ UNCHANGED revoked
  BY DEF CommitAllocate
<1>2. AllocationOK(u) /\ call[u] \in Requests
  BY <1>1 DEF StoreInv, WorkersOK, CallOK, Allocating
<1>3. CASE Inserted(u)
  <2>1. row[u] = WithUrl(FirstRow(u), listId[u]) /\ ListSize[u] \in Nat
    BY <1>1, <1>2, <1>3, StoreAssumption DEF AllocationOK, InsertedOK
  <2>2. row[u].bits = NewBytes(ListSize[u])
    BY <2>1 DEF WithUrl, FirstRow, NewRow, NewList
  <2>3. RevokedIn(row[u]) = {}
    BY <2>1, <2>2, NothingRevokedAtFirst
  <2> QED
    BY <1>1, <1>3, <2>3 DEF Commit, Inserted
<1>4. CASE ~Inserted(u)
  <2>1. TakenOK(u)
    BY <1>1, <1>2, <1>4 DEF AllocationOK
  <2>2. call[u].expires \in Nat
    BY <1>2, StoreAssumption DEF Request
  <2> QED
    BY <1>1, <2>1, <2>2 DEF Commit, TakenOK, Locked
<1> QED
  BY <1>3, <1>4

(* A committed revocation sets one bit of the row that is there now.       *)
LEMMA RevocationCommitted ==
  ASSUME StoreInv, NEW u \in Workers, CommitRevoke(u)
  PROVE  LET l == listId[u]
             i == call[u].index IN
         /\ l \in DOMAIN rows /\ i \in Int /\ InBounds(rows[l].bits, i)
         /\ rows' = [rows EXCEPT ![l] =
                       WithRevocation(rows[l], RevokeAtIndex(rows[l].bits, i))]
         /\ revoked' = revoked \cup {<<l, i>>}
<1>1. /\ pc[u] = "commitRevoke" /\ Commit(u)
      /\ revoked' = revoked \cup {<<listId[u], call[u].index>>}
  BY DEF CommitRevoke
<1>2. RevocationOK(u) /\ call[u] \in Revocations
  BY <1>1 DEF StoreInv, WorkersOK, CallOK, Revoking
<1>3. listId[u] \in DOMAIN rows
  BY <1>1, <1>2 DEF RevocationOK, Locked
<1>4. call[u].index \in Int
  BY <1>2, StoreAssumption DEF Revocation
<1>5. /\ InBounds(rows[listId[u]].bits, call[u].index)
      /\ row[u] = WithRevocation(rows[listId[u]],
                     RevokeAtIndex(rows[listId[u]].bits, call[u].index))
  BY <1>1, <1>2 DEF RevocationOK
<1>6. rows = [m \in DOMAIN rows |-> rows[m]]
  BY DEF StoreInv, TypeOK
<1> QED
  BY <1>1, <1>3, <1>4, <1>5, <1>6 DEF Commit

LEMMA RowType ==
  ASSUME StoreInv, NEW l \in DOMAIN rows
  PROVE  rows[l] \in Row
  BY DEF StoreInv, TypeOK

LEMMA EntryGrows ==
  ASSUME NEW x \in Row, NEW e \in Nat
  PROVE  LET y == WithEntry(x, x.bits, x.next, e) IN
         RowGrows(x, y) /\ RevokedIn(y) = RevokedIn(x) /\ y.bits = x.bits
  BY DEF WithEntry, RowGrows, RevokedIn, Row

LEMMA RevocationGrows ==
  ASSUME NEW x \in Row, NEW i \in Int, InBounds(x.bits, i)
  PROVE  RowGrows(x, WithRevocation(x, RevokeAtIndex(x.bits, i)))
<1> DEFINE y == WithRevocation(x, RevokeAtIndex(x.bits, i))
<1>1. RevokedIn(x) \subseteq RevokedIn(y)
  BY RevocationSets
<1>2. /\ y.version = x.version + 1
      /\ <<x.tenant, x.signer, x.type, x.purpose>> = <<y.tenant, y.signer, y.type, y.purpose>>
      /\ x.url = y.url /\ x.capacity = y.capacity
      /\ x.next = y.next /\ x.expires = y.expires
      /\ x.next \in Nat /\ x.expires \in Nat
  BY DEF WithRevocation, Row
<1>3. x.next <= y.next /\ x.expires <= y.expires
  BY <1>2
<1> QED
  BY <1>1, <1>2, <1>3 DEF RowGrows

-------------------------------------------------------------------------------
(* No committed row is lost, and what a row says never goes back.          *)
THEOREM ListsGrow == Spec => ListsOnlyGrow
<1> DEFINE Grow ==
      \A l \in DOMAIN rows : l \in DOMAIN rows' /\ RowGrows(rows[l], rows'[l])
<1>1. ASSUME NEW x \in Row
      PROVE  RowGrows(x, x)
  BY DEF RowGrows, Row
<1>2. ASSUME StoreInv, [Next]_vars
      PROVE  Grow
  <2>1. CASE UNCHANGED <<rows, revoked>>
    BY <1>1, <1>2, <2>1, RowType
  <2>2. ASSUME NEW u \in Workers, CommitAllocate(u)
        PROVE  Grow
    <3> SUFFICES ASSUME NEW l \in DOMAIN rows
                 PROVE  l \in DOMAIN rows' /\ RowGrows(rows[l], rows'[l])
      OBVIOUS
    <3>1. rows[l] \in Row
      BY <1>2, RowType
    <3>2. /\ rows' = [m \in DOMAIN rows \cup {listId[u]} |->
                        IF m = listId[u] THEN row[u] ELSE rows[m]]
          /\ \/ listId[u] \notin DOMAIN rows
             \/ /\ row[u] = WithEntry(rows[listId[u]], rows[listId[u]].bits,
                                      rows[listId[u]].next, call[u].expires)
                /\ call[u].expires \in Nat
      BY <1>2, <2>2, AllocationCommitted
    <3>3. /\ l \in DOMAIN rows'
          /\ rows'[l] = IF l = listId[u] THEN row[u] ELSE rows[l]
      BY <3>2
    <3>4. CASE l # listId[u]
      BY <1>1, <3>1, <3>3, <3>4
    <3>5. CASE l = listId[u]
      <4> DEFINE y == WithEntry(rows[l], rows[l].bits, rows[l].next, call[u].expires)
      <4>1. rows'[l] = y /\ call[u].expires \in Nat
        BY <3>2, <3>3, <3>5
      <4>2. RowGrows(rows[l], y)
        BY <3>1, <4>1, EntryGrows
      <4> QED
        BY <3>3, <4>1, <4>2
    <3> QED
      BY <3>4, <3>5
  <2>3. ASSUME NEW u \in Workers, CommitRevoke(u)
        PROVE  Grow
    <3> SUFFICES ASSUME NEW l \in DOMAIN rows
                 PROVE  l \in DOMAIN rows' /\ RowGrows(rows[l], rows'[l])
      OBVIOUS
    <3>1. rows[l] \in Row
      BY <1>2, RowType
    <3>2. CASE l # listId[u]
      BY <1>1, <1>2, <2>3, <3>1, <3>2, RevocationCommitted
    <3>3. CASE l = listId[u]
      BY <1>2, <2>3, <3>1, <3>3, RevocationCommitted, RevocationGrows
    <3> QED
      BY <3>2, <3>3
  <2> QED
    BY <1>2, <2>1, <2>2, <2>3, OnlyCommitsWrite
<1> QED
  BY <1>2, StoreInvariant, PTL DEF Spec, ListsOnlyGrow

-------------------------------------------------------------------------------
(* Every committed revocation is of a committed list.                      *)
RevokedLists == revoked \subseteq (DOMAIN rows) \X Int

RevocationInv == RevocationsExact /\ RevokedLists

(* The bits of row x of list l are the revocations in r.                   *)
Exact(l, x, r) ==
  RevokedIn(x) = {i \in 0 .. BitLen(x.bits) - 1 : <<l, i>> \in r}

LEMMA RevocationStep ==
  ASSUME StoreInv, RevocationInv, [Next]_vars
  PROVE  RevocationInv'
<1>1. \A l \in DOMAIN rows : rows[l] \in Row /\ Exact(l, rows[l], revoked)
  BY RowType DEF RevocationInv, RevocationsExact, Exact
<1>2. ASSUME RevokedLists',
             \A l \in DOMAIN rows' : Exact(l, rows'[l], revoked')
      PROVE  RevocationInv'
  BY <1>2 DEF RevocationInv, RevocationsExact, Exact, RevokedIn
<1>3. CASE UNCHANGED <<rows, revoked>>
  BY <1>1, <1>2, <1>3 DEF RevocationInv, RevokedLists
<1>4. ASSUME NEW u \in Workers, CommitAllocate(u)
      PROVE  RevocationInv'
  <2>1. /\ rows' = [m \in DOMAIN rows \cup {listId[u]} |->
                      IF m = listId[u] THEN row[u] ELSE rows[m]]
        /\ revoked' = revoked
        /\ \/ listId[u] \notin DOMAIN rows /\ RevokedIn(row[u]) = {}
           \/ /\ listId[u] \in DOMAIN rows
              /\ row[u] = WithEntry(rows[listId[u]], rows[listId[u]].bits,
                                    rows[listId[u]].next, call[u].expires)
              /\ call[u].expires \in Nat
    BY <1>4, AllocationCommitted
  <2>2. /\ DOMAIN rows' = DOMAIN rows \cup {listId[u]}
        /\ rows'[listId[u]] = row[u]
        /\ \A m \in DOMAIN rows : m # listId[u] => rows'[m] = rows[m]
    BY <2>1
  <2>3. RevokedLists'
    BY <2>1, <2>2 DEF RevocationInv, RevokedLists
  <2>4. Exact(listId[u], row[u], revoked)
    <3>1. CASE listId[u] \notin DOMAIN rows /\ RevokedIn(row[u]) = {}
      <4>1. \A i : <<listId[u], i>> \notin revoked
        BY <3>1 DEF RevocationInv, RevokedLists
      <4> QED
        BY <3>1, <4>1 DEF Exact
    <3>2. CASE /\ listId[u] \in DOMAIN rows
               /\ row[u] = WithEntry(rows[listId[u]], rows[listId[u]].bits,
                                     rows[listId[u]].next, call[u].expires)
               /\ call[u].expires \in Nat
      <4>1. /\ rows[listId[u]] \in Row
            /\ Exact(listId[u], rows[listId[u]], revoked)
        BY <1>1, <3>2
      <4>2. /\ RevokedIn(row[u]) = RevokedIn(rows[listId[u]])
            /\ row[u].bits = rows[listId[u]].bits
        BY <3>2, <4>1, EntryGrows
      <4> QED
        BY <4>1, <4>2 DEF Exact
    <3> QED
      BY <2>1, <3>1, <3>2
  <2>5. \A l \in DOMAIN rows' : Exact(l, rows'[l], revoked')
    <3> SUFFICES ASSUME NEW l \in DOMAIN rows'
                 PROVE  Exact(l, rows'[l], revoked')
      OBVIOUS
    <3>1. CASE l = listId[u]
      BY <2>1, <2>2, <2>4, <3>1
    <3>2. CASE l # listId[u]
      BY <1>1, <2>1, <2>2, <3>2
    <3> QED
      BY <3>1, <3>2
  <2> QED
    BY <1>2, <2>3, <2>5
<1>5. ASSUME NEW u \in Workers, CommitRevoke(u)
      PROVE  RevocationInv'
  <2> DEFINE l == listId[u]
             i == call[u].index
             x == rows[l]
             y == WithRevocation(x, RevokeAtIndex(x.bits, i))
  <2>1. /\ l \in DOMAIN rows /\ i \in Int /\ InBounds(x.bits, i)
        /\ rows' = [rows EXCEPT ![l] = y]
        /\ revoked' = revoked \cup {<<l, i>>}
    BY <1>5, RevocationCommitted
  <2>2. RevokedLists'
    BY <2>1 DEF RevocationInv, RevokedLists
  <2>3. /\ BitLen(y.bits) = BitLen(x.bits)
        /\ RevokedIn(y) = RevokedIn(x) \cup ({i} \cap (0 .. BitLen(x.bits) - 1))
    BY <1>1, <2>1, RevocationSets
  <2> HIDE DEF y, i
  <2>4. Exact(l, y, revoked')
    BY <1>1, <2>1, <2>3 DEF Exact
  <2>5. ASSUME NEW m \in DOMAIN rows, m # l
        PROVE  Exact(m, rows[m], revoked')
    BY <1>1, <2>1, <2>5 DEF Exact
  <2> QED
    BY <1>2, <2>1, <2>2, <2>4, <2>5
<1> QED
  BY <1>3, <1>4, <1>5, OnlyCommitsWrite

(* In every row the bits that are 1 are the entries whose revocation was   *)
(* committed: no allocation and no other revocation erases one.            *)
THEOREM RevocationsAreExact == Spec => []RevocationsExact
<1>1. Init => RevocationInv
  BY DEF Init, RevocationInv, RevocationsExact, RevokedLists
<1>2. RevocationInv => RevocationsExact
  BY DEF RevocationInv
<1> QED
  BY <1>1, <1>2, RevocationStep, StoreInvariant, PTL DEF Spec

===============================================================================
