--------------------------- MODULE StatusStoreProofs ---------------------------
(***************************************************************************)
(* Proofs about StatusStore for any number of workers, connections and     *)
(* calls, any requests and list sizes: StoreInv is inductive, and with it  *)
(* the invariants it names hold of Spec.                                   *)
(***************************************************************************)
EXTENDS StatusStoreInvariant, StatusListProofs

-------------------------------------------------------------------------------
(* The rows that the statements write.                                     *)

(* The row an INSERT creates, before and after its URL is set.             *)
LEMMA NewRowType ==
  ASSUME NEW r \in Requests, NEW size \in Nat, NEW l \in Nat
  PROVE  /\ NewRow(r, NewList(size), 0) \in Row
         /\ WithUrl(NewRow(r, NewList(size), 0), l) \in Row
<1>1. r \in Request
  BY StoreAssumption
<1>2. StatusType(r) \in Types /\ Purpose(r) \in Purposes
  BY <1>1, StoreAssumption DEF StatusType, Purpose, Request
<1>3. NewBytes(size) \in Seq(Byte) /\ BitLen(NewBytes(size)) \in Nat
  BY NewBytesType
<1>4. NewRow(r, NewList(size), 0) \in Row
  BY <1>1, <1>2, <1>3 DEF NewRow, NewList, Row, Request
<1>5. WithUrl(NewRow(r, NewList(size), 0), l)
        = [NewRow(r, NewList(size), 0) EXCEPT !.url = <<r.tenant, l>>]
  BY DEF WithUrl, NewRow
<1>6. <<r.tenant, l>> \in Tenants \X Nat
  BY <1>1 DEF Request
<1> QED
  BY <1>4, <1>5, <1>6 DEF Row

(* The row an allocation writes.                                           *)
LEMMA WithEntryType ==
  ASSUME NEW x \in Row, NEW i \in Nat, NEW e \in Nat
  PROVE  WithEntry(x, x.bits, i, e) \in Row
<1>1. ASSUME NEW b \in Seq(Byte), NEW n \in Nat, NEW d \in Nat
      PROVE  [x EXCEPT !.bits = b, !.next = n, !.expires = d] \in Row
  BY DEF Row
<1>2. /\ x.bits \in Seq(Byte) /\ i + 1 \in Nat
      /\ (IF x.expires < e THEN e ELSE x.expires) \in Nat
  BY DEF Row
<1> QED
  BY <1>1, <1>2 DEF WithEntry

(* The row a revocation writes.                                            *)
LEMMA WithRevocationType ==
  ASSUME NEW x \in Row, NEW i \in Int, InBounds(x.bits, i)
  PROVE  WithRevocation(x, RevokeAtIndex(x.bits, i)) \in Row
<1>1. RevokeAtIndex(x.bits, i) \in Seq(Byte)
  BY RevokeAtIndexType DEF Row
<1>2. ASSUME NEW b \in Seq(Byte), NEW v \in Nat
      PROVE  [x EXCEPT !.bits = b, !.version = v] \in Row
  BY DEF Row
<1>3. x.version + 1 \in Nat
  BY DEF Row
<1> QED
  BY <1>1, <1>2, <1>3 DEF WithRevocation

-------------------------------------------------------------------------------
(* Steps that commit nothing.                                              *)

WorkerOK(w) ==
  CallOK(w) /\ CandidatesOK(w) /\ AllocationOK(w) /\ RevocationOK(w)

SameWorker(w) ==
  /\ pc'[w] = pc[w] /\ call'[w] = call[w] /\ held'[w] = held[w]
  /\ cands'[w] = cands[w] /\ listId'[w] = listId[w] /\ index'[w] = index[w]
  /\ row'[w] = row[w]

(* An id that is not committed was given out by the sequence.              *)
LEMMA InsertedFresh ==
  ASSUME StoreInv, NEW w \in Workers, Inserted(w)
  PROVE  InsertedOK(w) /\ listId[w] < nextListId
<1>1. AllocationOK(w) /\ nextListId \in Nat
  BY DEF StoreInv, WorkersOK, TypeOK
<1>2. InsertedOK(w)
  BY <1>1 DEF AllocationOK, Inserted
<1> QED
  BY <1>1, <1>2 DEF InsertedOK

(* A step of worker u that leaves the committed rows alone needs to keep   *)
(* only what is said of u: the others rely on nothing it changes.          *)
LEMMA LocalStep ==
  ASSUME StoreInv, NEW u \in Workers,
         rows' = rows, granted' = granted, nextListId <= nextListId',
         TypeOK', LocksExclusive', WorkerOK(u)',
         \A w \in Workers \ {u} : SameWorker(w),
         Inserted(u)' => \/ Inserted(u) /\ listId'[u] = listId[u]
                         \/ nextListId <= listId'[u]
  PROVE  StoreInv'
<1>1. nextListId \in Nat /\ nextListId' \in Nat
  BY DEF StoreInv, TypeOK
<1>2. RowsConsistent' /\ UniqueEntries' /\ EntryFitsRequest'
  BY DEF StoreInv, RowsConsistent, UniqueEntries, EntryFitsRequest, SameGroup,
         StatusType, Purpose, BitLen
<1>3. ASSUME NEW w \in Workers \ {u}
      PROVE  WorkerOK(w)'
  <2>1. SameWorker(w) /\ WorkerOK(w)
    BY <1>3 DEF StoreInv, WorkersOK, WorkerOK
  <2>2. CallOK(w)' /\ CandidatesOK(w)'
    <3>1. CallOK(w)'
      BY <2>1 DEF WorkerOK, CallOK, SameWorker
    <3>2. \A l \in DOMAIN rows :
            SameGroup(rows[l], call[w]) => SameGroup(rows'[l], call'[w])
      BY <2>1 DEF SameWorker
    <3>3. CandidatesOK(w)'
      BY <2>1, <3>2 DEF WorkerOK, CandidatesOK, SameWorker
    <3> QED
      BY <3>1, <3>3
  <2>3. RevocationOK(w)'
    BY <2>1 DEF WorkerOK, RevocationOK, SameWorker, Locked
  <2>4. Inserted(w)' <=> Inserted(w)
    BY <2>1 DEF Inserted, SameWorker
  <2>5. InsertedOK(w) => InsertedOK(w)'
    BY <2>1, <1>1 DEF InsertedOK, SameWorker, FirstRow
  <2>6. TakenOK(w) => TakenOK(w)'
    BY <2>1 DEF TakenOK, SameWorker, Locked, SameGroup, StatusType, Purpose,
                Open
  <2>7. AllocationOK(w)'
    BY <2>1, <2>4, <2>5, <2>6 DEF WorkerOK, AllocationOK, SameWorker
  <2> QED
    BY <2>2, <2>3, <2>7 DEF WorkerOK
<1>4. IdsFresh'
  <2>1. 0 < nextListId' /\ DOMAIN rows' \subseteq 1 .. nextListId' - 1
    BY <1>1 DEF StoreInv, IdsFresh
  <2>2. ASSUME NEW w \in Workers \ {u}, Inserted(u)', Inserted(w)'
        PROVE  listId'[u] # listId'[w]
    <3>1. Inserted(w) /\ listId'[w] = listId[w]
      BY <2>2 DEF Inserted, SameWorker
    <3>2. listId[w] < nextListId /\ listId[w] \in Nat /\ listId'[u] \in Nat
      BY <3>1, InsertedFresh DEF TypeOK, StoreInv
    <3> QED
      BY <2>2, <3>1, <3>2, <1>1 DEF StoreInv, IdsFresh
  <2>3. ASSUME NEW v \in Workers \ {u}, NEW w \in Workers \ {u}, v # w,
               Inserted(v)', Inserted(w)'
        PROVE  listId'[v] # listId'[w]
    BY <2>3 DEF StoreInv, IdsFresh, Inserted, SameWorker
  <2> QED
    BY <2>1, <2>2, <2>3 DEF IdsFresh
<1> QED
  BY <1>2, <1>3, <1>4 DEF StoreInv, WorkersOK, WorkerOK

(* A call begins.                                                          *)
LEMMA InvokeInv ==
  ASSUME StoreInv, NEW u \in Workers, InvokeAllocate(u) \/ InvokeRevoke(u)
  PROVE  StoreInv'
<1> USE DEF StoreInv, TypeOK
<1>1. PICK label \in {"beginAllocate", "beginRevoke"},
           argument \in Requests \cup Revocations :
        /\ Invoke(u, label, argument)
        /\ label = "beginAllocate" => argument \in Requests
        /\ label = "beginRevoke" => argument \in Revocations
  BY DEF InvokeAllocate, InvokeRevoke
<1>2. TypeOK'
  BY <1>1 DEF Invoke, Goto, Labels, store, history
<1>3. LocksExclusive'
  BY <1>1 DEF Invoke, LocksExclusive
<1>4. WorkerOK(u)' /\ ~Inserted(u)'
  BY <1>1 DEF Invoke, Goto, WorkerOK, CallOK, CandidatesOK, AllocationOK,
              RevocationOK, Inserted, Allocating, Revoking
<1>5. \A w \in Workers \ {u} : SameWorker(w)
  BY <1>1 DEF Invoke, Goto, SameWorker
<1>6. rows' = rows /\ granted' = granted /\ nextListId <= nextListId'
  BY <1>1 DEF Invoke, store, history
<1> HIDE DEF StoreInv, TypeOK
<1> QED
  BY <1>2, <1>3, <1>4, <1>5, <1>6, LocalStep

(* A call returns and commits nothing.                                     *)
LEMMA ErrorInv ==
  ASSUME StoreInv, NEW u \in Workers, Error(u)
  PROVE  StoreInv'
<1> USE DEF StoreInv, TypeOK, Error, Return, Goto
<1>2. TypeOK'
  BY DEF Labels, store, history
<1>3. LocksExclusive'
  BY DEF LocksExclusive
<1>4. WorkerOK(u)' /\ ~Inserted(u)'
  BY DEF WorkerOK, CallOK, CandidatesOK, AllocationOK, RevocationOK, Inserted,
         Allocating, Revoking
<1>5. \A w \in Workers \ {u} : SameWorker(w)
  BY DEF SameWorker
<1>6. rows' = rows /\ granted' = granted /\ nextListId <= nextListId'
  BY DEF store, history
<1> HIDE DEF StoreInv, TypeOK
<1> QED
  BY <1>2, <1>3, <1>4, <1>5, <1>6, LocalStep

LEMMA BeginTxInv ==
  ASSUME StoreInv, NEW u \in Workers, BeginTx(u)
  PROVE  StoreInv'
<1> USE DEF StoreInv, TypeOK, BeginTx, Goto, local, store, history
<1>2. TypeOK'
  BY DEF Labels
<1>3. LocksExclusive'
  BY DEF LocksExclusive
<1>4. WorkerOK(u)' /\ ~Inserted(u)'
  BY DEF WorkersOK, WorkerOK, CallOK, CandidatesOK, AllocationOK,
         RevocationOK, Inserted, Allocating, Revoking
<1>5. \A w \in Workers \ {u} : SameWorker(w)
  BY DEF SameWorker
<1>6. rows' = rows /\ granted' = granted /\ nextListId <= nextListId'
  OBVIOUS
<1> HIDE DEF StoreInv, TypeOK
<1> QED
  BY <1>2, <1>3, <1>4, <1>5, <1>6, LocalStep

LEMMA SelectCandidatesInv ==
  ASSUME StoreInv, NEW u \in Workers, SelectCandidates(u)
  PROVE  StoreInv'
<1> USE DEF StoreInv, TypeOK, SelectCandidates, Goto, store, history
<1>1. Candidates(call[u]) \subseteq DOMAIN rows
  BY DEF Candidates
<1>2. TypeOK'
  BY <1>1 DEF Labels
<1>3. LocksExclusive'
  BY DEF LocksExclusive
<1>4. WorkerOK(u)' /\ ~Inserted(u)'
  <2>1. CallOK(u)' /\ AllocationOK(u)' /\ RevocationOK(u)' /\ ~Inserted(u)'
    BY DEF WorkersOK, CallOK, AllocationOK, RevocationOK, Inserted,
           Allocating, Revoking
  <2>2. cands'[u] = Candidates(call[u]) /\ call' = call /\ rows' = rows
    OBVIOUS
  <2>3. CandidatesOK(u)'
    BY <2>2 DEF CandidatesOK, Candidates
  <2> QED
    BY <2>1, <2>3 DEF WorkerOK
<1>5. \A w \in Workers \ {u} : SameWorker(w)
  BY DEF SameWorker
<1>6. rows' = rows /\ granted' = granted /\ nextListId <= nextListId'
  OBVIOUS
<1> HIDE DEF StoreInv, TypeOK
<1> QED
  BY <1>2, <1>3, <1>4, <1>5, <1>6, LocalStep

(* What every committed row is.                                            *)
LEMMA RowFacts ==
  ASSUME StoreInv, NEW l \in DOMAIN rows
  PROVE  /\ l \in Nat /\ rows[l] \in Row
         /\ rows[l].next \in Nat /\ rows[l].capacity \in Nat
         /\ rows[l].bits \in Seq(Byte) /\ rows[l].expires \in Nat
         /\ rows[l].version \in Nat
         /\ NextFreeIndex(ListOf(rows[l])) = rows[l].next
<1>1. l \in Nat /\ rows[l] \in Row
  BY DEF StoreInv, TypeOK
<1>2. /\ rows[l].next \in Nat /\ rows[l].capacity \in Nat
      /\ rows[l].bits \in Seq(Byte) /\ rows[l].expires \in Nat
      /\ rows[l].version \in Nat
  BY <1>1 DEF Row
<1>3. rows[l].capacity = BitLen(rows[l].bits)
  BY DEF StoreInv, RowsConsistent
<1> QED
  BY <1>1, <1>2, <1>3, NextFreeIndexIsCounter DEF ListOf

LEMMA LockOpenListInv ==
  ASSUME StoreInv, NEW u \in Workers, NEW l, LockOpenList(u, l)
  PROVE  StoreInv'
<1> USE DEF StoreInv, TypeOK, LockOpenList, Goto, store, history
<1>1. l \in DOMAIN rows /\ SameGroup(rows[l], call[u])
  BY DEF WorkersOK, CandidatesOK, IsFirst
<1>a. /\ rows[l] \in Row /\ l \in Nat /\ rows[l].next \in Nat
      /\ index'[u] = rows[l].next
  BY <1>1, RowFacts
<1>2. TypeOK'
  BY <1>a DEF Labels
<1>3. LocksExclusive'
  BY DEF LocksExclusive, LockFree
<1>4. WorkerOK(u)' /\ ~Inserted(u)'
  <2>1. CallOK(u)' /\ CandidatesOK(u)' /\ RevocationOK(u)' /\ ~Inserted(u)'
    BY DEF WorkersOK, CallOK, CandidatesOK, RevocationOK, Inserted,
           Allocating, Revoking
  <2>2. /\ pc'[u] = "update" /\ listId'[u] = l /\ l \in held'[u]
        /\ row'[u] = rows[l] /\ rows' = rows /\ call' = call
    OBVIOUS
  <2>3. TakenOK(u)'
    BY <1>1, <1>a, <2>2 DEF TakenOK, Locked
  <2> QED
    BY <2>1, <2>2, <2>3 DEF WorkerOK, AllocationOK
<1>5. \A w \in Workers \ {u} : SameWorker(w)
  BY DEF SameWorker
<1>6. rows' = rows /\ granted' = granted /\ nextListId <= nextListId'
  OBVIOUS
<1> HIDE DEF StoreInv, TypeOK
<1> QED
  BY <1>2, <1>3, <1>4, <1>5, <1>6, LocalStep

LEMMA SkipFullListInv ==
  ASSUME StoreInv, NEW u \in Workers, NEW l, SkipFullList(u, l)
  PROVE  StoreInv'
<1> USE DEF StoreInv, TypeOK, SkipFullList, Goto, store, history
<1>1. l \in Nat
  BY DEF IsFirst
<1>2. TypeOK'
  BY <1>1
<1>3. LocksExclusive'
  BY DEF LocksExclusive, LockFree
<1>4. WorkerOK(u)' /\ ~Inserted(u)'
  BY DEF WorkersOK, WorkerOK, CallOK, CandidatesOK, AllocationOK,
         RevocationOK, Inserted, Allocating, Revoking
<1>5. \A w \in Workers \ {u} : SameWorker(w)
  BY DEF SameWorker
<1>6. rows' = rows /\ granted' = granted /\ nextListId <= nextListId'
  OBVIOUS
<1> HIDE DEF StoreInv, TypeOK
<1> QED
  BY <1>2, <1>3, <1>4, <1>5, <1>6, LocalStep

LEMMA InsertListInv ==
  ASSUME StoreInv, NEW u \in Workers, InsertList(u)
  PROVE  StoreInv'
<1> USE DEF StoreInv, TypeOK, InsertList, Goto, history
<1>1. /\ call[u] \in Requests /\ ListSize[u] \in Nat
      /\ NextFreeIndex(NewList(ListSize[u])) = 0
      /\ 0 < ListSize[u]
  <2>1. call[u] \in Requests /\ ListSize[u] \in Nat
    BY StoreAssumption DEF WorkersOK, CallOK, Allocating
  <2>2. BitLen(NewBytes(ListSize[u])) = ListSize[u] * ByteWidth
    BY <2>1, NewBytesType
  <2>3. NextFreeIndex(NewList(ListSize[u])) = 0
    BY <2>1, <2>2, ByteWidthAssumption DEF NextFreeIndex, NewList
  <2>4. 0 < ListSize[u] * ByteWidth
    BY DEF FullyAllocated, NewList
  <2> QED
    BY <2>1, <2>3, <2>4, ByteWidthAssumption
<1>a. /\ row'[u] = NewRow(call[u], NewList(ListSize[u]), 0) /\ index'[u] = 0
      /\ listId'[u] = nextListId /\ nextListId \in Nat
      /\ call' = call /\ rows' = rows
  BY <1>1
<1>b. row'[u] \in Row
  BY <1>1, <1>a, NewRowType
<1>2. TypeOK'
  BY <1>1, <1>b DEF Labels
<1>3. LocksExclusive'
  BY DEF LocksExclusive
<1>4. WorkerOK(u)' /\ nextListId <= listId'[u]
  <2>1. CallOK(u)' /\ CandidatesOK(u)' /\ RevocationOK(u)'
    BY DEF WorkersOK, CallOK, CandidatesOK, RevocationOK, Allocating, Revoking
  <2>2. Inserted(u)'
    BY <1>a DEF Inserted, IdsFresh
  <2>3. InsertedOK(u)'
    BY <1>1, <1>a DEF InsertedOK, FirstRow, IdsFresh
  <2> QED
    BY <1>a, <2>1, <2>2, <2>3 DEF WorkerOK, AllocationOK
<1>5. \A w \in Workers \ {u} : SameWorker(w)
  BY DEF SameWorker
<1>6. rows' = rows /\ granted' = granted /\ nextListId <= nextListId'
  OBVIOUS
<1> HIDE DEF StoreInv, TypeOK
<1> QED
  BY <1>2, <1>3, <1>4, <1>5, <1>6, LocalStep

LEMMA SetStatusUrlInv ==
  ASSUME StoreInv, NEW u \in Workers, SetStatusUrl(u)
  PROVE  StoreInv'
<1> USE DEF StoreInv, TypeOK, SetStatusUrl, Goto, store, history
<1>1. Inserted(u) /\ InsertedOK(u) /\ call[u] \in Requests
  BY DEF WorkersOK, AllocationOK, CallOK, Allocating
<1>a. /\ row[u] = FirstRow(u) /\ listId[u] \in Nat /\ ListSize[u] \in Nat
      /\ row'[u] = WithUrl(FirstRow(u), listId[u])
  BY <1>1, StoreAssumption DEF InsertedOK
<1>b. row'[u] \in Row
  BY <1>1, <1>a, NewRowType DEF FirstRow
<1>2. TypeOK'
  BY <1>b DEF Labels
<1>3. LocksExclusive'
  BY DEF LocksExclusive
<1>4. WorkerOK(u)' /\ Inserted(u)'
  <2>1. CallOK(u)' /\ CandidatesOK(u)' /\ RevocationOK(u)'
    BY DEF WorkersOK, CallOK, CandidatesOK, RevocationOK, Allocating, Revoking
  <2>2. Inserted(u)'
    BY <1>1 DEF Inserted
  <2>3. InsertedOK(u)'
    BY <1>1, <1>a DEF InsertedOK, FirstRow
  <2> QED
    BY <2>1, <2>2, <2>3 DEF WorkerOK, AllocationOK
<1>5. \A w \in Workers \ {u} : SameWorker(w)
  BY DEF SameWorker
<1>6. /\ rows' = rows /\ granted' = granted /\ nextListId <= nextListId'
      /\ listId'[u] = listId[u]
  OBVIOUS
<1> HIDE DEF StoreInv, TypeOK
<1> QED
  BY <1>1, <1>2, <1>3, <1>4, <1>5, <1>6, LocalStep

LEMMA UpdateListInv ==
  ASSUME StoreInv, NEW u \in Workers, UpdateList(u)
  PROVE  StoreInv'
<1> USE DEF StoreInv, TypeOK, UpdateList, Goto, store, history
<1>1. TakenOK(u) /\ call[u] \in Requests /\ listId[u] \in DOMAIN rows
  BY DEF WorkersOK, AllocationOK, CallOK, Allocating, TakenOK, Locked
<1> DEFINE x == rows[listId[u]]
<1>a. row'[u] = WithEntry(x, x.bits, index[u], call[u].expires)
  BY <1>1 DEF TakenOK
<1>b. row'[u] \in Row
  <2>1. x \in Row /\ index[u] \in Nat /\ call[u].expires \in Nat
    BY <1>1, StoreAssumption DEF Request
  <2> QED
    BY <2>1, <1>a, WithEntryType
<1>2. TypeOK'
  BY <1>b DEF Labels
<1>3. LocksExclusive'
  BY DEF LocksExclusive
<1>4. WorkerOK(u)' /\ ~Inserted(u)'
  <2>1. CallOK(u)' /\ CandidatesOK(u)' /\ RevocationOK(u)' /\ ~Inserted(u)'
    BY <1>1 DEF WorkersOK, CallOK, CandidatesOK, RevocationOK, Allocating,
                Revoking, Inserted
  <2>2. /\ rows' = rows /\ listId' = listId /\ index' = index /\ call' = call
        /\ held' = held /\ pc'[u] = "commitAllocate"
    OBVIOUS
  <2>3. TakenOK(u)'
    BY <1>1, <1>a, <2>2 DEF TakenOK, Locked
  <2> QED
    BY <2>1, <2>2, <2>3 DEF WorkerOK, AllocationOK
<1>5. \A w \in Workers \ {u} : SameWorker(w)
  BY DEF SameWorker
<1>6. rows' = rows /\ granted' = granted /\ nextListId <= nextListId'
  OBVIOUS
<1> HIDE DEF StoreInv, TypeOK
<1> QED
  BY <1>2, <1>3, <1>4, <1>5, <1>6, LocalStep

LEMMA LockRevokedInv ==
  ASSUME StoreInv, NEW u \in Workers, LockRevoked(u)
  PROVE  StoreInv'
<1> USE DEF StoreInv, TypeOK, LockRevoked, Goto, store, history
<1>1. PICK l \in Selected(call[u]) :
        /\ LockFree(u, l)
        /\ held' = [held EXCEPT ![u] = {l}]
        /\ listId' = [listId EXCEPT ![u] = l]
        /\ row' = [row EXCEPT ![u] = rows[l]]
  OBVIOUS
<1>a. l \in DOMAIN rows /\ l \in Nat /\ rows[l] \in Row
  BY <1>1 DEF Selected
<1>2. TypeOK'
  BY <1>1, <1>a DEF Labels
<1>3. LocksExclusive'
  BY <1>1 DEF LocksExclusive, LockFree
<1>4. WorkerOK(u)' /\ ~Inserted(u)'
  BY <1>1, <1>a DEF WorkersOK, WorkerOK, CallOK, CandidatesOK, AllocationOK,
         RevocationOK, Locked, Inserted, Allocating, Revoking
<1>5. \A w \in Workers \ {u} : SameWorker(w)
  BY <1>1 DEF SameWorker
<1>6. rows' = rows /\ granted' = granted /\ nextListId <= nextListId'
  OBVIOUS
<1> HIDE DEF StoreInv, TypeOK
<1> QED
  BY <1>2, <1>3, <1>4, <1>5, <1>6, LocalStep

LEMMA RevokeEntryInv ==
  ASSUME StoreInv, NEW u \in Workers, RevokeEntry(u)
  PROVE  StoreInv'
<1> USE DEF StoreInv, TypeOK, RevokeEntry, Goto, store, history
<1>1. /\ listId[u] \in DOMAIN rows \cap held[u]
      /\ row[u] = rows[listId[u]] /\ call[u] \in Revocations
  BY DEF WorkersOK, RevocationOK, Locked, CallOK, Revoking
<1> DEFINE x == rows[listId[u]]
<1>a. /\ InBounds(x.bits, call[u].index)
      /\ row'[u] = WithRevocation(x, RevokeAtIndex(x.bits, call[u].index))
  BY <1>1
<1>b. row'[u] \in Row
  <2>1. x \in Row /\ call[u].index \in Int
    BY <1>1, StoreAssumption DEF Revocation
  <2> QED
    BY <2>1, <1>a, WithRevocationType
<1>2. TypeOK'
  BY <1>b DEF Labels
<1>3. LocksExclusive'
  BY DEF LocksExclusive
<1>4. WorkerOK(u)' /\ ~Inserted(u)'
  <2>1. /\ rows' = rows /\ listId' = listId /\ call' = call /\ held' = held
        /\ pc'[u] = "commitRevoke"
    OBVIOUS
  <2> QED
    BY <1>1, <1>a, <2>1 DEF WorkersOK, WorkerOK, CallOK, CandidatesOK,
         AllocationOK, RevocationOK, Locked, Inserted, Allocating, Revoking
<1>5. \A w \in Workers \ {u} : SameWorker(w)
  BY DEF SameWorker
<1>6. rows' = rows /\ granted' = granted /\ nextListId <= nextListId'
  OBVIOUS
<1> HIDE DEF StoreInv, TypeOK
<1> QED
  BY <1>2, <1>3, <1>4, <1>5, <1>6, LocalStep

-------------------------------------------------------------------------------
(* Steps that commit.                                                      *)

(* What worker u may install as list l.                                    *)
Installable(u) ==
  LET l == listId[u]
      x == rows[l]
      y == row[u]
  IN
  /\ l \in 1 .. nextListId - 1
  /\ y \in Row
  /\ y.capacity = BitLen(y.bits)
  /\ 0 < y.capacity /\ y.next <= y.capacity
  /\ y.url = <<y.tenant, l>>
  /\ \/ Inserted(u)
     \/ /\ Locked(u)
        /\ y.tenant = x.tenant /\ y.signer = x.signer
        /\ y.type = x.type /\ y.purpose = x.purpose
        /\ x.next <= y.next /\ x.expires <= y.expires

(* The rows after the COMMIT of u.                                         *)
LEMMA CommitRows ==
  ASSUME StoreInv, NEW u \in Workers, Commit(u)
  PROVE  /\ DOMAIN rows' = DOMAIN rows \cup {listId[u]}
         /\ rows'[listId[u]] = row[u]
         /\ \A l \in DOMAIN rows : l # listId[u] => rows'[l] = rows[l]
         /\ nextListId' = nextListId
         /\ \A w \in Workers \ {u} : SameWorker(w)
  BY DEF Commit, Return, Goto, SameWorker, StoreInv, TypeOK

(* The list that u commits is no other transaction's.                      *)
LEMMA CommitOthers ==
  ASSUME StoreInv, NEW u \in Workers, Commit(u), Installable(u),
         NEW w \in Workers \ {u}
  PROVE  WorkerOK(w)' /\ (Inserted(w)' <=> Inserted(w))
<1>1. /\ SameWorker(w) /\ WorkerOK(w)
      /\ DOMAIN rows' = DOMAIN rows \cup {listId[u]}
      /\ rows'[listId[u]] = row[u]
      /\ \A l \in DOMAIN rows : l # listId[u] => rows'[l] = rows[l]
      /\ nextListId' = nextListId
  BY CommitRows DEF StoreInv, WorkersOK, WorkerOK
<1>2. Locked(w) => listId[w] # listId[u]
  BY DEF Locked, Installable, Inserted, StoreInv, LocksExclusive
<1>3. Inserted(w) => listId[w] # listId[u]
  BY DEF Locked, Installable, Inserted, StoreInv, IdsFresh
<1>4. Inserted(w) => Inserted(w)'
  BY <1>1, <1>3 DEF Inserted, SameWorker
<1>5. Inserted(w)' => Inserted(w)
  BY <1>1 DEF Inserted, SameWorker
<1>6. CallOK(w)'
  BY <1>1 DEF WorkerOK, CallOK, SameWorker
<1>7. CandidatesOK(w)'
  <2>1. ASSUME NEW l \in DOMAIN rows, NEW r, SameGroup(rows[l], r)
        PROVE  SameGroup(rows'[l], r)
    BY <2>1, <1>1 DEF Installable, Inserted, SameGroup
  <2> QED
    BY <2>1, <1>1 DEF WorkerOK, CandidatesOK, SameWorker
<1>8. Locked(w) => Locked(w)' /\ rows'[listId[w]] = rows[listId[w]]
  BY <1>1, <1>2 DEF Locked, SameWorker
<1>9. RevocationOK(w)'
  BY <1>1, <1>8 DEF WorkerOK, RevocationOK, SameWorker
<1>10. TakenOK(w) => TakenOK(w)'
  <2> SUFFICES ASSUME TakenOK(w)
               PROVE  TakenOK(w)'
    OBVIOUS
  <2>1. Locked(w)' /\ rows'[listId'[w]] = rows[listId[w]]
    BY <1>1, <1>8 DEF TakenOK, SameWorker
  <2>2. call'[w] = call[w] /\ index'[w] = index[w] /\ row'[w] = row[w]
        /\ pc'[w] = pc[w]
    BY <1>1 DEF SameWorker
  <2> QED
    BY <2>1, <2>2 DEF TakenOK
<1>11. InsertedOK(w) => InsertedOK(w)'
  BY <1>1 DEF InsertedOK, FirstRow, SameWorker
<1>12. AllocationOK(w)'
  BY <1>1, <1>4, <1>5, <1>10, <1>11 DEF WorkerOK, AllocationOK, SameWorker
<1> QED
  BY <1>4, <1>5, <1>6, <1>7, <1>9, <1>12 DEF WorkerOK

(* What a COMMIT preserves whatever entry it stands for.                   *)
LEMMA CommitInv ==
  ASSUME StoreInv, NEW u \in Workers, Commit(u), Installable(u)
  PROVE  /\ RowsConsistent' /\ LocksExclusive' /\ IdsFresh' /\ WorkersOK'
         /\ DOMAIN rows' \subseteq Nat /\ rows' \in [DOMAIN rows' -> Row]
         /\ \A l \in DOMAIN rows :
              /\ l \in DOMAIN rows'
              /\ rows[l].next <= rows'[l].next
              /\ rows[l].expires <= rows'[l].expires
              /\ \A r : SameGroup(rows[l], r) => SameGroup(rows'[l], r)
<1>1. /\ DOMAIN rows' = DOMAIN rows \cup {listId[u]}
      /\ rows'[listId[u]] = row[u]
      /\ \A l \in DOMAIN rows : l # listId[u] => rows'[l] = rows[l]
      /\ nextListId' = nextListId
  BY CommitRows
<1>2. RowsConsistent'
  BY <1>1 DEF RowsConsistent, StoreInv, Installable
<1>3. LocksExclusive'
  BY DEF Commit, Return, LocksExclusive, StoreInv, TypeOK
<1>4. WorkerOK(u)' /\ ~Inserted(u)'
  BY DEF Commit, Return, Goto, StoreInv, TypeOK, WorkerOK, CallOK,
         CandidatesOK, AllocationOK, RevocationOK, Inserted, Allocating,
         Revoking
<1>5. WorkersOK'
  BY <1>4, CommitOthers DEF WorkersOK, WorkerOK
<1>6. IdsFresh'
  <2>1. \A v, w \in Workers :
          v # w /\ Inserted(v)' /\ Inserted(w)' => listId'[v] # listId'[w]
    <3> SUFFICES ASSUME NEW v \in Workers, NEW w \in Workers, v # w,
                        Inserted(v)', Inserted(w)'
                 PROVE  listId'[v] # listId'[w]
      OBVIOUS
    <3>1. v # u /\ w # u
      BY <1>4
    <3>2. Inserted(v) /\ Inserted(w) /\ SameWorker(v) /\ SameWorker(w)
      BY <3>1, CommitOthers, CommitRows
    <3> QED
      BY <3>2 DEF StoreInv, IdsFresh, SameWorker
  <2>2. 0 < nextListId' /\ DOMAIN rows' \subseteq 1 .. nextListId' - 1
    BY <1>1 DEF StoreInv, IdsFresh, Installable
  <2> QED
    BY <2>1, <2>2 DEF IdsFresh
<1>7. DOMAIN rows' \subseteq Nat /\ rows' \in [DOMAIN rows' -> Row]
  <2>1. rows' = [l \in DOMAIN rows \cup {listId[u]} |->
                   IF l = listId[u] THEN row[u] ELSE rows[l]]
    BY DEF Commit
  <2>2. row[u] \in Row /\ listId[u] \in Nat
    BY DEF Installable, StoreInv, TypeOK
  <2> QED
    BY <2>1, <2>2 DEF StoreInv, TypeOK
<1>8. ASSUME NEW l \in DOMAIN rows
      PROVE  /\ l \in DOMAIN rows'
             /\ rows[l].next <= rows'[l].next
             /\ rows[l].expires <= rows'[l].expires
             /\ \A r : SameGroup(rows[l], r) => SameGroup(rows'[l], r)
  <2>1. CASE l # listId[u]
    BY <2>1, <1>1, RowFacts
  <2>2. CASE l = listId[u]
    BY <2>2, <1>1 DEF Installable, Inserted, SameGroup
  <2> QED
    BY <2>1, <2>2
<1> QED
  BY <1>2, <1>3, <1>5, <1>6, <1>7, <1>8

(* The row an allocation commits is either the first of a new list, or the *)
(* locked one with its counter advanced past the entry taken.              *)
LEMMA AllocationInstallable ==
  ASSUME StoreInv, NEW u \in Workers, pc[u] = "commitAllocate"
  PROVE  /\ Installable(u)
         /\ SameGroup(row[u], call[u])
         /\ call[u].expires <= row[u].expires
         /\ index[u] < row[u].next
         /\ listId[u] \in DOMAIN rows => rows[listId[u]].next <= index[u]
<1>1. /\ call[u] \in Requests /\ ListSize[u] \in Nat /\ index[u] \in Nat
      /\ call[u].expires \in Nat /\ ByteWidth \in Nat \ {0}
  BY StoreAssumption, ByteWidthAssumption
     DEF StoreInv, WorkersOK, CallOK, Allocating, TypeOK, Request
<1>2. CASE Inserted(u)
  <2>1. InsertedOK(u)
    BY <1>2, InsertedFresh
  <2> DEFINE x == NewRow(call[u], NewList(ListSize[u]), 0)
  <2>2. /\ listId[u] \in 1 .. nextListId - 1 /\ listId[u] \in Nat
        /\ index[u] = 0 /\ 0 < ListSize[u]
        /\ row[u] = WithUrl(x, listId[u])
    BY <2>1 DEF InsertedOK, FirstRow, StoreInv, TypeOK
  <2>3. BitLen(NewBytes(ListSize[u])) = ListSize[u] * ByteWidth
    BY <1>1, NewBytesType
  <2>4. 0 < ListSize[u] * ByteWidth /\ ListSize[u] * ByteWidth \in Nat
    BY <1>1, <2>2
  <2>5. /\ row[u].tenant = call[u].tenant /\ row[u].signer = call[u].signer
        /\ row[u].type = StatusType(call[u])
        /\ row[u].purpose = Purpose(call[u])
        /\ row[u].capacity = BitLen(NewBytes(ListSize[u]))
        /\ row[u].bits = NewBytes(ListSize[u])
        /\ row[u].next = 1 /\ row[u].expires = call[u].expires
        /\ row[u].url = <<row[u].tenant, listId[u]>>
    BY <2>2 DEF WithUrl, NewRow, NewList
  <2>6. row[u] \in Row
    BY <1>1, <2>2, NewRowType
  <2>7. Installable(u) /\ SameGroup(row[u], call[u])
    BY <1>2, <2>2, <2>3, <2>4, <2>5, <2>6 DEF Installable, SameGroup
  <2> QED
    BY <1>1, <1>2, <2>2, <2>5, <2>7 DEF Inserted
<1>3. CASE ~Inserted(u)
  <2> DEFINE x == rows[listId[u]]
  <2>1. /\ listId[u] \in DOMAIN rows /\ Locked(u) /\ SameGroup(x, call[u])
        /\ Open(x) /\ index[u] = x.next
        /\ row[u] = WithEntry(x, x.bits, index[u], call[u].expires)
    BY <1>3 DEF StoreInv, WorkersOK, AllocationOK, TakenOK, Locked
  <2>2. /\ x \in Row /\ x.next \in Nat /\ x.capacity \in Nat
        /\ x.expires \in Nat
    BY <2>1, RowFacts
  <2>3. /\ row[u].tenant = x.tenant /\ row[u].signer = x.signer
        /\ row[u].type = x.type /\ row[u].purpose = x.purpose
        /\ row[u].capacity = x.capacity /\ row[u].bits = x.bits
        /\ row[u].next = x.next + 1 /\ row[u].url = x.url
        /\ row[u].expires = IF x.expires < call[u].expires
                            THEN call[u].expires ELSE x.expires
    BY <2>1, <2>2 DEF WithEntry, Row
  <2>4. row[u] \in Row
    BY <1>1, <2>1, <2>2, WithEntryType
  <2>5. /\ x.capacity = BitLen(x.bits) /\ 0 < x.capacity
        /\ x.url = <<x.tenant, listId[u]>>
        /\ listId[u] \in 1 .. nextListId - 1
    BY <2>1 DEF StoreInv, RowsConsistent, IdsFresh
  <2>6. SameGroup(row[u], call[u])
    BY <2>1, <2>3 DEF SameGroup
  <2>7. Installable(u)
    BY <1>1, <2>1, <2>2, <2>3, <2>4, <2>5 DEF Installable, Open
  <2> QED
    BY <1>1, <2>1, <2>2, <2>3, <2>6, <2>7
<1> QED
  BY <1>2, <1>3

(* The row a revocation commits is the locked one with other bits.         *)
LEMMA RevocationInstallable ==
  ASSUME StoreInv, NEW u \in Workers, pc[u] = "commitRevoke"
  PROVE  Installable(u)
<1> DEFINE x == rows[listId[u]]
           b == RevokeAtIndex(x.bits, call[u].index)
<1>1. /\ listId[u] \in DOMAIN rows /\ Locked(u) /\ call[u].index \in Int
      /\ InBounds(x.bits, call[u].index) /\ row[u] = WithRevocation(x, b)
  BY StoreAssumption
     DEF StoreInv, WorkersOK, RevocationOK, Locked, CallOK, Revoking, Revocation
<1>2. /\ x \in Row /\ x.next \in Nat /\ x.bits \in Seq(Byte)
      /\ x.expires \in Nat
  BY <1>1, RowFacts
<1>3. row[u] \in Row /\ BitLen(b) = BitLen(x.bits)
  BY <1>1, <1>2, WithRevocationType, RevokeAtIndexType
<1>4. /\ row[u].tenant = x.tenant /\ row[u].signer = x.signer
      /\ row[u].type = x.type /\ row[u].purpose = x.purpose
      /\ row[u].capacity = x.capacity /\ row[u].bits = b
      /\ row[u].next = x.next /\ row[u].url = x.url
      /\ row[u].expires = x.expires
  BY <1>1, <1>2 DEF WithRevocation, Row
<1>5. /\ x.capacity = BitLen(x.bits) /\ 0 < x.capacity
      /\ x.next <= x.capacity /\ x.url = <<x.tenant, listId[u]>>
      /\ listId[u] \in 1 .. nextListId - 1
  BY <1>1 DEF StoreInv, RowsConsistent, IdsFresh
<1> QED
  BY <1>1, <1>2, <1>3, <1>4, <1>5 DEF Installable

(* A COMMIT leaves the variables of the right types.                       *)
LEMMA CommitType ==
  ASSUME StoreInv, NEW u \in Workers, Commit(u), Installable(u),
         granted' \in Seq(GrantedEntry),
         revoked' \subseteq Nat \X Int, acked' \subseteq Nat \X Int
  PROVE  TypeOK'
<1>1. DOMAIN rows' \subseteq Nat /\ rows' \in [DOMAIN rows' -> Row]
  BY CommitInv
<1>2. UNCHANGED <<nextListId, calls>> /\ Return(u)
  BY DEF Commit
<1>3. /\ nextListId' \in Nat /\ calls' \in Nat
      /\ pc' \in [Workers -> Labels]
      /\ held' \in [Workers -> SUBSET Nat]
      /\ call' \in [Workers -> Requests \cup Revocations \cup {None}]
      /\ cands' \in [Workers -> SUBSET Nat]
      /\ listId' \in [Workers -> Nat]
      /\ index' \in [Workers -> Nat]
      /\ row' \in [Workers -> Row \cup {None}]
  BY <1>2 DEF StoreInv, TypeOK, Return, Goto, Labels
<1> QED
  BY <1>1, <1>3 DEF TypeOK

(* The entries returned before stay entries of their lists.                *)
LEMMA CommitKeepsEntries ==
  ASSUME StoreInv, NEW u \in Workers, Commit(u), Installable(u),
         NEW k \in DOMAIN granted
  PROVE  LET e == granted[k] IN
         /\ e \in GrantedEntry
         /\ e.list \in DOMAIN rows
         /\ e.index < rows[e.list].next
         /\ e.list \in DOMAIN rows'
         /\ e.index < rows'[e.list].next
         /\ SameGroup(rows'[e.list], e.request)
         /\ e.request.expires <= rows'[e.list].expires
<1> DEFINE e == granted[k]
<1>1. /\ e \in GrantedEntry /\ e.list \in DOMAIN rows
      /\ e.index < rows[e.list].next
      /\ SameGroup(rows[e.list], e.request)
      /\ e.request.expires <= rows[e.list].expires
  BY DEF StoreInv, TypeOK, UniqueEntries, EntryFitsRequest
<1>2. /\ e.list \in DOMAIN rows'
      /\ rows[e.list].next <= rows'[e.list].next
      /\ rows[e.list].expires <= rows'[e.list].expires
      /\ SameGroup(rows'[e.list], e.request)
      /\ rows' \in [DOMAIN rows' -> Row]
  BY <1>1, CommitInv
<1>3. rows'[e.list].next \in Nat /\ rows'[e.list].expires \in Nat
  BY <1>2 DEF Row
<1>4. rows[e.list].next \in Nat /\ rows[e.list].expires \in Nat
  BY <1>1, RowFacts
<1>5. e.index \in Nat /\ e.request.expires \in Nat
  BY <1>1, StoreAssumption DEF GrantedEntry, Request
<1> QED
  BY <1>1, <1>2, <1>3, <1>4, <1>5

LEMMA CommitAllocateInv ==
  ASSUME StoreInv, NEW u \in Workers, CommitAllocate(u)
  PROVE  StoreInv'
<1> DEFINE e == Entry(u)
<1>1. /\ pc[u] = "commitAllocate" /\ Commit(u)
      /\ UNCHANGED <<revoked, acked>>
      /\ granted' = Append(granted, e) \/ granted' = granted
  BY DEF CommitAllocate
<1>2. /\ Installable(u) /\ SameGroup(row[u], call[u])
      /\ call[u].expires <= row[u].expires
      /\ index[u] < row[u].next
      /\ listId[u] \in DOMAIN rows => rows[listId[u]].next <= index[u]
  BY <1>1, AllocationInstallable
<1>3. e \in GrantedEntry
  BY <1>1 DEF Entry, GrantedEntry, StoreInv, TypeOK, WorkersOK, CallOK,
              Allocating
<1>4. /\ e.list \in DOMAIN rows' /\ e.index < rows'[e.list].next
      /\ SameGroup(rows'[e.list], e.request)
      /\ e.request.expires <= rows'[e.list].expires
  BY <1>1, <1>2, CommitRows DEF Entry
<1>5. ASSUME NEW k \in DOMAIN granted
      PROVE  ~(granted[k].list = e.list /\ granted[k].index = e.index)
  <2>1. /\ granted[k] \in GrantedEntry /\ granted[k].list \in DOMAIN rows
        /\ granted[k].index < rows[granted[k].list].next
    BY <1>1, <1>2, CommitKeepsEntries
  <2>2. rows[granted[k].list].next \in Nat /\ granted[k].index \in Nat
    BY <2>1, RowFacts DEF GrantedEntry
  <2>3. e.list = listId[u] /\ e.index = index[u] /\ index[u] \in Nat
    BY DEF Entry, StoreInv, TypeOK
  <2> QED
    BY <1>2, <2>1, <2>2, <2>3
<1>6. granted \in Seq(GrantedEntry) /\ granted' \in Seq(GrantedEntry)
  <2>1. granted \in Seq(GrantedEntry)
    BY DEF StoreInv, TypeOK
  <2> QED
    BY <1>1, <1>3, <2>1, AppendProperties
<1>7. ASSUME NEW k \in DOMAIN granted'
      PROVE  /\ granted'[k].list \in DOMAIN rows'
             /\ granted'[k].index < rows'[granted'[k].list].next
             /\ SameGroup(rows'[granted'[k].list], granted'[k].request)
             /\ granted'[k].request.expires <= rows'[granted'[k].list].expires
  <2>1. (k \in DOMAIN granted /\ granted'[k] = granted[k]) \/ granted'[k] = e
    BY <1>1, <1>6
  <2> QED
    BY <2>1, <1>1, <1>2, <1>4, CommitKeepsEntries
<1>8. UniqueEntries'
  <2>1. ASSUME NEW j \in DOMAIN granted', NEW k \in DOMAIN granted',
               granted'[j].list = granted'[k].list,
               granted'[j].index = granted'[k].index
        PROVE  j = k
    <3>1. CASE j \in DOMAIN granted /\ k \in DOMAIN granted
      BY <2>1, <3>1, <1>1, <1>6 DEF StoreInv, UniqueEntries
    <3>2. CASE j \notin DOMAIN granted \/ k \notin DOMAIN granted
      BY <2>1, <3>2, <1>1, <1>5, <1>6
    <3> QED
      BY <3>1, <3>2
  <2> QED
    BY <2>1, <1>7 DEF UniqueEntries
<1>9. EntryFitsRequest'
  BY <1>7, Zenon DEF EntryFitsRequest, SameGroup, StatusType, Purpose
<1>10. TypeOK'
  BY <1>1, <1>2, <1>6, CommitType DEF StoreInv, TypeOK
<1> QED
  BY <1>1, <1>2, <1>8, <1>9, <1>10, CommitInv DEF StoreInv

LEMMA CommitRevokeInv ==
  ASSUME StoreInv, NEW u \in Workers, CommitRevoke(u)
  PROVE  StoreInv'
<1>1. /\ pc[u] = "commitRevoke" /\ Commit(u) /\ granted' = granted
      /\ revoked' = revoked \cup {<<listId[u], call[u].index>>}
      /\ acked' \subseteq acked \cup {<<listId[u], call[u].index>>}
  BY DEF CommitRevoke
<1>2. Installable(u)
  BY <1>1, RevocationInstallable
<1>3. listId[u] \in Nat /\ call[u].index \in Int
  BY <1>1, StoreAssumption
     DEF StoreInv, TypeOK, WorkersOK, CallOK, Revoking, Revocation
<1>4. TypeOK'
  <2>1. revoked' \subseteq Nat \X Int /\ acked' \subseteq Nat \X Int
    BY <1>1, <1>3 DEF StoreInv, TypeOK
  <2> QED
    BY <1>1, <1>2, <2>1, CommitType DEF StoreInv, TypeOK
<1>5. UniqueEntries'
  BY <1>1, <1>2, CommitKeepsEntries DEF UniqueEntries, StoreInv
<1>6. EntryFitsRequest'
  BY <1>1, <1>2, CommitKeepsEntries, Zenon
     DEF EntryFitsRequest, SameGroup, StatusType, Purpose
<1> QED
  BY <1>1, <1>2, <1>4, <1>5, <1>6, CommitInv DEF StoreInv

-------------------------------------------------------------------------------
(* The invariant.                                                          *)

LEMMA InitInv == Init => StoreInv
<1> SUFFICES ASSUME Init PROVE StoreInv
  OBVIOUS
<1> USE DEF Init
<1>1. TypeOK
  BY DEF TypeOK, Labels
<1>2. RowsConsistent /\ LocksExclusive /\ UniqueEntries /\ EntryFitsRequest
  BY DEF RowsConsistent, LocksExclusive, UniqueEntries, EntryFitsRequest
<1>3. IdsFresh
  BY DEF IdsFresh, Inserted
<1>4. WorkersOK
  BY DEF WorkersOK, CallOK, CandidatesOK, AllocationOK, RevocationOK,
         Allocating, Revoking
<1> QED
  BY <1>1, <1>2, <1>3, <1>4 DEF StoreInv

LEMMA StutterInv == StoreInv /\ UNCHANGED vars => StoreInv'
<1> SUFFICES ASSUME StoreInv, UNCHANGED vars
             PROVE  StoreInv'
  OBVIOUS
<1> USE DEF vars, store, local, history
<1>1. TypeOK' /\ RowsConsistent' /\ LocksExclusive'
  BY DEF StoreInv, TypeOK, RowsConsistent, LocksExclusive
<1>2. IdsFresh' /\ UniqueEntries' /\ EntryFitsRequest'
  BY DEF StoreInv, IdsFresh, Inserted, UniqueEntries, EntryFitsRequest
<1>3. WorkersOK'
  BY DEF StoreInv, WorkersOK, CallOK, CandidatesOK, AllocationOK,
         RevocationOK, TakenOK, Inserted, InsertedOK, Locked, FirstRow
<1> QED
  BY <1>1, <1>2, <1>3 DEF StoreInv

LEMMA NextInv == StoreInv /\ [Next]_vars => StoreInv'
<1> SUFFICES ASSUME StoreInv, [Next]_vars
             PROVE  StoreInv'
  OBVIOUS
<1>1. ASSUME NEW u \in Workers, Allocate(u)
      PROVE  StoreInv'
  <2>1. CASE SelectCandidates(u)
    BY <2>1, SelectCandidatesInv
  <2>2. CASE Lock(u)
    BY <2>2, LockOpenListInv, SkipFullListInv DEF Lock
  <2>3. CASE InsertList(u)
    BY <2>3, InsertListInv
  <2>4. CASE RefuseInsert(u)
    BY <2>4, ErrorInv DEF RefuseInsert
  <2>5. CASE SetStatusUrl(u)
    BY <2>5, SetStatusUrlInv
  <2>6. CASE UpdateList(u)
    BY <2>6, UpdateListInv
  <2>7. CASE CommitAllocate(u)
    BY <2>7, CommitAllocateInv
  <2> QED
    BY <1>1, <2>1, <2>2, <2>3, <2>4, <2>5, <2>6, <2>7 DEF Allocate
<1>2. ASSUME NEW u \in Workers, Revoke(u)
      PROVE  StoreInv'
  <2>1. CASE RevokeNotFound(u)
    BY <2>1, ErrorInv DEF RevokeNotFound
  <2>2. CASE LockRevoked(u)
    BY <2>2, LockRevokedInv
  <2>3. CASE RevokePanic(u)
    BY <2>3, ErrorInv DEF RevokePanic
  <2>4. CASE RevokeEntry(u)
    BY <2>4, RevokeEntryInv
  <2>5. CASE CommitRevoke(u)
    BY <2>5, CommitRevokeInv
  <2> QED
    BY <1>2, <2>1, <2>2, <2>3, <2>4, <2>5 DEF Revoke
<1>3. ASSUME NEW u \in Workers,
             InvokeAllocate(u) \/ InvokeRevoke(u) \/ BeginTx(u) \/ Fail(u)
      PROVE  StoreInv'
  BY <1>3, InvokeInv, BeginTxInv, ErrorInv DEF Fail
<1>4. CASE UNCHANGED vars
  BY <1>4, StutterInv
<1> QED
  BY <1>1, <1>2, <1>3, <1>4 DEF Next, Step, Quiesced

(* What a transaction read under its row lock is still true when it        *)
(* commits, in every interleaving of any number of transactions.           *)
THEOREM StoreInvariant == Spec => []StoreInv
  BY InitInv, NextInv, PTL DEF Spec

(* The variables of StatusStore keep their types.                          *)
THEOREM TypeCorrect == Spec => []TypeOK
<1>1. StoreInv => TypeOK
  BY DEF StoreInv
<1> QED
  BY <1>1, StoreInvariant, PTL

(* The capacity of a committed row is the length of its bytes, its counter *)
(* is inside it and its URL is its own.                                    *)
THEOREM RowsAreConsistent == Spec => []RowsConsistent
<1>1. StoreInv => RowsConsistent
  BY DEF StoreInv
<1> QED
  BY <1>1, StoreInvariant, PTL

(* AllocateIndexInCurrentList never returns an entry twice.                *)
THEOREM EntriesAreUnique == Spec => []UniqueEntries
<1>1. StoreInv => UniqueEntries
  BY DEF StoreInv
<1> QED
  BY <1>1, StoreInvariant, PTL

(* Every entry returned is in a list of the tenant, signer, type and       *)
(* purpose asked for that lives as long as the credential.                 *)
THEOREM EntriesFitRequests == Spec => []EntryFitsRequest
<1>1. StoreInv => EntryFitsRequest
  BY DEF StoreInv
<1> QED
  BY <1>1, StoreInvariant, PTL

===============================================================================
