------------------------ MODULE StatusContentionProofs ------------------------
(***************************************************************************)
(* Proofs about what the transactions of StatusStore compete for: row      *)
(* locks, for which no circle of them ever waits, and connections, which   *)
(* bound the open lists of a group.                                        *)
(***************************************************************************)
EXTENDS StatusStoreProofs, FiniteSetTheorems, FunctionTheorems

(* A set of natural numbers with an upper bound has a greatest element.    *)
LEMMA GreatestElement ==
  ASSUME NEW S \in SUBSET Nat, S # {}, NEW n \in Nat, \A s \in S : s <= n
  PROVE  \E g \in S : \A s \in S : s <= g
<1> DEFINE Above(s) == s + 1 .. n
           F == {Above(s) : s \in S}
           U == 0 .. n
<1>1. F \subseteq FiniteSubsetsOf(U) /\ F # {}
  <2>1. F \in SUBSET SUBSET U /\ F # {}
    <3>1. \A s \in S : Above(s) \in SUBSET U
      OBVIOUS
    <3> HIDE DEF Above, U
    <3> QED
      BY <3>1
  <2>2. IsFiniteSet(U)
    BY FS_Interval
  <2>3. FiniteSubsetsOf(U) = SUBSET U
    BY <2>2, FS_FiniteSubsetsOfFinite
  <2> HIDE DEF F, U
  <2> QED
    BY <2>1, <2>3
<1>2. \E A \in F : \A B \in F : <<B, A>> \notin StrictSubsetOrdering(U)
  <2> HIDE DEF F, U
  <2> QED
    BY <1>1, FS_StrictSubsetOrderingWellFounded, WFMin
<1>3. PICK g \in S : \A B \in F : <<B, Above(g)>> \notin StrictSubsetOrdering(U)
  BY <1>2
<1>4. ASSUME NEW s \in S, g < s
      PROVE  FALSE
  <2>1. <<Above(s), Above(g)>> \notin StrictSubsetOrdering(U)
    BY <1>3
  <2>2. /\ Above(s) \subseteq Above(g)
        /\ Above(s) \in SUBSET U /\ Above(g) \in SUBSET U
    BY <1>4
  <2>3. s \in Above(g) /\ s \notin Above(s)
    BY <1>4
  <2> QED
    BY <2>1, <2>2, <2>3, Zenon DEF StrictSubsetOrdering
<1> QED
  BY <1>4

-------------------------------------------------------------------------------
(* Locks.                                                                  *)

(* What LocksInOrder says of one worker.                                   *)
Ordered(w) ==
  /\ pc[w] \in {"idle", "beginAllocate", "select", "beginRevoke",
                "selectRevoke"} => held[w] = {}
  /\ pc[w] = "lock" => \A l \in held[w], m \in cands[w] : l < m

(* A step of u keeps the order if it does so for u.                        *)
LEMMA OrderedStep ==
  ASSUME LocksInOrder, NEW u \in Workers, Ordered(u)',
         \A w \in Workers \ {u} : SameWorker(w)
  PROVE  LocksInOrder'
<1>1. ASSUME NEW w \in Workers \ {u}
      PROVE  Ordered(w)'
  BY DEF LocksInOrder, Ordered, SameWorker
<1> QED
  BY <1>1 DEF LocksInOrder, Ordered

LEMMA LocksInOrderStep ==
  ASSUME StoreInv, LocksInOrder, [Next]_vars
  PROVE  LocksInOrder'
<1> USE DEF Goto, SameWorker, Ordered
<1>a. /\ pc \in [Workers -> Labels] /\ held \in [Workers -> SUBSET Nat]
      /\ cands \in [Workers -> SUBSET Nat]
      /\ call \in [Workers -> Requests \cup Revocations \cup {None}]
      /\ listId \in [Workers -> Nat] /\ index \in [Workers -> Nat]
      /\ row \in [Workers -> Row \cup {None}]
  BY DEF StoreInv, TypeOK
<1>1. ASSUME NEW u \in Workers, Return(u)
      PROVE  LocksInOrder'
  BY <1>a, <1>1, OrderedStep DEF Return
<1>2. ASSUME NEW u \in Workers, InvokeAllocate(u) \/ InvokeRevoke(u)
      PROVE  LocksInOrder'
  BY <1>a, <1>2, OrderedStep
     DEF InvokeAllocate, InvokeRevoke, Invoke, LocksInOrder
<1>3. ASSUME NEW u \in Workers, BeginTx(u)
      PROVE  LocksInOrder'
  BY <1>a, <1>3, OrderedStep DEF BeginTx, local, LocksInOrder
<1>4. ASSUME NEW u \in Workers, SelectCandidates(u)
      PROVE  LocksInOrder'
  BY <1>a, <1>4, OrderedStep DEF SelectCandidates, LocksInOrder
<1>5. ASSUME NEW u \in Workers, NEW l \in cands[u], LockOpenList(u, l)
      PROVE  LocksInOrder'
  BY <1>a, <1>5, OrderedStep DEF LockOpenList
<1>6. ASSUME NEW u \in Workers, NEW l \in cands[u], SkipFullList(u, l)
      PROVE  LocksInOrder'
  <2>1. /\ pc[u] = "lock" /\ pc' = pc
        /\ held'[u] = held[u] \cup {l} /\ cands'[u] = cands[u] \ {l}
        /\ \A m \in cands[u] : l <= m
        /\ \A w \in Workers \ {u} : SameWorker(w)
    BY <1>a, <1>6 DEF SkipFullList, IsFirst
  <2>2. \A k \in held[u], m \in cands[u] : k < m
    BY <2>1 DEF LocksInOrder
  <2>3. held[u] \subseteq Nat /\ cands[u] \subseteq Nat
    BY <1>a
  <2>4. Ordered(u)'
    BY <2>1, <2>2, <2>3
  <2> QED
    BY <2>1, <2>4, OrderedStep
<1>7. ASSUME NEW u \in Workers,
             InsertList(u) \/ SetStatusUrl(u) \/ UpdateList(u) \/ RevokeEntry(u)
      PROVE  LocksInOrder'
  BY <1>a, <1>7, OrderedStep DEF InsertList, SetStatusUrl, UpdateList, RevokeEntry
<1>8. ASSUME NEW u \in Workers, LockRevoked(u)
      PROVE  LocksInOrder'
  BY <1>a, <1>8, OrderedStep DEF LockRevoked
<1>9. ASSUME NEW u \in Workers, Allocate(u)
      PROVE  LocksInOrder'
  BY <1>1, <1>4, <1>5, <1>6, <1>7, <1>9
     DEF Allocate, Lock, RefuseInsert, Error, CommitAllocate, Commit
<1>10. ASSUME NEW u \in Workers, Revoke(u)
      PROVE  LocksInOrder'
  BY <1>1, <1>7, <1>8, <1>10
     DEF Revoke, RevokeNotFound, RevokePanic, Error, CommitRevoke, Commit
<1>11. CASE UNCHANGED vars
  BY <1>11 DEF vars, local, LocksInOrder
<1> QED
  BY <1>1, <1>2, <1>3, <1>9, <1>10, <1>11 DEF Next, Step, Fail, Error, Quiesced

(* Locks in the order of their ids rule out a circle of waiting            *)
(* transactions: whoever of them waits for the greatest id would wait for  *)
(* one that waits for a greater.                                           *)
LEMMA NoCycle ==
  ASSUME StoreInv, LocksInOrder
  PROVE  NoLockCycle
<1> SUFFICES ASSUME NEW S \in (SUBSET Workers) \ {{}},
                    \A v \in S : \E w \in S : WaitsFor(v, w)
             PROVE  FALSE
  BY DEF NoLockCycle
<1> DEFINE Awaited == {l \in Nat : \E v \in S : pc[v] = "lock" /\ IsFirst(l, cands[v])}
<1>a. /\ held \in [Workers -> SUBSET Nat] /\ cands \in [Workers -> SUBSET Nat]
      /\ nextListId \in Nat /\ DOMAIN rows \subseteq 1 .. nextListId - 1
  BY DEF StoreInv, TypeOK, IdsFresh
(* A transaction that waits while another waits for it holds locks, so it  *)
(* is an allocation.                                                       *)
<1>1. ASSUME NEW v \in S, NEW w \in S, WaitsFor(v, w)
      PROVE  \E l \in Awaited : pc[w] = "lock" /\ IsFirst(l, cands[w])
  <2>1. held[w] # {}
    BY <1>1 DEF WaitsFor
  <2>2. PICK x \in S : WaitsFor(w, x)
    OBVIOUS
  <2>3. pc[w] = "lock" /\ \E l \in held[x] : IsFirst(l, cands[w])
    BY <2>1, <2>2 DEF WaitsFor, LocksInOrder
  <2>4. cands[w] \subseteq Nat
    BY <1>a
  <2> QED
    BY <2>3, <2>4 DEF IsFirst
<1>2. Awaited # {}
  <2>1. PICK v \in S, w \in S : WaitsFor(v, w)
    <3>1. S # {}
      OBVIOUS
    <3>2. PICK v \in S : TRUE
      BY <3>1
    <3> QED
      BY <3>2
  <2>2. \E l \in Awaited : TRUE
    BY <1>1, <2>1
  <2> HIDE DEF Awaited
  <2> QED
    BY <2>2
<1>3. \A l \in Awaited : l <= nextListId
  <2>1. ASSUME NEW v \in S, pc[v] = "lock"
        PROVE  cands[v] \subseteq DOMAIN rows
    BY <2>1 DEF StoreInv, WorkersOK, CandidatesOK
  <2> QED
    BY <1>a, <2>1 DEF IsFirst
<1>4. PICK g \in Awaited : \A l \in Awaited : l <= g
  <2> HIDE DEF Awaited
  <2>1. Awaited \in SUBSET Nat
    BY DEF Awaited
  <2> QED
    BY <1>a, <1>2, <1>3, <2>1, GreatestElement
<1>5. PICK v \in S : pc[v] = "lock" /\ IsFirst(g, cands[v])
  OBVIOUS
<1>6. PICK w \in S : WaitsFor(v, w)
  OBVIOUS
<1>7. g \in held[w]
  <2>1. PICK l \in held[w] : IsFirst(l, cands[v])
    BY <1>5, <1>6 DEF WaitsFor
  <2>2. l \in Nat /\ g \in Nat
    BY <1>a
  <2>3. l <= g /\ g <= l
    BY <1>5, <2>1 DEF IsFirst
  <2> QED
    BY <2>1, <2>2, <2>3
<1>8. PICK h \in Awaited : pc[w] = "lock" /\ IsFirst(h, cands[w])
  BY <1>1, <1>6
<1>9. g < h
  BY <1>7, <1>8 DEF LocksInOrder, IsFirst
<1>10. h <= g /\ h \in Nat /\ g \in Nat
  BY <1>4
<1> QED
  BY <1>9, <1>10

(* An allocation holds the locks of lists that precede every one it may    *)
(* still wait for; whoever begins to wait otherwise holds none.            *)
THEOREM LocksAreInOrder == Spec => []LocksInOrder
<1>1. Init => LocksInOrder
  BY DEF Init, LocksInOrder
<1> QED
  BY <1>1, LocksInOrderStep, StoreInvariant, PTL DEF Spec

(* Allocations and revocations never deadlock on the rows of status_lists, *)
(* however many run, although an allocation keeps the locks of the full    *)
(* lists it passed over.                                                   *)
THEOREM NoDeadlock == Spec => []NoLockCycle
  BY LocksAreInOrder, NoCycle, StoreInvariant, PTL

-------------------------------------------------------------------------------
(* Connections.                                                            *)

(* The pool has MaxConns connections.                                     *)
LEMMA ConnectionCount ==
  IsFiniteSet(Connections) /\ Cardinality(Connections) = MaxConns
<1>1. MaxConns \in Nat \ {0}
  BY StoreAssumption
<1>2. /\ IsFiniteSet(1 .. MaxConns)
      /\ Cardinality(1 .. MaxConns)
           = IF 1 > MaxConns THEN 0 ELSE MaxConns - 1 + 1
  BY <1>1, FS_Interval
<1> QED
  BY <1>1, <1>2 DEF Connections

(* Fewer transactions than connections leave one free.                     *)
LEMMA FreeConnection ==
  ASSUME NEW T, IsFiniteSet(T), Cardinality(T) < MaxConns,
         NEW conn, \A w \in T : conn[w] \in Connections
  PROVE  \E k \in Connections : \A w \in T : conn[w] # k
<1> SUFFICES ASSUME \A k \in Connections : \E w \in T : conn[w] = k
             PROVE  FALSE
  OBVIOUS
<1> DEFINE f == [k \in Connections |-> CHOOSE w \in T : conn[w] = k]
<1>1. \A k \in Connections : f[k] \in T /\ conn[f[k]] = k
  OBVIOUS
<1>2. f \in [Connections -> T] /\ \A j, k \in Connections : f[j] = f[k] => j = k
  <2> HIDE DEF f
  <2>1. \A j, k \in Connections : f[j] = f[k] => j = k
    BY <1>1
  <2>2. f \in [Connections -> T]
    BY <1>1 DEF f
  <2> QED
    BY <2>1, <2>2
<1>3. IsFiniteSet(Connections) /\ Cardinality(Connections) = MaxConns
  BY ConnectionCount
<1>4. Cardinality(T) \in Nat
  BY FS_CardinalityType
<1> HIDE DEF f
<1> QED
  BY <1>2, <1>3, <1>4, FS_PigeonHole

(* What the connections say of a step that leaves the rows alone and gives *)
(* no transaction a new open list to miss.                                 *)
LEMMA SameConnections ==
  ASSUME ConnectionsApart, rows' = rows, InTransaction' \subseteq InTransaction,
         \A w \in InTransaction' : \A l \in DOMAIN rows :
           Open(rows[l]) /\ Missed(w, l)' => Missed(w, l)
  PROVE  ConnectionsApart'
<1>1. PICK conn \in [Workers -> Connections], by \in [DOMAIN rows -> Connections] :
        Apart(conn, by)
  BY DEF ConnectionsApart
<1>2. Apart(conn, by)'
  <2>1. \A v, w \in InTransaction' : v # w => conn[v] # conn[w]
    BY <1>1 DEF Apart
  <2>2. \A l, m \in DOMAIN rows' :
          l # m /\ Open(rows'[l]) /\ Open(rows'[m]) /\ OneGroupOf(rows'[l], rows'[m])
          => by[l] # by[m]
    BY <1>1 DEF Apart
  <2>3. \A w \in InTransaction' : \A l \in DOMAIN rows' :
          Open(rows'[l]) /\ Missed(w, l)' => by[l] # conn[w]
    BY <1>1 DEF Apart
  <2> QED
    BY <2>1, <2>2, <2>3, Zenon DEF Apart, Open, OneGroupOf
<1>3. IsFiniteSet(InTransaction')
  BY FS_Subset DEF ConnectionsApart
<1> QED
  BY <1>1, <1>2, <1>3 DEF ConnectionsApart, Connections

(* BEGIN takes a connection no transaction has.                            *)
LEMMA BeginConnections ==
  ASSUME StoreInv, ConnectionsApart, NEW u \in Workers, BeginTx(u)
  PROVE  ConnectionsApart'
<1>a. /\ pc \in [Workers -> Labels] /\ rows' = rows
      /\ pc[u] \in {"beginAllocate", "beginRevoke"}
      /\ pc'[u] \in {"select", "selectRevoke"}
      /\ \A w \in Workers \ {u} : SameWorker(w)
      /\ Cardinality(InTransaction) < MaxConns
  BY DEF BeginTx, Goto, StoreInv, TypeOK, SameWorker, local, store
<1>1. PICK conn \in [Workers -> Connections], by \in [DOMAIN rows -> Connections] :
        Apart(conn, by)
  BY DEF ConnectionsApart
<1>2. u \notin InTransaction /\ InTransaction' = InTransaction \cup {u}
  BY <1>a DEF InTransaction, SameWorker
<1>3. PICK k \in Connections : \A w \in InTransaction : conn[w] # k
  <2>1. \A w \in InTransaction : conn[w] \in Connections
    BY DEF InTransaction
  <2> QED
    BY <1>a, <2>1, FreeConnection DEF ConnectionsApart
<1>4. PICK new \in [Workers -> Connections] :
        new[u] = k /\ \A w \in InTransaction : new[w] = conn[w]
  <2>1. [conn EXCEPT ![u] = k] \in [Workers -> Connections]
    OBVIOUS
  <2> QED
    BY <1>2, <2>1 DEF InTransaction
<1>5. Apart(new, by)'
  <2>1. \A v, w \in InTransaction' : v # w => new[v] # new[w]
    BY <1>1, <1>2, <1>3, <1>4 DEF Apart
  <2>2. \A l, m \in DOMAIN rows' :
          l # m /\ Open(rows'[l]) /\ Open(rows'[m]) /\ OneGroupOf(rows'[l], rows'[m])
          => by[l] # by[m]
    BY <1>1, <1>a DEF Apart
  <2>3. \A w \in InTransaction' : \A l \in DOMAIN rows' :
          Open(rows'[l]) /\ Missed(w, l)' => by[l] # new[w]
    <3>1. \A l \in DOMAIN rows : ~Missed(u, l)'
      BY <1>a DEF Missed, Inserted
    <3>2. ASSUME NEW w \in InTransaction, NEW l \in DOMAIN rows, Missed(w, l)'
          PROVE  Missed(w, l)
      BY <1>2, <1>a, <3>2
         DEF Missed, Inserted, SameWorker, InTransaction, SameGroup, StatusType, Purpose
    <3> QED
      BY <1>1, <1>2, <1>4, <1>a, <3>1, <3>2 DEF Apart
  <2> QED
    BY <2>1, <2>2, <2>3, Zenon DEF Apart, Open, OneGroupOf
<1>6. IsFiniteSet(InTransaction')
  BY <1>2, FS_AddElement DEF ConnectionsApart
<1> QED
  BY <1>1, <1>4, <1>5, <1>6, <1>a DEF ConnectionsApart, Connections

(* COMMIT gives the list it inserts the connection of its transaction; a   *)
(* list it did not insert keeps the one it has.                            *)
LEMMA CommitConnections ==
  ASSUME StoreInv, ConnectionsApart, NEW u \in Workers, Commit(u), Installable(u),
         pc[u] \in {"commitAllocate", "commitRevoke"},
         listId[u] \in DOMAIN rows =>
           /\ OneGroupOf(row[u], rows[listId[u]])
           /\ Open(row[u]) => Open(rows[listId[u]]),
         listId[u] \notin DOMAIN rows => SameGroup(row[u], call[u]) /\ Inserted(u)
  PROVE  ConnectionsApart'
<1> DEFINE new == listId[u]
<1>a. /\ DOMAIN rows' = DOMAIN rows \cup {new}
      /\ rows'[new] = row[u]
      /\ \A l \in DOMAIN rows : l # new => rows'[l] = rows[l]
      /\ \A w \in Workers \ {u} : SameWorker(w)
      /\ \A w \in Workers \ {u} : Inserted(w)' <=> Inserted(w)
      /\ pc'[u] = "idle"
  BY CommitRows, CommitOthers DEF Commit, Return, Goto, StoreInv, TypeOK
<1>1. PICK conn \in [Workers -> Connections], by \in [DOMAIN rows -> Connections] :
        Apart(conn, by)
  BY DEF ConnectionsApart
<1>2. u \in InTransaction /\ InTransaction' = InTransaction \ {u}
  BY <1>a DEF InTransaction, SameWorker
<1>3. InTransaction \subseteq Workers
  BY DEF InTransaction
<1>4. PICK now \in [DOMAIN rows' -> Connections] :
        /\ \A l \in DOMAIN rows : now[l] = by[l]
        /\ new \notin DOMAIN rows => now[new] = conn[u]
  <2> DEFINE f == [l \in DOMAIN rows' |-> IF l \in DOMAIN rows THEN by[l] ELSE conn[u]]
  <2>1. /\ f \in [DOMAIN rows' -> Connections]
        /\ \A l \in DOMAIN rows : f[l] = by[l]
        /\ new \notin DOMAIN rows => f[new] = conn[u]
    BY <1>a
  <2> HIDE DEF f
  <2> QED
    BY <2>1
(* A list that is open now was so before, unless it is the inserted one.   *)
<1>5. ASSUME NEW l \in DOMAIN rows, Open(rows'[l])
      PROVE  Open(rows[l]) /\ OneGroupOf(rows'[l], rows[l])
  BY <1>5, <1>a DEF OneGroupOf
<1>6. ASSUME NEW l \in DOMAIN rows', NEW w \in InTransaction', Missed(w, l)',
             l \in DOMAIN rows, Open(rows'[l])
      PROVE  Missed(w, l)
  <2>1. OneGroupOf(rows'[l], rows[l])
    BY <1>5, <1>6
  <2>2. w \in Workers \ {u} /\ SameWorker(w) /\ (Inserted(w)' <=> Inserted(w))
    BY <1>2, <1>3, <1>6, <1>a
  <2>3. SameGroup(rows'[l], call[w]) => SameGroup(rows[l], call[w])
    BY <2>1 DEF SameGroup, StatusType, Purpose, OneGroupOf
  <2>4. SameGroup(rows'[l], call'[w])
    BY <1>6 DEF Missed
  <2>5. (pc[w] = "lock" /\ l \notin cands[w]) \/ Inserted(w)
    BY <1>6, <2>2 DEF Missed, SameWorker
  <2> QED
    BY <2>2, <2>3, <2>4, <2>5 DEF Missed, SameWorker
<1>7. \A v, w \in InTransaction' : v # w => conn[v] # conn[w]
  BY <1>1, <1>2 DEF Apart
(* Whoever inserted a list missed all the others that are open.            *)
<1>8. ASSUME NEW m \in DOMAIN rows, new \notin DOMAIN rows,
             Open(rows'[m]), OneGroupOf(row[u], rows'[m])
      PROVE  by[m] # conn[u]
  <2>1. Open(rows[m]) /\ rows'[m] = rows[m]
    BY <1>5, <1>8, <1>a
  <2>2. Missed(u, m)
    BY <1>8, <2>1 DEF Missed, SameGroup, OneGroupOf
  <2> QED
    BY <1>1, <1>2, <2>1, <2>2 DEF Apart
<1>9. \A l, m \in DOMAIN rows' :
        l # m /\ Open(rows'[l]) /\ Open(rows'[m]) /\ OneGroupOf(rows'[l], rows'[m])
        => now[l] # now[m]
  <2> SUFFICES ASSUME NEW l \in DOMAIN rows', NEW m \in DOMAIN rows', l # m,
                      Open(rows'[l]), Open(rows'[m]), OneGroupOf(rows'[l], rows'[m])
               PROVE  now[l] # now[m]
    OBVIOUS
  <2>1. CASE l \in DOMAIN rows /\ m \in DOMAIN rows
    <3>1. OneGroupOf(rows[l], rows[m])
      BY <1>5, <2>1 DEF OneGroupOf
    <3> QED
      BY <1>1, <1>4, <1>5, <2>1, <3>1 DEF Apart
  <2>2. CASE l \notin DOMAIN rows
    BY <1>4, <1>8, <1>a, <2>2
  <2>3. CASE m \notin DOMAIN rows
    <3>1. OneGroupOf(rows'[m], rows'[l])
      BY DEF OneGroupOf
    <3> QED
      BY <1>4, <1>8, <1>a, <2>3, <3>1
  <2> QED
    BY <2>1, <2>2, <2>3
<1>10. \A w \in InTransaction' : \A l \in DOMAIN rows' :
         Open(rows'[l]) /\ Missed(w, l)' => now[l] # conn[w]
  <2> SUFFICES ASSUME NEW w \in InTransaction', NEW l \in DOMAIN rows',
                      Open(rows'[l]), Missed(w, l)'
               PROVE  now[l] # conn[w]
    OBVIOUS
  <2>1. CASE l \in DOMAIN rows
    BY <1>1, <1>2, <1>4, <1>5, <1>6, <2>1 DEF Apart
  <2>2. CASE l \notin DOMAIN rows
    BY <1>1, <1>2, <1>4, <1>a, <2>2 DEF Apart
  <2> QED
    BY <2>1, <2>2
<1>11. Apart(conn, now)'
  BY <1>7, <1>9, <1>10, Zenon DEF Apart, Open, OneGroupOf
<1>12. IsFiniteSet(InTransaction')
  BY <1>2, FS_Subset DEF ConnectionsApart
<1> QED
  BY <1>1, <1>4, <1>11, <1>12 DEF ConnectionsApart, Connections

LEMMA CommitAllocateConnections ==
  ASSUME StoreInv, ConnectionsApart, NEW u \in Workers, CommitAllocate(u)
  PROVE  ConnectionsApart'
<1> DEFINE x == rows[listId[u]]
<1>1. /\ pc[u] = "commitAllocate" /\ Commit(u)
      /\ Installable(u) /\ SameGroup(row[u], call[u])
  BY AllocationInstallable DEF CommitAllocate
<1>2. listId[u] \notin DOMAIN rows => Inserted(u)
  BY <1>1 DEF Inserted
<1>3. ASSUME listId[u] \in DOMAIN rows
      PROVE  OneGroupOf(row[u], x) /\ Open(x)
  <2>1. TakenOK(u)
    BY <1>1, <1>3 DEF StoreInv, WorkersOK, AllocationOK, Inserted
  <2>2. row[u] = WithEntry(x, x.bits, index[u], call[u].expires) /\ Open(x)
    BY <1>1, <2>1 DEF TakenOK
  <2>3. x \in Row
    BY <1>3, RowFacts
  <2> QED
    BY <2>2, <2>3 DEF WithEntry, OneGroupOf, Row
<1> QED
  BY <1>1, <1>2, <1>3, CommitConnections

LEMMA CommitRevokeConnections ==
  ASSUME StoreInv, ConnectionsApart, NEW u \in Workers, CommitRevoke(u)
  PROVE  ConnectionsApart'
<1> DEFINE x == rows[listId[u]]
           b == RevokeAtIndex(x.bits, call[u].index)
<1>1. pc[u] = "commitRevoke" /\ Commit(u) /\ Installable(u)
  BY RevocationInstallable DEF CommitRevoke
<1>2. listId[u] \in DOMAIN rows /\ row[u] = WithRevocation(x, b) /\ x \in Row
  BY <1>1, RowFacts DEF StoreInv, WorkersOK, RevocationOK, Locked
<1>3. OneGroupOf(row[u], x) /\ (Open(row[u]) => Open(x))
  BY <1>2 DEF WithRevocation, OneGroupOf, Open, Row
<1> QED
  BY <1>1, <1>2, <1>3, CommitConnections

(* A step of u that commits nothing, and after which u misses no open list *)
(* that it did not miss before, is harmless.                               *)
LEMMA LocalConnections ==
  ASSUME StoreInv, ConnectionsApart, NEW u \in Workers, rows' = rows,
         \A w \in Workers \ {u} : SameWorker(w),
         u \in InTransaction' => u \in InTransaction,
         \A l \in DOMAIN rows : Open(rows[l]) /\ Missed(u, l)' => Missed(u, l)
  PROVE  ConnectionsApart'
<1>1. InTransaction' \subseteq InTransaction
  BY DEF InTransaction, SameWorker
<1>2. ASSUME NEW w \in Workers \ {u}, NEW l \in DOMAIN rows, Missed(w, l)'
      PROVE  Missed(w, l)
  BY <1>2 DEF Missed, Inserted, SameWorker, SameGroup, StatusType, Purpose
<1>3. InTransaction' \subseteq Workers
  BY DEF InTransaction
<1> QED
  BY <1>1, <1>2, <1>3, SameConnections

LEMMA ConnectionsStep ==
  ASSUME StoreInv, ConnectionsApart, [Next]_vars
  PROVE  ConnectionsApart'
<1> USE DEF Goto, SameWorker, store
<1>a. /\ pc \in [Workers -> Labels] /\ held \in [Workers -> SUBSET Nat]
      /\ cands \in [Workers -> SUBSET Nat]
      /\ call \in [Workers -> Requests \cup Revocations \cup {None}]
      /\ listId \in [Workers -> Nat] /\ index \in [Workers -> Nat]
      /\ row \in [Workers -> Row \cup {None}]
  BY DEF StoreInv, TypeOK
<1>1. ASSUME NEW u \in Workers, Error(u)
      PROVE  ConnectionsApart'
  BY <1>a, <1>1, LocalConnections DEF Error, Return, InTransaction, Missed, Inserted
<1>2. ASSUME NEW u \in Workers, InvokeAllocate(u) \/ InvokeRevoke(u)
      PROVE  ConnectionsApart'
  BY <1>a, <1>2, LocalConnections
     DEF InvokeAllocate, InvokeRevoke, Invoke, InTransaction, Missed, Inserted
(* The snapshot has every open list of the group.                          *)
<1>3. ASSUME NEW u \in Workers, SelectCandidates(u)
      PROVE  ConnectionsApart'
  <2>1. /\ rows' = rows /\ pc[u] = "select" /\ pc'[u] = "lock"
        /\ cands'[u] = Candidates(call[u]) /\ call'[u] = call[u]
        /\ \A w \in Workers \ {u} : SameWorker(w)
    BY <1>a, <1>3 DEF SelectCandidates
  <2>2. ASSUME NEW l \in DOMAIN rows, Open(rows[l]), Missed(u, l)'
        PROVE  FALSE
    <3>1. SameGroup(rows[l], call[u])
      BY <2>1, <2>2 DEF Missed, SameGroup, StatusType, Purpose
    <3> QED
      BY <2>1, <2>2, <3>1 DEF Missed, Inserted, Candidates
  <2> QED
    BY <2>1, <2>2, LocalConnections DEF InTransaction
<1>4. ASSUME NEW u \in Workers, NEW l \in cands[u], LockOpenList(u, l)
      PROVE  ConnectionsApart'
  BY <1>a, <1>4, LocalConnections DEF LockOpenList, InTransaction, Missed, Inserted
(* A list that is passed over is full.                                     *)
<1>5. ASSUME NEW u \in Workers, NEW l \in cands[u], SkipFullList(u, l)
      PROVE  ConnectionsApart'
  <2>1. /\ rows' = rows /\ pc[u] = "lock" /\ pc' = pc /\ call' = call
        /\ cands'[u] = cands[u] \ {l} /\ listId' = listId
        /\ ~Open(rows[l])
        /\ \A w \in Workers \ {u} : SameWorker(w)
    BY <1>a, <1>5 DEF SkipFullList
  <2>2. ASSUME NEW m \in DOMAIN rows, Open(rows[m]), Missed(u, m)'
        PROVE  Missed(u, m)
    BY <2>1, <2>2 DEF Missed, Inserted, SameGroup, StatusType, Purpose
  <2> QED
    BY <2>1, <2>2, LocalConnections DEF InTransaction
(* Whoever inserts a list has passed over every candidate.                 *)
<1>6. ASSUME NEW u \in Workers, InsertList(u)
      PROVE  ConnectionsApart'
  <2>1. /\ rows' = rows /\ pc[u] = "lock" /\ pc'[u] = "setUrl" /\ call' = call
        /\ cands[u] = {}
        /\ \A w \in Workers \ {u} : SameWorker(w)
    BY <1>a, <1>6 DEF InsertList
  <2>2. ASSUME NEW m \in DOMAIN rows, Missed(u, m)'
        PROVE  Missed(u, m)
    BY <2>1, <2>2 DEF Missed, SameGroup, StatusType, Purpose
  <2> QED
    BY <2>1, <2>2, LocalConnections DEF InTransaction
<1>7. ASSUME NEW u \in Workers, SetStatusUrl(u) \/ UpdateList(u) \/ RevokeEntry(u)
      PROVE  ConnectionsApart'
  <2>1. /\ rows' = rows /\ pc[u] \in {"setUrl", "update", "revoke"}
        /\ pc'[u] \in {"commitAllocate", "commitRevoke"}
        /\ call' = call /\ listId' = listId
        /\ \A w \in Workers \ {u} : SameWorker(w)
    BY <1>a, <1>7 DEF SetStatusUrl, UpdateList, RevokeEntry
  <2>2. pc[u] = "update" => listId[u] \in DOMAIN rows
    BY DEF StoreInv, WorkersOK, AllocationOK, TakenOK, Locked
  <2>3. pc[u] = "revoke" => pc'[u] = "commitRevoke"
    BY <1>a, <1>7 DEF SetStatusUrl, UpdateList, RevokeEntry
  <2>4. ASSUME NEW m \in DOMAIN rows, Missed(u, m)'
        PROVE  Missed(u, m)
    BY <2>1, <2>2, <2>3, <2>4 DEF Missed, Inserted, SameGroup, StatusType, Purpose
  <2> QED
    BY <2>1, <2>4, LocalConnections DEF InTransaction
<1>8. ASSUME NEW u \in Workers, LockRevoked(u)
      PROVE  ConnectionsApart'
  BY <1>a, <1>8, LocalConnections DEF LockRevoked, InTransaction, Missed, Inserted
<1>9. ASSUME NEW u \in Workers, Allocate(u)
      PROVE  ConnectionsApart'
  BY <1>1, <1>3, <1>4, <1>5, <1>6, <1>7, <1>9, CommitAllocateConnections
     DEF Allocate, Lock, RefuseInsert
<1>10. ASSUME NEW u \in Workers, Revoke(u)
      PROVE  ConnectionsApart'
  BY <1>1, <1>7, <1>8, <1>10, CommitRevokeConnections
     DEF Revoke, RevokeNotFound, RevokePanic
<1>11. CASE UNCHANGED vars
  <2>1. /\ rows' = rows /\ InTransaction' = InTransaction
        /\ \A w \in Workers : SameWorker(w)
    BY <1>11 DEF vars, local, InTransaction
  <2>2. ASSUME NEW w \in InTransaction', NEW l \in DOMAIN rows, Missed(w, l)'
        PROVE  Missed(w, l)
    BY <2>1, <2>2
       DEF Missed, Inserted, InTransaction, SameGroup, StatusType, Purpose
  <2> QED
    BY <2>1, <2>2, SameConnections
<1> QED
  BY <1>1, <1>2, <1>9, <1>10, <1>11, BeginConnections DEF Next, Step, Fail, Quiesced

(* The open lists of a group are as many as connections they were inserted *)
(* on.                                                                     *)
LEMMA FewOpenLists ==
  ASSUME ConnectionsApart
  PROVE  BoundedFragmentation
<1> SUFFICES ASSUME NEW r \in Requests
             PROVE  Cardinality(Candidates(r)) <= MaxConns
  BY DEF BoundedFragmentation
<1>1. PICK conn \in [Workers -> Connections], by \in [DOMAIN rows -> Connections] :
        Apart(conn, by)
  BY DEF ConnectionsApart
<1> DEFINE f == [l \in Candidates(r) |-> by[l]]
<1>2. f \in Injection(Candidates(r), Connections)
  <2>1. f \in [Candidates(r) -> Connections]
    BY DEF Candidates
  <2>2. ASSUME NEW l \in Candidates(r), NEW m \in Candidates(r), l # m
        PROVE  f[l] # f[m]
    BY <1>1, <2>2 DEF Candidates, SameGroup, Apart, OneGroupOf
  <2> HIDE DEF f
  <2> QED
    BY <2>1, <2>2, Fun_IsInj
<1>3. IsFiniteSet(Connections) /\ Cardinality(Connections) = MaxConns
  BY ConnectionCount
<1> HIDE DEF f
<1> QED
  BY <1>2, <1>3, FS_Injection

(* The open lists of a group can always be given the connections that      *)
(* inserted them, no two the same one.                                     *)
THEOREM ConnectionsStayApart == Spec => []ConnectionsApart
<1>1. Init => ConnectionsApart
  <2> SUFFICES ASSUME Init
               PROVE  ConnectionsApart
    OBVIOUS
  <2>1. InTransaction = {} /\ DOMAIN rows = {}
    BY DEF Init, InTransaction
  <2>2. IsFiniteSet(InTransaction)
    BY <2>1, FS_EmptySet
  <2>3. 1 \in Connections
    <3>1. MaxConns \in Nat \ {0}
      BY StoreAssumption
    <3> QED
      BY <3>1 DEF Connections
  <2>4. /\ [w \in Workers |-> 1] \in [Workers -> Connections]
        /\ [l \in DOMAIN rows |-> 1] \in [DOMAIN rows -> Connections]
    BY <2>3
  <2>5. Apart([w \in Workers |-> 1], [l \in DOMAIN rows |-> 1])
    BY <2>1 DEF Apart
  <2> QED
    BY <2>2, <2>4, <2>5 DEF ConnectionsApart
<1> QED
  BY <1>1, ConnectionsStep, StoreInvariant, PTL DEF Spec

(* However many allocations insert a list because they do not see each     *)
(* other's, a group never has more lists with a free entry than the pool   *)
(* has connections.                                                        *)
THEOREM FragmentationIsBounded == Spec => []BoundedFragmentation
BY ConnectionsStayApart, FewOpenLists, PTL

===============================================================================
