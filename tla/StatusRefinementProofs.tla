------------------------ MODULE StatusRefinementProofs ------------------------
(***************************************************************************)
(* Proof that the transactions of StatusStore implement StatusRegistry:    *)
(* every COMMIT is one step of the registry and everything else a stutter, *)
(* for revocations of indices that are not negative.                       *)
(***************************************************************************)
EXTENDS StatusRevocationProofs

(* Callers revoke by the indices a list can have; a negative one may be    *)
(* acknowledged although nothing is revoked (NegativeRevokeIsLost).        *)
NoNegativeIndex == \A v \in Revocations : v.index >= 0

-------------------------------------------------------------------------------
(* What the writes of the transactions are in the registry.                *)

(* The INSERT opens a list whose entry 0 is taken.                         *)
LEMMA FirstRowIsOpenList ==
  ASSUME NEW x, x.next = 1, RevokedIn(x) = {}
  PROVE  ListOfRow(x) = [size |-> x.capacity, taken |-> {0}, revoked |-> {}]
<1>1. 0 .. x.next - 1 = {0}
  OBVIOUS
<1> QED
  BY <1>1 DEF ListOfRow

(* One field of a list of the registry is changed.                         *)
LEMMA ListChange ==
  ASSUME NEW a, NEW b, NEW c, NEW d
  PROVE  LET list == [size |-> a, taken |-> b, revoked |-> c] IN
         /\ [list EXCEPT !.taken = @ \cup d]
              = [size |-> a, taken |-> b \cup d, revoked |-> c]
         /\ [list EXCEPT !.revoked = @ \cup d]
              = [size |-> a, taken |-> b, revoked |-> c \cup d]
  OBVIOUS

(* The UPDATE of an allocation takes the entry the counter stood at.       *)
LEMMA EntryIsTaken ==
  ASSUME NEW x \in Row, NEW e \in Nat, Open(x)
  PROVE  /\ ListOfRow(WithEntry(x, x.bits, x.next, e))
              = [ListOfRow(x) EXCEPT !.taken = @ \cup {x.next}]
         /\ x.next \in (0 .. ListOfRow(x).size - 1) \ ListOfRow(x).taken
<1> DEFINE y == WithEntry(x, x.bits, x.next, e)
<1>1. x.next \in Nat /\ x.capacity \in Nat /\ x.next < x.capacity
  BY DEF Row, Open
<1>2. y.capacity = x.capacity /\ y.next = x.next + 1 /\ RevokedIn(y) = RevokedIn(x)
  BY EntryGrows DEF WithEntry, Row
<1>3. 0 .. y.next - 1 = (0 .. x.next - 1) \cup {x.next}
  BY <1>1, <1>2
<1> HIDE DEF y
<1>4. ListOfRow(y) = [ListOfRow(x) EXCEPT !.taken = @ \cup {x.next}]
  <2>1. [ListOfRow(x) EXCEPT !.taken = @ \cup {x.next}]
          = [size |-> x.capacity, taken |-> (0 .. x.next - 1) \cup {x.next},
             revoked |-> RevokedIn(x)]
    BY ListChange DEF ListOfRow
  <2> QED
    BY <1>2, <1>3, <2>1, Zenon DEF ListOfRow
<1>5. x.next \in (0 .. ListOfRow(x).size - 1) \ ListOfRow(x).taken
  BY <1>1 DEF ListOfRow
<1> QED
  BY <1>4, <1>5 DEF y

(* The UPDATE of a revocation revokes its entry.                           *)
LEMMA EntryIsRevoked ==
  ASSUME NEW x \in Row, NEW i \in 0 .. BitLen(x.bits) - 1
  PROVE  ListOfRow(WithRevocation(x, RevokeAtIndex(x.bits, i)))
           = [ListOfRow(x) EXCEPT !.revoked = @ \cup {i}]
<1> DEFINE y == WithRevocation(x, RevokeAtIndex(x.bits, i))
<1>1. x.bits \in Seq(Byte) /\ i \in Int /\ InBounds(x.bits, i)
  BY EntryInBounds DEF Row
<1>2. RevokedIn(y) = RevokedIn(x) \cup {i}
  BY <1>1, RevocationSets
<1>3. y.capacity = x.capacity /\ y.next = x.next
  BY DEF WithRevocation, Row
<1> DEFINE taken == 0 .. x.next - 1
           list == [size |-> x.capacity, taken |-> taken, revoked |-> RevokedIn(x)]
<1>4. [list EXCEPT !.revoked = @ \cup {i}]
        = [size |-> x.capacity, taken |-> taken, revoked |-> RevokedIn(x) \cup {i}]
  <2> HIDE DEF taken
  <2> QED
    BY ListChange
<1> QED
  BY <1>2, <1>3, <1>4, Zenon DEF ListOfRow

-------------------------------------------------------------------------------
(* The two commits.                                                        *)

(* What the caller of an allocation is told.                               *)
LEMMA EntryIsTold ==
  ASSUME StoreInv, NEW u \in Workers, CommitAllocate(u)
  PROVE  Registry!Tell(listId[u], index[u])
<1>1. CASE granted' = granted
  BY <1>1 DEF Registry!Tell, Told
<1>2. CASE granted' = Append(granted, Entry(u))
  <2>1. granted \in Seq(GrantedEntry)
    BY DEF StoreInv, TypeOK
  <2>2. /\ DOMAIN granted' = 1 .. Len(granted) + 1
        /\ \A k \in 1 .. Len(granted) : granted'[k] = granted[k]
        /\ granted'[Len(granted) + 1] = Entry(u)
        /\ DOMAIN granted = 1 .. Len(granted) /\ Len(granted) \in Nat
    BY <1>2, <2>1
  <2>3. Told \in Seq(Nat \X Nat) /\ Len(Told) = Len(granted)
    <3>1. \A k \in 1 .. Len(granted) :
            <<granted[k].list, granted[k].index>> \in Nat \X Nat
      <4> SUFFICES ASSUME NEW k \in 1 .. Len(granted)
                   PROVE  <<granted[k].list, granted[k].index>> \in Nat \X Nat
        OBVIOUS
      <4>1. granted[k] \in GrantedEntry
        BY <2>1, ElementOfSeq
      <4> QED
        BY <4>1 DEF GrantedEntry
    <3>2. Told = [k \in 1 .. Len(granted) |-> <<granted[k].list, granted[k].index>>]
      BY <2>2 DEF Told
    <3> QED
      BY <2>2, <3>1, <3>2
  <2>4. Told' = Append(Told, <<listId[u], index[u]>>)
    <3>1. Append(Told, <<listId[u], index[u]>>)
            = [k \in 1 .. Len(Told) + 1 |->
                 IF k <= Len(Told) THEN Told[k] ELSE <<listId[u], index[u]>>]
      BY <2>3
    <3> QED
      BY <2>2, <2>3, <3>1 DEF Told, Entry
  <2> QED
    BY <2>4 DEF Registry!Tell
<1> QED
  BY <1>1, <1>2 DEF CommitAllocate

LEMMA AllocationIsStep ==
  ASSUME StoreInv, NEW u \in Workers, CommitAllocate(u)
  PROVE  Registry!Next
<1> DEFINE l == listId[u]
           i == index[u]
<1>1. /\ pc[u] = "commitAllocate" /\ Commit(u) /\ acked' = acked
      /\ Installable(u)
  BY AllocationInstallable DEF CommitAllocate
<1>2. Registry!Tell(l, i)
  BY EntryIsTold
<1>3. /\ DOMAIN rows' = DOMAIN rows \cup {l}
      /\ rows'[l] = row[u]
      /\ \A m \in DOMAIN rows : m # l => rows'[m] = rows[m]
  BY <1>1, CommitRows
<1>4. CASE Inserted(u)
  <2>1. /\ l \notin DOMAIN rows /\ index[u] = 0
        /\ row[u] = WithUrl(FirstRow(u), l) /\ ListSize[u] \in Nat
    BY <1>1, <1>4, InsertedFresh, StoreAssumption DEF InsertedOK, Inserted
  <2>2. row[u].next = 1 /\ row[u].bits = NewBytes(ListSize[u])
    BY <2>1 DEF WithUrl, FirstRow, NewRow, NewList
  <2>3. ListOfRow(row[u])
          = [size |-> row[u].capacity, taken |-> {0}, revoked |-> {}]
    BY <2>1, <2>2, NothingRevokedAtFirst, FirstRowIsOpenList
  <2>4. 0 < row[u].capacity
    BY <1>1 DEF Installable
  <2>5. Lists' = [m \in DOMAIN Lists \cup {l} |->
                    IF m = l THEN [size |-> row[u].capacity, taken |-> {0}, revoked |-> {}]
                    ELSE Lists[m]]
    BY <1>3, <2>1, <2>3 DEF Lists, ListOfRow, RevokedIn
  <2>6. Registry!OpenList(l, row[u].capacity)
    BY <1>1, <1>2, <2>1, <2>4, <2>5 DEF Registry!OpenList, Lists
  <2>7. l \in DOMAIN Lists' /\ Lists'[l].size = row[u].capacity
    BY <2>5
  <2> QED
    BY <2>6, <2>7 DEF Registry!Next
<1>5. CASE ~Inserted(u)
  <2> DEFINE x == rows[l]
  <2>1. /\ TakenOK(u) /\ call[u].expires \in Nat
    BY <1>1, <1>5, StoreAssumption
       DEF StoreInv, WorkersOK, AllocationOK, CallOK, Allocating, Request
  <2>2. /\ l \in DOMAIN rows /\ Open(x) /\ i = x.next /\ x \in Row
        /\ row[u] = WithEntry(x, x.bits, x.next, call[u].expires)
    BY <1>1, <2>1, RowFacts DEF TakenOK, Locked
  <2>3. /\ ListOfRow(row[u]) = [ListOfRow(x) EXCEPT !.taken = @ \cup {i}]
        /\ i \in (0 .. ListOfRow(x).size - 1) \ ListOfRow(x).taken
    BY <2>1, <2>2, EntryIsTaken
  <2>4. l \in DOMAIN Lists /\ Lists[l] = ListOfRow(x)
    BY <2>2 DEF Lists
  <2>5. Lists' = [m \in DOMAIN rows |-> IF m = l THEN ListOfRow(row[u]) ELSE ListOfRow(rows[m])]
    BY <1>3, <2>2 DEF Lists, ListOfRow, RevokedIn
  <2>6. Lists' = [Lists EXCEPT ![l].taken = @ \cup {i}]
    BY <2>3, <2>4, <2>5 DEF Lists
  <2>7. Registry!GrantEntry(l, i) /\ i \in 0 .. Lists[l].size - 1
    BY <1>1, <1>2, <2>3, <2>4, <2>6 DEF Registry!GrantEntry
  <2> QED
    BY <2>4, <2>7 DEF Registry!Next
<1> QED
  BY <1>4, <1>5

LEMMA RevocationIsStep ==
  ASSUME StoreInv, NoNegativeIndex, NEW u \in Workers, CommitRevoke(u)
  PROVE  Registry!Next
<1> DEFINE l == listId[u]
           i == call[u].index
           x == rows[l]
           y == WithRevocation(x, RevokeAtIndex(x.bits, i))
<1>1. /\ l \in DOMAIN rows /\ i \in Int /\ InBounds(x.bits, i)
      /\ rows' = [rows EXCEPT ![l] = y]
  BY RevocationCommitted
<1>2. /\ granted' = granted
      /\ acked' = acked \/ acked' = acked \cup {<<l, i>>}
  BY DEF CommitRevoke
<1>3. i >= 0
  BY DEF CommitRevoke, StoreInv, WorkersOK, CallOK, Revoking, NoNegativeIndex
<1>4. x \in Row /\ x.bits \in Seq(Byte) /\ x.capacity = BitLen(x.bits)
  BY <1>1, RowFacts DEF StoreInv, RowsConsistent
<1>5. i \in 0 .. BitLen(x.bits) - 1
  BY <1>1, <1>3, <1>4, InBoundsCases
<1>6. ListOfRow(y) = [ListOfRow(x) EXCEPT !.revoked = @ \cup {i}]
  BY <1>4, <1>5, EntryIsRevoked
<1>7. l \in DOMAIN Lists /\ Lists[l] = ListOfRow(x) /\ Lists[l].size = x.capacity
  BY <1>1 DEF Lists, ListOfRow
<1> HIDE DEF y, x, i
<1>8. Lists' = [m \in DOMAIN rows |-> IF m = l THEN ListOfRow(y) ELSE ListOfRow(rows[m])]
  BY <1>1 DEF Lists, ListOfRow, RevokedIn
<1>9. Lists' = [Lists EXCEPT ![l].revoked = @ \cup {i}]
  BY <1>6, <1>7, <1>8 DEF Lists
<1>10. Registry!RevokeEntry(l, i) /\ i \in 0 .. Lists[l].size - 1
  BY <1>2, <1>4, <1>5, <1>7, <1>9
     DEF Registry!RevokeEntry, Registry!Confirm, Told
<1> QED
  BY <1>7, <1>10 DEF Registry!Next

-------------------------------------------------------------------------------
(* Concurrent transactions with all their failures are, to their callers,  *)
(* single steps on lists whose entries are handed out once and stay        *)
(* revoked.                                                                *)
THEOREM RegistryImplemented ==
  ASSUME NoNegativeIndex
  PROVE  Spec => ImplementsRegistry
<1>1. Init => Registry!Init
  BY DEF Init, Registry!Init, Lists, Told
<1>2. ASSUME StoreInv, [Next]_vars
      PROVE  [Registry!Next]_(Registry!vars)
  <2>1. CASE UNCHANGED <<rows, granted, revoked, acked>>
    BY <2>1 DEF Registry!vars, Lists, Told, ListOfRow, RevokedIn
  <2> QED
    BY <1>2, <2>1, OnlyCommitsWrite, AllocationIsStep, RevocationIsStep
<1> QED
  BY <1>1, <1>2, StoreInvariant, PTL DEF Spec, ImplementsRegistry, Registry!Spec

===============================================================================
