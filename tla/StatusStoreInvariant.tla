------------------------- MODULE StatusStoreInvariant -------------------------
(***************************************************************************)
(* The inductive invariant of StatusStore: what a transaction knows about  *)
(* the row it works on between the statement that locked it and its        *)
(* COMMIT, while the other transactions go on.                             *)
(***************************************************************************)
EXTENDS StatusStore

Allocating == {"beginAllocate", "select", "lock", "update", "setUrl",
               "commitAllocate"}
Revoking == {"beginRevoke", "selectRevoke", "revoke", "commitRevoke"}

(* No row is locked by two transactions.                                   *)
LocksExclusive ==
  \A v, w \in Workers : v # w => held[v] \cap held[w] = {}

(* The running call is of the kind its worker executes.                    *)
CallOK(w) ==
  /\ pc[w] \in Allocating => call[w] \in Requests
  /\ pc[w] \in Revoking => call[w] \in Revocations

(* The candidates still to be locked are lists of the request's group.     *)
CandidatesOK(w) ==
  pc[w] = "lock" =>
    cands[w] \subseteq {l \in DOMAIN rows : SameGroup(rows[l], call[w])}

(* The list w works on is a committed one, locked by w.                    *)
Locked(w) == listId[w] \in DOMAIN rows \cap held[w]

(* ... or one w inserted and did not commit.                               *)
Inserted(w) ==
  /\ pc[w] \in {"setUrl", "commitAllocate"}
  /\ listId[w] \notin DOMAIN rows

FirstRow(w) == NewRow(call[w], NewList(ListSize[w]), 0)

InsertedOK(w) ==
  /\ listId[w] \in 1 .. nextListId - 1
  /\ index[w] = 0
  /\ 0 < ListSize[w]
  /\ row[w] = IF pc[w] = "setUrl" THEN FirstRow(w)
              ELSE WithUrl(FirstRow(w), listId[w])

(* An entry of a locked list is being taken: the row is the committed one, *)
(* and the index is its counter.                                           *)
TakenOK(w) ==
  LET x == rows[listId[w]] IN
  /\ Locked(w)
  /\ SameGroup(x, call[w])
  /\ Open(x)
  /\ index[w] = x.next
  /\ row[w] = IF pc[w] = "update" THEN x
              ELSE WithEntry(x, x.bits, index[w], call[w].expires)

AllocationOK(w) ==
  /\ pc[w] = "update" => TakenOK(w)
  /\ pc[w] = "setUrl" => Inserted(w) /\ InsertedOK(w)
  /\ pc[w] = "commitAllocate" =>
       IF Inserted(w) THEN InsertedOK(w) ELSE TakenOK(w)

RevocationOK(w) ==
  LET x == rows[listId[w]] IN
  pc[w] \in {"revoke", "commitRevoke"} =>
    /\ Locked(w)
    /\ pc[w] = "revoke" => row[w] = x
    /\ pc[w] = "commitRevoke" =>
         /\ InBounds(x.bits, call[w].index)
         /\ row[w] = WithRevocation(x, RevokeAtIndex(x.bits, call[w].index))

(* The identity sequence is ahead of every list, committed or not.         *)
IdsFresh ==
  /\ 0 < nextListId
  /\ DOMAIN rows \subseteq 1 .. nextListId - 1
  /\ \A v, w \in Workers :
       v # w /\ Inserted(v) /\ Inserted(w) => listId[v] # listId[w]

WorkersOK ==
  \A w \in Workers :
    CallOK(w) /\ CandidatesOK(w) /\ AllocationOK(w) /\ RevocationOK(w)

(* Every transaction may rely on the row it read until it commits: no      *)
(* other changes a row it locked or an id it was given.                    *)
StoreInv ==
  /\ TypeOK
  /\ RowsConsistent
  /\ LocksExclusive
  /\ IdsFresh
  /\ WorkersOK
  /\ UniqueEntries
  /\ EntryFitsRequest

-------------------------------------------------------------------------------
(* Why no transactions wait for each other in a circle: those that may     *)
(* wait hold no locks, or only those of lists they passed over, which come *)
(* before every candidate they have left.                                  *)
LocksInOrder ==
  \A w \in Workers :
    /\ pc[w] \in {"idle", "beginAllocate", "select", "beginRevoke",
                  "selectRevoke"} => held[w] = {}
    /\ pc[w] = "lock" => \A l \in held[w], m \in cands[w] : l < m

-------------------------------------------------------------------------------
(* Why a group has no more open lists than there are connections: the open *)
(* lists can be given the connections that inserted them, and no two share *)
(* one.                                                                    *)
Connections == 1 .. MaxConns

OneGroupOf(x, y) ==
  /\ x.tenant = y.tenant /\ x.signer = y.signer
  /\ x.type = y.type /\ x.purpose = y.purpose

(* Worker w will not take an entry of list l: it did not see it, passed    *)
(* over it or is inserting another.                                        *)
Missed(w, l) ==
  /\ \/ pc[w] = "lock" /\ l \notin cands[w]
     \/ Inserted(w)
  /\ SameGroup(rows[l], call[w])

(* Transactions have their own connections, and so have the open lists of  *)
(* a group; a transaction that missed an open list ran on another          *)
(* connection than the one that inserted it, since both ran at once.       *)
Apart(conn, by) ==
  /\ \A v, w \in InTransaction : v # w => conn[v] # conn[w]
  /\ \A l, m \in DOMAIN rows :
       l # m /\ Open(rows[l]) /\ Open(rows[m]) /\ OneGroupOf(rows[l], rows[m])
       => by[l] # by[m]
  /\ \A w \in InTransaction : \A l \in DOMAIN rows :
       Open(rows[l]) /\ Missed(w, l) => by[l] # conn[w]

ConnectionsApart ==
  /\ IsFiniteSet(InTransaction)
  /\ \E conn \in [Workers -> Connections] :
       \E by \in [DOMAIN rows -> Connections] : Apart(conn, by)

===============================================================================
