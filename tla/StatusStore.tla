------------------------------ MODULE StatusStore ------------------------------
(***************************************************************************)
(* internal/database/postgres.go: the two read-write transactions over the *)
(* table status_lists, run by concurrent handlers (NATS handlers and HTTP  *)
(* handlers, of one or of several processes) against one PostgreSQL.       *)
(*                                                                         *)
(* One action is one call of the driver: BeginTx, each statement, Commit,  *)
(* with the in-memory work that precedes it.  Isolation is READ COMMITTED: *)
(* a statement sees the rows committed when it starts; SELECT ... FOR      *)
(* UPDATE then locks what it selected in list_id order, waits for a        *)
(* concurrent holder, and re-evaluates its WHERE clause on the latest      *)
(* version of the row, going on to the next row when it no longer holds.   *)
(* What a transaction wrote and has not committed is in the local state.   *)
(***************************************************************************)
EXTENDS StatusList, FiniteSets

CONSTANTS
  Workers,      \* the handlers that may run at the same time
  Tenants,      \* values of the column tenant_id
  Signers,      \* values of origin, did, key_ref, namespace, group together
  Types,        \* values of type, the default among them, "" if not given
  Purposes,     \* values of purpose, likewise
  Requests,     \* the AllocateStatusListEntryRequest values callers send
  Revocations,  \* the arguments of RevokeCredentialInSpecifiedList
  ListSize,     \* listSizeInBytes of the process each worker belongs to
  MaxConns,     \* connections of the pool
  MaxCalls,     \* bound on the number of calls in one behaviour
  None          \* no value

(* expires is the expiration date, a time.Time and so never NULL.          *)
Request == [tenant: Tenants, signer: Signers, type: Types,
            purpose: Purposes, expires: Nat]

Revocation == [tenant: Tenants, list: Nat, index: Int]

ASSUME StoreAssumption ==
  /\ {"", "StatusList2021"} \subseteq Types
  /\ {"", "revocation"} \subseteq Purposes
  /\ Requests \subseteq Request
  /\ Revocations \subseteq Revocation
  /\ ListSize \in [Workers -> Nat]
  /\ MaxConns \in Nat \ {0}
  /\ MaxCalls \in Nat

VARIABLES
  rows,        \* the committed rows of status_lists, by list_id
  nextListId,  \* the identity sequence: what it gave out is never given back
  held,        \* the row locks of each worker's transaction
  pc,          \* the driver call each worker makes next
  call,        \* the argument of the running call
  cands,       \* the list_ids its SELECT found and did not try to lock yet
  listId,      \* the local variable listID
  index,       \* the local variable index
  row,         \* the row it read; after its UPDATE or INSERT, what it wrote
  calls,       \* number of calls made so far
  granted,     \* history: the entries returned to callers, in order
  revoked,     \* history: the entries whose revocation was committed
  acked        \* history: the entries whose revocation returned no error

store == <<rows, nextListId>>
local == <<call, cands, listId, index, row>>
history == <<granted, revoked, acked>>
vars == <<store, held, pc, local, calls, history>>

-------------------------------------------------------------------------------
(* What the statements read and compute.                                   *)

StatusType(r) == IF r.type = "" THEN "StatusList2021" ELSE r.type
Purpose(r) == IF r.purpose = "" THEN "revocation" ELSE r.purpose

(* Fault: the raw purpose of the request is compared.                      *)
SameGroupRaw(x, r) ==
  /\ <<x.tenant, x.signer>> = <<r.tenant, r.signer>>
  /\ x.type = StatusType(r)
  /\ x.purpose = r.purpose

(* The WHERE clause of the SELECT: the lists of the request's tenant,      *)
(* signer, type and purpose, and among them those with a free entry.       *)
SameGroup(x, r) ==
  /\ x.tenant = r.tenant
  /\ x.signer = r.signer
  /\ x.type = StatusType(r)
  /\ x.purpose = Purpose(r)

Open(x) == x.next < x.capacity

(* Fault: lists of all tenants are candidates.                             *)
CandidatesOfAllTenants(r) ==
  {l \in DOMAIN rows : \E t \in Tenants :
     SameGroup(rows[l], [r EXCEPT !.tenant = t]) /\ Open(rows[l])}

Candidates(r) == {l \in DOMAIN rows : SameGroup(rows[l], r) /\ Open(rows[l])}

(* Fault: no ORDER BY.                                                     *)
IsAny(l, ids) == l \in ids

(* The ORDER BY: candidate rows are locked in the order of their ids.      *)
IsFirst(l, ids) == l \in ids /\ \A m \in ids : l <= m

(* Fault: SELECT without FOR UPDATE.                                       *)
LockIgnored(w, l) == TRUE

LockFree(w, l) == \A v \in Workers \ {w} : l \notin held[v]

(* entity.List as built from a row.                                        *)
ListOf(x) == [bytes |-> x.bits, free |-> x.capacity - x.next]

(* Fault: the capacity is counted in bytes.                                *)
NewRowInBytes(r, list, i) ==
  [tenant |-> r.tenant, signer |-> r.signer, type |-> StatusType(r),
   purpose |-> Purpose(r), version |-> 1, capacity |-> Len(list.bytes),
   next |-> i + 1, bits |-> list.bytes, expires |-> r.expires, url |-> <<>>]

(* The row the INSERT creates for request r, whose first entry is i.       *)
NewRow(r, list, i) ==
  [tenant |-> r.tenant, signer |-> r.signer, type |-> StatusType(r),
   purpose |-> Purpose(r), version |-> 1, capacity |-> BitLen(list.bytes),
   next |-> i + 1, bits |-> list.bytes, expires |-> r.expires, url |-> <<>>]

(* Fault: the URL lacks the tenant.                                        *)
WithUrlOfList(x, l) == [x EXCEPT !.url = <<l>>]

WithUrl(x, l) == [x EXCEPT !.url = <<x.tenant, l>>]

(* Fault: the UPDATE writes the bytes of a fresh list.                     *)
WithEntryCleared(x, bytes, i, expires) ==
  [x EXCEPT !.bits = NewBytes(Len(bytes)), !.next = i + 1,
            !.expires = IF @ < expires THEN expires ELSE @]

(* The UPDATE of an allocation on row x: the bytes that were read, the     *)
(* counter, and the later of the two expiration dates.                     *)
WithEntry(x, bytes, i, expires) ==
  [x EXCEPT !.bits = bytes, !.next = i + 1,
            !.expires = IF @ < expires THEN expires ELSE @]

(* The UPDATE of a revocation on row x.                                    *)
WithRevocation(x, bytes) == [x EXCEPT !.bits = bytes, !.version = @ + 1]

InTransaction ==
  {w \in Workers : pc[w] \notin {"idle", "beginAllocate", "beginRevoke"}}

-------------------------------------------------------------------------------
(* Steps the two transactions share.                                       *)

Goto(w, label) == pc' = [pc EXCEPT ![w] = label]

(* Fault: the transaction is left open, as without the deferred Rollback.  *)
ReturnLocked(w) ==
  /\ Goto(w, "idle")
  /\ held' = held
  /\ call' = [call EXCEPT ![w] = None]
  /\ cands' = [cands EXCEPT ![w] = {}]
  /\ listId' = [listId EXCEPT ![w] = 0]
  /\ index' = [index EXCEPT ![w] = 0]
  /\ row' = [row EXCEPT ![w] = None]

(* The call returns: its locks are released, its local variables are gone. *)
Return(w) ==
  /\ Goto(w, "idle")
  /\ held' = [held EXCEPT ![w] = {}]
  /\ call' = [call EXCEPT ![w] = None]
  /\ cands' = [cands EXCEPT ![w] = {}]
  /\ listId' = [listId EXCEPT ![w] = 0]
  /\ index' = [index EXCEPT ![w] = 0]
  /\ row' = [row EXCEPT ![w] = None]

Error(w) == Return(w) /\ UNCHANGED <<store, calls, history>>

(* A call begins; MaxCalls bounds the model.                               *)
Invoke(w, label, argument) ==
  /\ pc[w] = "idle"
  /\ calls < MaxCalls
  /\ calls' = calls + 1
  /\ call' = [call EXCEPT ![w] = argument]
  /\ Goto(w, label)
  /\ UNCHANGED <<store, held, cands, listId, index, row, history>>

InvokeAllocate(w) == \E r \in Requests : Invoke(w, "beginAllocate", r)
InvokeRevoke(w) == \E v \in Revocations : Invoke(w, "beginRevoke", v)

(* BeginTx waits for a connection of the pool.                             *)
BeginTx(w) ==
  /\ pc[w] \in {"beginAllocate", "beginRevoke"}
  /\ Cardinality(InTransaction) < MaxConns
  /\ Goto(w, IF pc[w] = "beginAllocate" THEN "select" ELSE "selectRevoke")
  /\ UNCHANGED <<store, held, local, calls, history>>

(* COMMIT makes the written row visible and the call returns; history says *)
(* what the caller learns.  The connection may be lost after the server    *)
(* committed: the call then returns an error.                              *)
Commit(w) ==
  /\ rows' = [l \in DOMAIN rows \cup {listId[w]} |->
                IF l = listId[w] THEN row[w] ELSE rows[l]]
  /\ Return(w)
  /\ UNCHANGED <<nextListId, calls>>

(* Any driver call may fail, the context may be cancelled, the process may *)
(* die: the transaction is rolled back and the call returns an error.      *)
Fail(w) == pc[w] # "idle" /\ Error(w)

-------------------------------------------------------------------------------
(* AllocateIndexInCurrentList.                                             *)

(* The SELECT starts: its snapshot fixes the candidate rows.               *)
SelectCandidates(w) ==
  /\ pc[w] = "select"
  /\ cands' = [cands EXCEPT ![w] = Candidates(call[w])]
  /\ Goto(w, "lock")
  /\ UNCHANGED <<store, held, call, listId, index, row, calls, history>>

(* The SELECT returns the first candidate that still has a free entry, and *)
(* the code takes that entry in memory.                                    *)
LockOpenList(w, l) ==
  /\ pc[w] = "lock"
  /\ IsFirst(l, cands[w])
  /\ LockFree(w, l)
  /\ Open(rows[l])
  /\ ~FullyAllocated(ListOf(rows[l]))
  /\ held' = [held EXCEPT ![w] = @ \cup {l}]
  /\ listId' = [listId EXCEPT ![w] = l]
  /\ index' = [index EXCEPT ![w] = NextFreeIndex(ListOf(rows[l]))]
  /\ row' = [row EXCEPT ![w] = rows[l]]
  /\ Goto(w, "update")
  /\ UNCHANGED <<store, call, cands, calls, history>>

(* The candidate was filled since the snapshot: the scan passes over it,   *)
(* and keeps its lock to the end of the transaction.                       *)
SkipFullList(w, l) ==
  /\ pc[w] = "lock"
  /\ IsFirst(l, cands[w])
  /\ LockFree(w, l)
  /\ ~Open(rows[l])
  /\ held' = [held EXCEPT ![w] = @ \cup {l}]
  /\ cands' = [cands EXCEPT ![w] = @ \ {l}]
  /\ UNCHANGED <<store, pc, call, listId, index, row, calls, history>>

(* The SELECT returns no row: a new list and its first entry are inserted. *)
InsertList(w) ==
  LET list == NewList(ListSize[w]) IN
  /\ pc[w] = "lock"
  /\ cands[w] = {}
  /\ ~FullyAllocated(list)
  /\ nextListId' = nextListId + 1
  /\ listId' = [listId EXCEPT ![w] = nextListId]
  /\ index' = [index EXCEPT ![w] = NextFreeIndex(list)]
  /\ row' = [row EXCEPT ![w] = NewRow(call[w], list, NextFreeIndex(list))]
  /\ Goto(w, "setUrl")
  /\ UNCHANGED <<rows, held, call, cands, calls, history>>

(* ... or, with lists of no bytes, ErrFullyAllocated is returned.          *)
RefuseInsert(w) ==
  /\ pc[w] = "lock"
  /\ cands[w] = {}
  /\ FullyAllocated(NewList(ListSize[w]))
  /\ Error(w)

SetStatusUrl(w) ==
  /\ pc[w] = "setUrl"
  /\ row' = [row EXCEPT ![w] = WithUrl(@, listId[w])]
  /\ Goto(w, "commitAllocate")
  /\ UNCHANGED <<store, held, call, cands, listId, index, calls, history>>

UpdateList(w) ==
  /\ pc[w] = "update"
  /\ row' = [row EXCEPT ![w] =
       WithEntry(rows[listId[w]], @.bits, index[w], call[w].expires)]
  /\ Goto(w, "commitAllocate")
  /\ UNCHANGED <<store, held, call, cands, listId, index, calls, history>>

Entry(w) == [list |-> listId[w], index |-> index[w], request |-> call[w]]

CommitAllocate(w) ==
  /\ pc[w] = "commitAllocate"
  /\ Commit(w)
  /\ \/ granted' = Append(granted, Entry(w))
     \/ UNCHANGED granted                      \* the reply was lost
  /\ UNCHANGED <<revoked, acked>>

Lock(w) == \E l \in cands[w] : LockOpenList(w, l) \/ SkipFullList(w, l)

Allocate(w) ==
  \/ SelectCandidates(w) \/ Lock(w) \/ InsertList(w) \/ RefuseInsert(w)
  \/ SetStatusUrl(w) \/ UpdateList(w) \/ CommitAllocate(w)

-------------------------------------------------------------------------------
(* RevokeCredentialInSpecifiedList.                                        *)

Selected(v) == {l \in DOMAIN rows : l = v.list /\ rows[l].tenant = v.tenant}

RevokeNotFound(w) ==
  /\ pc[w] = "selectRevoke"
  /\ Selected(call[w]) = {}
  /\ Error(w)

LockRevoked(w) ==
  /\ pc[w] = "selectRevoke"
  /\ \E l \in Selected(call[w]) :
       /\ LockFree(w, l)
       /\ held' = [held EXCEPT ![w] = {l}]
       /\ listId' = [listId EXCEPT ![w] = l]
       /\ row' = [row EXCEPT ![w] = rows[l]]
  /\ Goto(w, "revoke")
  /\ UNCHANGED <<store, call, cands, index, calls, history>>

(* The slice access panics: the deferred Rollback runs, and the server     *)
(* closes the connection of the request.                                   *)
RevokePanic(w) ==
  /\ pc[w] = "revoke"
  /\ ~InBounds(row[w].bits, call[w].index)
  /\ Error(w)

RevokeEntry(w) ==
  /\ pc[w] = "revoke"
  /\ InBounds(row[w].bits, call[w].index)
  /\ row' = [row EXCEPT ![w] =
       WithRevocation(rows[listId[w]], RevokeAtIndex(@.bits, call[w].index))]
  /\ Goto(w, "commitRevoke")
  /\ UNCHANGED <<store, held, call, cands, listId, index, calls, history>>

CommitRevoke(w) ==
  LET entry == <<listId[w], call[w].index>> IN
  /\ pc[w] = "commitRevoke"
  /\ Commit(w)
  /\ revoked' = revoked \cup {entry}
  /\ acked' \in {acked, acked \cup {entry}}    \* the reply may be lost
  /\ UNCHANGED granted

Revoke(w) ==
  \/ RevokeNotFound(w) \/ LockRevoked(w) \/ RevokePanic(w) \/ RevokeEntry(w)
  \/ CommitRevoke(w)

-------------------------------------------------------------------------------
Init ==
  /\ rows = [l \in {} |-> None]
  /\ nextListId = 1
  /\ held = [w \in Workers |-> {}]
  /\ pc = [w \in Workers |-> "idle"]
  /\ call = [w \in Workers |-> None]
  /\ cands = [w \in Workers |-> {}]
  /\ listId = [w \in Workers |-> 0]
  /\ index = [w \in Workers |-> 0]
  /\ row = [w \in Workers |-> None]
  /\ calls = 0
  /\ granted = <<>>
  /\ revoked = {}
  /\ acked = {}

(* All calls of the bounded behaviour were made and have returned.         *)
Quiesced ==
  /\ calls = MaxCalls
  /\ \A w \in Workers : pc[w] = "idle"
  /\ UNCHANGED vars

Step(w) == BeginTx(w) \/ Allocate(w) \/ Revoke(w)

Next ==
  \/ \E w \in Workers :
       InvokeAllocate(w) \/ InvokeRevoke(w) \/ Step(w) \/ Fail(w)
  \/ Quiesced

Spec == Init /\ [][Next]_vars

(* A running handler takes its next step; the queue of a row lock and the  *)
(* queue of the pool are first come, first served.  No call has to be made *)
(* and nothing has to fail.                                                *)
Fairness ==
  \A w \in Workers :
    /\ WF_vars(Step(w))
    /\ SF_vars(BeginTx(w)) /\ SF_vars(Lock(w)) /\ SF_vars(LockRevoked(w))

FairSpec == Spec /\ Fairness

-------------------------------------------------------------------------------
(* What the store promises.                                                *)

Row == [tenant: Tenants, signer: Signers, type: Types, purpose: Purposes,
        version: Nat, capacity: Nat, next: Nat, bits: Seq(Byte),
        expires: Nat, url: (Tenants \X Nat) \cup {<<>>}]

GrantedEntry == [list: Nat, index: Nat, request: Requests]

Labels == {"idle", "beginAllocate", "select", "lock", "update", "setUrl",
           "commitAllocate", "beginRevoke", "selectRevoke", "revoke",
           "commitRevoke"}

(* The types of the state variables.                                       *)
TypeOK ==
  /\ DOMAIN rows \subseteq Nat
  /\ rows \in [DOMAIN rows -> Row]
  /\ nextListId \in Nat
  /\ held \in [Workers -> SUBSET Nat]
  /\ pc \in [Workers -> Labels]
  /\ call \in [Workers -> Requests \cup Revocations \cup {None}]
  /\ cands \in [Workers -> SUBSET Nat]
  /\ listId \in [Workers -> Nat]
  /\ index \in [Workers -> Nat]
  /\ row \in [Workers -> Row \cup {None}]
  /\ calls \in Nat
  /\ granted \in Seq(GrantedEntry)
  /\ revoked \subseteq Nat \X Int
  /\ acked \subseteq Nat \X Int

(* AllocateNextFreeIndex derives the index from len(List)*8 and            *)
(* capacity - next_index: it is the stored counter only as long as the     *)
(* capacity of the row is the length of its own bytes, whatever list size  *)
(* the allocating process was configured with.  The CHECK constraints of   *)
(* the table hold, and no reader sees a row without its own status_url.    *)
RowsConsistent ==
  \A l \in DOMAIN rows :
    /\ rows[l].capacity = BitLen(rows[l].bits)
    /\ 0 < rows[l].capacity /\ rows[l].next <= rows[l].capacity
    /\ rows[l].url = <<rows[l].tenant, l>>

(* No entry is returned to two callers of AllocateIndexInCurrentList, and  *)
(* every entry returned lies below the counter of its list.                *)
UniqueEntries ==
  /\ \A j, k \in DOMAIN granted :
       /\ granted[j].list = granted[k].list
       /\ granted[j].index = granted[k].index
       => j = k
  /\ \A k \in DOMAIN granted :
       /\ granted[k].list \in DOMAIN rows
       /\ granted[k].index < rows[granted[k].list].next

(* The list of an entry has the tenant, signer, type and purpose its       *)
(* caller asked for, and does not expire before the credential does.       *)
EntryFitsRequest ==
  \A k \in DOMAIN granted :
    LET x == rows[granted[k].list]
        r == granted[k].request
    IN SameGroup(x, r) /\ r.expires <= x.expires

RevokedIn(x) == {i \in 0 .. BitLen(x.bits) - 1 : CheckBitAtIndex(x.bits, i)}

(* The bits that are 1 are those of the committed revocations: none is     *)
(* lost to a concurrent allocation or revocation, none sets another bit.   *)
RevocationsExact ==
  \A l \in DOMAIN rows :
    RevokedIn(rows[l]) = {i \in 0 .. BitLen(rows[l].bits) - 1 : <<l, i>> \in revoked}

(* A revocation that was acknowledged is in the list: the bit at the given *)
(* index is set.                                                           *)
AcknowledgedIsSet ==
  \A e \in acked : e[1] \in DOMAIN rows /\ e[2] \in RevokedIn(rows[e[1]])

(* A reader of a Token Status List, who takes the entries of a byte from   *)
(* the least significant bit up, finds exactly the revoked entries.        *)
LeastSignificantFirst ==
  \A l \in DOMAIN rows : \A i \in 0 .. BitLen(rows[l].bits) - 1 :
    i % ByteWidth \in rows[l].bits[i \div ByteWidth + 1] <=> <<l, i>> \in revoked

(* A row that was committed stays; its bits, counter and expiration date   *)
(* never go back; its version goes up by one when a bit changes.           *)
RowGrows(x, y) ==
  /\ <<x.tenant, x.signer, x.type, x.purpose>>
     = <<y.tenant, y.signer, y.type, y.purpose>>
  /\ x.url = y.url /\ x.capacity = y.capacity
  /\ x.next <= y.next /\ x.expires <= y.expires
  /\ RevokedIn(x) \subseteq RevokedIn(y)
  /\ y.version = x.version \/ y.version = x.version + 1
  /\ RevokedIn(x) # RevokedIn(y) => y.version = x.version + 1

ListsOnlyGrow ==
  [][\A l \in DOMAIN rows : l \in DOMAIN rows' /\ RowGrows(rows[l], rows'[l])]_vars

(* Worker v waits for a row lock that w holds.                             *)
WaitsFor(v, w) ==
  /\ v # w
  /\ \/ pc[v] = "lock" /\ \E l \in held[w] : IsFirst(l, cands[v])
     \/ pc[v] = "selectRevoke" /\ Selected(call[v]) \cap held[w] # {}

(* A transaction may hold the locks of lists it passed over while it waits *)
(* for the next one; still no transactions wait for each other.            *)
NoLockCycle ==
  \A S \in (SUBSET Workers) \ {{}} :
    \E v \in S : \A w \in S : ~WaitsFor(v, w)

(* Concurrent allocations may each insert a list because neither sees the  *)
(* other's; but the transactions that did all ran at the same time, so     *)
(* a group never has more open lists than the pool has connections.        *)
BoundedFragmentation ==
  \A r \in Requests : Cardinality(Candidates(r)) <= MaxConns

(* The store is a registry: committed rows are its lists.                  *)
ListOfRow(x) ==
  [size |-> x.capacity, taken |-> 0 .. x.next - 1, revoked |-> RevokedIn(x)]

Lists == [l \in DOMAIN rows |-> ListOfRow(rows[l])]
Told == [k \in DOMAIN granted |-> <<granted[k].list, granted[k].index>>]

Registry == INSTANCE StatusRegistry WITH lists <- Lists, told <- Told

(* Every commit is one step of the registry, everything else a stutter: no *)
(* entry is handed out twice, a revoked entry stays revoked, and a caller  *)
(* is only told what happened.                                             *)
ImplementsRegistry == Registry!Spec

(* Every call of the store returns.                                        *)
EveryCallReturns == \A w \in Workers : pc[w] # "idle" ~> pc[w] = "idle"

===============================================================================
