---------------------------- MODULE MCStatusStore ----------------------------
(***************************************************************************)
(* Small instances of StatusStore.                                         *)
(***************************************************************************)
EXTENDS StatusStoreInvariant, TLC

CONSTANTS w1, w2, w3, t1, t2, s1

MCRequest(t, type, purpose, expires) ==
  [tenant |-> t, signer |-> s1, type |-> type, purpose |-> purpose,
   expires |-> expires]

MCRevocation(t, l, i) == [tenant |-> t, list |-> l, index |-> i]

(* Requests of the same group that expire at different dates, one of them  *)
(* by default values; and such requests next to one of another tenant.     *)
OneGroup ==
  {MCRequest(t1, "", "", 2), MCRequest(t1, "StatusList2021", "revocation", 1)}
TwoTenants ==
  {MCRequest(t1, "", "", 1), MCRequest(t1, "", "", 2), MCRequest(t2, "", "", 1)}

(* Both entries of the first byte of list 1, and one beyond its end.       *)
SomeEntries == {MCRevocation(t1, 1, 0), MCRevocation(t1, 1, 1),
                MCRevocation(t1, 1, 2)}

OneByte == [w \in Workers |-> 1]

(* Processes configured with lists of no, one and two bytes.               *)
MixedSizes == [w \in Workers |-> CASE w = w1 -> 2 [] w = w2 -> 1 [] w = w3 -> 0]

(* Entries of two lists, by their own and by another tenant, the last one  *)
(* of a list of two bytes among them.                                      *)
OwnAndForeign ==
  {MCRevocation(t1, 1, 3), MCRevocation(t2, 1, 0), MCRevocation(t1, 2, 1)}

(* Go's division maps -1 to byte 0, as it does 0.                          *)
BeforeFirst == {MCRevocation(t1, 1, -1), MCRevocation(t1, 1, -2)}

(* Two concurrent inserts left two open lists with one free entry each;    *)
(* the behaviours that follow are those of Next.                           *)
MCOpenList(l) ==
  [tenant |-> t1, signer |-> s1, type |-> "StatusList2021",
   purpose |-> "revocation", version |-> 1, capacity |-> 2, next |-> 1,
   bits |-> <<{}>>, expires |-> 1, url |-> <<t1, l>>]

TwoOpenLists ==
  /\ rows = [l \in {1, 2} |-> MCOpenList(l)]
  /\ nextListId = 3
  /\ held = [w \in Workers |-> {}]
  /\ pc = [w \in Workers |-> "idle"]
  /\ call = [w \in Workers |-> None]
  /\ cands = [w \in Workers |-> {}]
  /\ listId = [w \in Workers |-> 0]
  /\ index = [w \in Workers |-> 0]
  /\ row = [w \in Workers |-> None]
  /\ calls = 0
  /\ granted = <<>> /\ revoked = {} /\ acked = {}

SpecOpenLists == TwoOpenLists /\ [][Next]_vars /\ Fairness
SpecEitherWay == (Init \/ TwoOpenLists) /\ [][Next]_vars

OneRequest == {MCRequest(t1, "", "", 1)}
FirstEntry == {MCRevocation(t1, 1, 0)}

SymmetricWorkers == Permutations(Workers)

===============================================================================
