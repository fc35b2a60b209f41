---------------------------- MODULE StatusRegistry ----------------------------
(***************************************************************************)
(* What internal/database promises to the rest of the service, whatever    *)
(* its transactions do: lists of a fixed size whose entries are handed out *)
(* once and revoked for good.  Each operation is one step; StatusStore     *)
(* implements it.                                                          *)
(***************************************************************************)
EXTENDS Integers, Sequences

VARIABLES
  lists,  \* [size, taken, revoked] by list_id: entries handed out, revoked
  told,   \* the entries returned to callers, <<list, index>>, in order
  acked   \* the entries whose revocation was confirmed to the caller

vars == <<lists, told, acked>>

(* The caller of a step that took place is told so, or gets an error.      *)
Tell(l, i) == told' = Append(told, <<l, i>>) \/ UNCHANGED told
Confirm(l, i) == acked' = acked \cup {<<l, i>>} \/ UNCHANGED acked

(* Entry 0 of a new list is handed out.                                    *)
OpenList(l, size) ==
  /\ l \notin DOMAIN lists
  /\ 0 < size
  /\ lists' = [m \in DOMAIN lists \cup {l} |->
                 IF m = l THEN [size |-> size, taken |-> {0}, revoked |-> {}]
                 ELSE lists[m]]
  /\ Tell(l, 0)
  /\ UNCHANGED acked

(* An entry nobody was given is handed out.                                *)
GrantEntry(l, i) ==
  /\ l \in DOMAIN lists
  /\ i \in (0 .. lists[l].size - 1) \ lists[l].taken
  /\ lists' = [lists EXCEPT ![l].taken = @ \cup {i}]
  /\ Tell(l, i)
  /\ UNCHANGED acked

(* An entry is revoked, handed out or not: the code does not tell them     *)
(* apart.                                                                  *)
RevokeEntry(l, i) ==
  /\ l \in DOMAIN lists
  /\ i \in 0 .. lists[l].size - 1
  /\ lists' = [lists EXCEPT ![l].revoked = @ \cup {i}]
  /\ Confirm(l, i)
  /\ UNCHANGED told

Init == lists = [l \in {} |-> {}] /\ told = <<>> /\ acked = {}

Next ==
  \/ \E l \in DOMAIN lists' : OpenList(l, lists'[l].size)
  \/ \E l \in DOMAIN lists : \E i \in 0 .. lists[l].size - 1 :
       GrantEntry(l, i) \/ RevokeEntry(l, i)

Spec == Init /\ [][Next]_vars

===============================================================================
