-------------------------- MODULE StatusHttpInvariant --------------------------
(***************************************************************************)
(* The inductive invariant of StatusHttp: what is true of the lists, of    *)
(* what clients know of them, and of each exchange at each of its stages.  *)
(* It is stated for the requests of any client, so that it also holds next *)
(* to the event handlers of StatusMessaging, who fetch lists themselves.   *)
(***************************************************************************)
EXTENDS StatusHttp

EntryNumbers == 0 .. Size - 1

ListsOK ==
  /\ DOMAIN lists \subseteq 1 .. MaxLists
  /\ lists \in [DOMAIN lists -> [size : {Size}, taken : SUBSET EntryNumbers,
                                 revoked : SUBSET EntryNumbers]]
  /\ group \in [DOMAIN lists -> Groups]

(* The indexes that are confirmed although no bit is set                   *)
(* (RevokeBeforeFirst).                                                    *)
BeforeFirst == (1 - ByteWidth) .. -1

(* What a client may have been told.                                       *)
Revocations ==
  {e \in (DOMAIN lists) \X Int :
     e[2] \in lists[e[1]].revoked \/ e[2] \in BeforeFirst}

RequestOK(r) == r.kind \in {"getList", "revoke", "health"}

(* The bits a handler has read of a list, to answer its request: all that  *)
(* was known when the request was sent, and nothing that is not revoked.   *)
Read(c, l, bits) ==
  /\ l \in Found(request[c])
  /\ bits \subseteq lists[l].revoked
  /\ since[c] \cap EntriesOf(l) \subseteq {l} \X bits

RowWith(l, bits) == [Row(l) EXCEPT !.bits = bits]

SignOK(c) ==
  /\ request[c].kind = "getList"
  /\ FormOf(request[c].accept) = "token"
  /\ \E l \in DOMAIN lists : \E bits \in SUBSET lists[l].revoked :
       Read(c, l, bits) /\ loaded[c] = RowWith(l, bits)

AnswerOK(c) ==
  LET r == request[c]
      a == answer[c]
      Body(value) == a.body = Written(r.accept, value)
  IN /\ a.status \in {200, 400, 500}
     /\ a.type = ContentType(r.accept)
     /\ a.status = 200 =>
          /\ r.kind = "getList" =>
               \E l \in DOMAIN lists : \E bits \in SUBSET lists[l].revoked :
                 Read(c, l, bits) /\ Body(Value(FormOf(r.accept), RowWith(l, bits)))
          /\ r.kind = "revoke" =>
               /\ Found(r) # {} /\ <<r.list, r.index>> \in Revocations
               /\ Body([form |-> "revoked"])
          /\ r.kind = "health" => Body([form |-> "text"])

Exchange(c) ==
  /\ since[c] \subseteq known
  /\ IF stage[c] = "idle" THEN request[c] = None ELSE RequestOK(request[c])
  /\ stage[c] \in {"getList", "revoke", "health"} => request[c].kind = stage[c]
  /\ stage[c] = "sign" => SignOK(c)
  /\ IF stage[c] = "answer" THEN AnswerOK(c) ELSE answer[c] = None

HttpShape ==
  /\ stage \in [Clients -> {"idle", "decode", "getList", "revoke", "health",
                            "sign", "answer"}]
  /\ DOMAIN request = Clients /\ DOMAIN loaded = Clients
  /\ DOMAIN answer = Clients /\ DOMAIN since = Clients

HttpInv ==
  /\ ListsOK
  /\ known \subseteq Revocations
  /\ HttpShape
  /\ \A c \in Clients : Exchange(c)

===============================================================================
