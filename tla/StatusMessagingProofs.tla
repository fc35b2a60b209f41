------------------------- MODULE StatusMessagingProofs -------------------------
(***************************************************************************)
(* The safety of the event handlers of StatusMessaging, next to the HTTP   *)
(* handlers they run with and fetch lists from: MessagingInv is inductive, *)
(* for any number of jobs, requests, replicas, verifications and           *)
(* publishers.                                                             *)
(***************************************************************************)
EXTENDS StatusMessagingInvariant, StatusHttpProofs

-------------------------------------------------------------------------------
(* Steps of HTTP exchanges, as verifications see them.                     *)

(* A step of an exchange leaves the others alone.                          *)
LEMMA OwnExchange ==
  ASSUME HttpInv, NEW c \in Clients, HttpStep(c) \/ Send(c)
  PROVE  StoreGrows /\ \A d \in Clients \ {c} : SameExchange(d)
<1>1. UNCHANGED store => StoreGrows
  BY SameStoreGrows DEF HttpInv
<1>2. CASE Revoke(c)
  <2>1. StoreGrows
    BY <1>2, RevocationGrows DEF Revoke, HttpInv
  <2>. QED
    BY <1>2, <2>1 DEF Revoke, Respond, Goto, SameExchange, HttpInv, HttpShape
<1>3. CASE GetList(c)
  BY <1>1, <1>3 DEF GetList, Respond, Goto, SameExchange, HttpInv, HttpShape
<1>4. CASE Decode(c) \/ Health(c) \/ NotFound(c) \/ SignFails(c) \/ SignToken(c)
           \/ RevokeBeforeFirst(c) \/ DatabaseFails(c)
  BY <1>1, <1>4 DEF Decode, Health, NotFound, SignFails, SignToken, RevokeBeforeFirst,
                    DatabaseFails, Respond, Goto, SameExchange, HttpInv, HttpShape
<1>5. CASE RevokePanic(c) \/ Receive(c) \/ Disconnect(c)
  BY <1>1, <1>5 DEF RevokePanic, Receive, Disconnect, Idle, Goto, SameExchange,
                    HttpInv, HttpShape
<1>6. CASE Send(c)
  BY <1>1, <1>6 DEF Send, Begin, Goto, SameExchange, HttpInv, HttpShape
<1>. QED
  BY <1>2, <1>3, <1>4, <1>5, <1>6 DEF HttpStep, Handle

LEMMA SameRequest ==
  ASSUME HttpInv, NEW c \in Clients, Handle(c) \/ SignToken(c) \/ Disconnect(c)
  PROVE  stage'[c] = "idle" \/ request'[c] = request[c]
<1>1. CASE RevokePanic(c) \/ Disconnect(c)
  BY <1>1 DEF RevokePanic, Disconnect, Idle, Goto, HttpInv, HttpShape
<1>2. CASE \/ Decode(c) \/ Health(c) \/ NotFound(c) \/ GetList(c) \/ SignFails(c)
           \/ SignToken(c) \/ Revoke(c) \/ RevokeBeforeFirst(c) \/ DatabaseFails(c)
  <2>1. UNCHANGED request
    BY <1>2 DEF Decode, Health, NotFound, GetList, SignFails, SignToken, Revoke,
                RevokeBeforeFirst, DatabaseFails, Respond
  <2>. QED
    BY <2>1
<1>. QED
  BY <1>1, <1>2 DEF Handle

(* A verification asks for a form that the response encoder writes.        *)
LEMMA VerifyFormWritten ==
  ASSUME NEW type, NEW row
  PROVE  LET accept == VerifyAccept(type)
             value == Value(FormOf(accept), row)
         IN /\ Written(accept, value) = value
            /\ "list" \in DOMAIN value
            /\ value.list.bits = row.bits
<1>1. PICK media \in {"statuslist+jwt", "vc+ld+json"} :
        VerifyAccept(type) = Exactly(media)
  BY DEF VerifyAccept
<1>. DEFINE value == Value(FormOf(Exactly(media)), row)
<1>2. /\ value.form = FormOf(Exactly(media))
      /\ "list" \in DOMAIN value /\ value.list.bits = row.bits
  BY DEF Value, FormOf, EncodedList
<1>. HIDE DEF value
<1>3. Written(Exactly(media), value) = value
  BY <1>2, DocumentedWritten
<1>. QED
  BY <1>1, <1>2, <1>3 DEF value

(* The handler of a GET that a verification sent does not miss an entry    *)
(* that is revoked.                                                        *)
LEMMA ShowsStays ==
  ASSUME HttpInv, NEW c \in Clients, stage[c] # "idle", NEW type,
         request[c].kind = "getList", request[c].accept = VerifyAccept(type),
         NEW i, i \in lists[request[c].list].revoked,
         Shows(c, i), Handle(c) \/ SignToken(c) \/ Disconnect(c)
  PROVE  stage'[c] = "idle" \/ (request'[c] = request[c] /\ Shows(c, i)')
<1>. USE DEF HttpInv, HttpShape
<1>1. ASSUME NEW status, NEW value, Respond(c, status, value)
      PROVE  /\ request'[c] = request[c] /\ stage'[c] = "answer"
             /\ answer'[c].status = status
             /\ answer'[c].body = Written(request[c].accept, value)
  BY <1>1 DEF Respond, Goto
<1>2. ASSUME NEW status \in {400, 500}, Respond(c, status, Failure)
      PROVE  request'[c] = request[c] /\ Shows(c, i)'
  BY <1>1, <1>2 DEF Shows
<1>3. ASSUME NEW row, i \in row.bits,
             Respond(c, 200, Value(FormOf(request[c].accept), row))
      PROVE  request'[c] = request[c] /\ Shows(c, i)'
  BY <1>1, <1>3, VerifyFormWritten DEF Shows
<1>4. stage[c] \notin {"health", "revoke"}
  BY DEF Exchange
<1>5. CASE Decode(c)
  <2>1. CASE Malformed(request[c])
    BY <1>2, <1>5, <2>1 DEF Decode
  <2>2. CASE ~Malformed(request[c])
    BY <1>5, <2>2 DEF Decode, Goto, Shows
  <2>. QED
    BY <2>1, <2>2
<1>6. CASE GetList(c)
  <2>1. PICK l \in Found(request[c]) :
          LET form == FormOf(request[c].accept) IN
          IF form = "token"
          THEN /\ loaded' = [loaded EXCEPT ![c] = Row(l)]
               /\ Goto(c, "sign")
               /\ UNCHANGED <<request, answer, since>>
          ELSE Respond(c, 200, Value(form, Row(l)))
    BY <1>6 DEF GetList
  <2>2. i \in Row(l).bits
    BY DEF Found, Row
  <2>3. CASE FormOf(request[c].accept) = "token"
    BY <2>1, <2>2, <2>3 DEF Goto, Shows
  <2>4. CASE FormOf(request[c].accept) # "token"
    BY <1>3, <2>1, <2>2, <2>4
  <2>. QED
    BY <2>3, <2>4
<1>7. CASE SignToken(c)
  <2>1. FormOf(request[c].accept) = "token" /\ i \in loaded[c].bits
    BY <1>7 DEF SignToken, Exchange, SignOK, Shows
  <2>. QED
    BY <1>3, <1>7, <2>1 DEF SignToken
<1>8. CASE NotFound(c) \/ SignFails(c) \/ DatabaseFails(c)
  BY <1>2, <1>8 DEF NotFound, SignFails, DatabaseFails
<1>9. CASE Disconnect(c)
  BY <1>9 DEF Disconnect, Idle, Goto
<1>. QED
  BY <1>4, <1>5, <1>6, <1>7, <1>8, <1>9
     DEF Handle, Health, Revoke, RevokeBeforeFirst, RevokePanic

-------------------------------------------------------------------------------
(* Creation.                                                               *)

(* The number of a job's requests only grows.                              *)
Attempts ==
  /\ \A j \in Jobs : attempt[j] \in Nat /\ attempt'[j] \in Nat
                      /\ attempt[j] <= attempt'[j]

LEMMA AnswerStays ==
  ASSUME Attempts, NEW r, AnswerSent(r), r.request \notin inbox'
  PROVE  AnswerSent(r)'
<1>1. r.request.attempt \in 1 .. attempt'[r.request.job]
  BY DEF AnswerSent, SentOK, Attempts
<1>. QED
  BY <1>1 DEF AnswerSent, SentOK

LEMMA ReplyStays ==
  ASSUME StoreGrows, Attempts, NEW r, ReplyOK(r), r.request \notin inbox'
  PROVE  ReplyOK(r)'
<1>1. AnswerSent(r)'
  BY AnswerStays DEF ReplyOK
<1>2. /\ r.list \in DOMAIN lists' /\ r.index \in lists'[r.list].taken
      /\ group'[r.list] = group[r.list]
  BY DEF ReplyOK, StoreGrows
<1>. QED
  BY <1>1, <1>2 DEF ReplyOK

(* A step that adds no request keeps what the replies there are say.       *)
LEMMA RepliesStay ==
  ASSUME CreationInv, StoreGrows, attempt' = attempt, inbox' \subseteq inbox
  PROVE  /\ \A r \in replies : AnswerSent(r)'
         /\ \A r \in Given : ReplyOK(r)'
         /\ \A m \in inbox' : SentOK(m)'
<1>1. Attempts
  BY MessagingAssumption DEF CreationInv, Attempts
<1>2. \A r \in replies : AnswerSent(r)'
  BY <1>1, AnswerStays DEF CreationInv, AnswerSent
<1>3. \A r \in Given : ReplyOK(r)'
  BY <1>1, ReplyStays DEF CreationInv, ReplyOK, AnswerSent
<1>. QED
  BY <1>2, <1>3 DEF CreationInv, SentOK

(* Steps that take no part in creation.                                    *)
LEMMA CreationStays ==
  ASSUME CreationInv, StoreGrows, UNCHANGED creation
  PROVE  CreationInv'
<1>1. Given' = Given /\ Holders' = Holders
  BY DEF Given, Errors, ErrorReply, Holders, creation
<1>. QED
  BY <1>1, RepliesStay DEF CreationInv, creation

LEMMA RequestEntryKeepsInv ==
  ASSUME CreationInv, HttpInv, NEW j \in Jobs, RequestEntry(j)
  PROVE  CreationInv'
<1>. USE MessagingAssumption
<1>1. /\ attempt' = [attempt EXCEPT ![j] = @ + 1]
      /\ entry' = entry /\ replies' = replies
      /\ StoreGrows
  BY SameStoreGrows DEF RequestEntry, HttpInv, httpVars
<1>2. \A k \in Jobs : /\ attempt[k] \in Nat /\ attempt'[k] \in 0 .. MaxAttempts[k]
                      /\ attempt'[k] = IF k = j THEN attempt[k] + 1 ELSE attempt[k]
  <2>1. MaxAttempts \in [Jobs -> Nat] /\ attempt[j] < MaxAttempts[j]
    BY DEF RequestEntry
  <2>2. ASSUME NEW k \in Jobs
        PROVE  /\ MaxAttempts[k] \in Nat /\ attempt[k] \in 0 .. MaxAttempts[k]
               /\ attempt'[k] = IF k = j THEN attempt[k] + 1 ELSE attempt[k]
    BY <1>1, <2>1 DEF CreationInv
  <2>. QED
    BY <2>1, <2>2
<1>3. \A m \in inbox' : m \in inbox \/ (m.job = j /\ m.attempt = attempt[j] + 1)
  BY <1>2 DEF RequestEntry
<1>4. \A m \in inbox' : SentOK(m)'
  BY <1>2, <1>3 DEF CreationInv, SentOK
<1>5. Given' = Given /\ Holders' = Holders
  BY <1>1 DEF Given, Errors, ErrorReply, Holders
<1>6. Attempts
  BY <1>2 DEF Attempts
<1>7. \A r \in replies : r.request \notin inbox'
  BY <1>2, <1>3 DEF CreationInv, AnswerSent, SentOK
<1>8. \A r \in replies : AnswerSent(r)'
  BY <1>6, <1>7, AnswerStays DEF CreationInv
<1>9. ASSUME NEW r \in Given PROVE ReplyOK(r)'
  <2>1. ReplyOK(r)
    BY DEF CreationInv
  <2>2. r.request \notin inbox'
    BY <1>2, <1>3, <2>1 DEF ReplyOK, AnswerSent, SentOK
  <2>. QED
    BY <1>1, <1>6, <2>1, <2>2, ReplyStays
<1>10. /\ DOMAIN waiting' = Jobs
       /\ \A k \in Holders : ~waiting'[k]
  BY DEF RequestEntry, CreationInv, Holders
<1>. QED
  BY <1>1, <1>2, <1>4, <1>5, <1>8, <1>9, <1>10 DEF CreationInv

(* The entry of an allocation was nobody's before.                         *)
LEMMA FreshEntry ==
  ASSUME ListsOK, NEW g \in Groups, NEW l, NEW i, AllocateEntry(g, l, i)
  PROVE  /\ l \in DOMAIN lists' /\ i \in lists'[l].taken /\ group'[l] = g
         /\ l \in DOMAIN lists => i \notin lists[l].taken
<1>1. CASE /\ l \in DOMAIN lists /\ group[l] = g
           /\ Store!GrantEntry(l, i)
           /\ UNCHANGED group
  BY <1>1 DEF Store!GrantEntry, ListsOK
<1>2. CASE /\ i = 0
           /\ Store!OpenList(l, Size)
           /\ group' = [m \in DOMAIN lists' |-> IF m = l THEN g ELSE group[m]]
  BY <1>2 DEF Store!OpenList
<1>. QED
  BY <1>1, <1>2 DEF AllocateEntry

(* What is known of every handled request: it may add one reply, an error  *)
(* or an entry that no reply has.                                          *)
LEMMA HandledKeepsInv ==
  ASSUME CreationInv, StoreGrows, NEW m \in inbox, Handled(m), NEW new,
         replies' \in {replies, replies \cup {new}}, new.request = m,
         \/ new \in Errors'
         \/ /\ ReplyOK(new)'
            /\ \A r \in Given : <<r.list, r.index>> # <<new.list, new.index>>
  PROVE  CreationInv'
<1>1. /\ attempt' = attempt /\ waiting' = waiting /\ entry' = entry
      /\ inbox' = inbox \ {m} /\ Holders' = Holders
  BY DEF Handled, Holders
<1>2. /\ \A r \in replies : AnswerSent(r)'
      /\ \A r \in Given : ReplyOK(r)'
      /\ \A k \in inbox' : SentOK(k)'
  BY <1>1, RepliesStay
<1>3. AnswerSent(new)'
  BY <1>1 DEF CreationInv, AnswerSent, SentOK
<1>4. \A r \in replies' : AnswerSent(r)'
  BY <1>2, <1>3
<1>5. CASE Given' \subseteq Given
  BY <1>1, <1>2, <1>4, <1>5 DEF CreationInv
<1>6. CASE /\ ReplyOK(new)'
           /\ \A r \in Given : <<r.list, r.index>> # <<new.list, new.index>>
           /\ Given' \subseteq Given \cup {new}
  <2>1. \A r \in Given' : ReplyOK(r)'
    BY <1>2, <1>6
  <2>2. \A q, r \in Given' : q # r => <<q.list, q.index>> # <<r.list, r.index>>
    BY <1>6 DEF CreationInv
  <2>. QED
    BY <1>1, <1>2, <1>4, <2>1, <2>2 DEF CreationInv
<1>7. Given' \subseteq Given \cup {new} /\ (new \in Errors' => Given' \subseteq Given)
  BY <1>1 DEF Given, Errors, ErrorReply
<1>. QED
  BY <1>5, <1>6, <1>7

LEMMA HandleCreateKeepsInv ==
  ASSUME CreationInv, HttpInv, NEW m \in inbox, HandleCreate(m)
  PROVE  CreationInv' /\ StoreGrows
<1>1. SentOK(m) /\ GroupOf[m.job] \in Groups
  BY MessagingAssumption DEF CreationInv, SentOK
<1>2. PICK l \in 1 .. MaxLists, i \in 0 .. Size - 1 :
        /\ AllocateEntry(GroupOf[m.job], l, i)
        /\ \/ replies' = replies \cup {CreateReply(m, l, i)}
           \/ replies' = replies \cup {ErrorReply(m)}
  BY DEF HandleCreate
<1>3. /\ StoreGrows
      /\ l \in DOMAIN lists' /\ i \in lists'[l].taken /\ group'[l] = GroupOf[m.job]
      /\ l \in DOMAIN lists => i \notin lists[l].taken
  BY <1>1, <1>2, AllocationGrows, FreshEntry DEF HttpInv
<1>4. Handled(m) /\ attempt' = attempt /\ inbox' = inbox \ {m}
  BY DEF HandleCreate, Handled
<1>5. CASE replies' = replies \cup {ErrorReply(m)}
  <2>. DEFINE new == ErrorReply(m)
  <2>1. new.request = m /\ new \in Errors'
    BY <1>5 DEF Errors, ErrorReply
  <2>. HIDE DEF new
  <2>2. replies' = replies \cup {new}
    BY <1>5 DEF new
  <2>. QED
    BY <1>3, <1>4, <2>1, <2>2, HandledKeepsInv
<1>6. CASE replies' = replies \cup {CreateReply(m, l, i)}
  <2>. DEFINE new == CreateReply(m, l, i)
  <2>1. new.request = m /\ new.list = l /\ new.index = i
        /\ new = CreateReply(new.request, new.list, new.index)
    BY DEF CreateReply
  <2>. HIDE DEF new
  <2>2. ReplyOK(new)'
    BY <1>1, <1>3, <1>4, <2>1 DEF ReplyOK, AnswerSent, SentOK
  <2>3. \A r \in Given : <<r.list, r.index>> # <<new.list, new.index>>
    BY <1>3, <2>1 DEF CreationInv, ReplyOK
  <2>4. replies' = replies \cup {new}
    BY <1>6 DEF new
  <2>. QED
    BY <1>3, <1>4, <2>1, <2>2, <2>3, <2>4, HandledKeepsInv
<1>. QED
  BY <1>2, <1>5, <1>6

(* The other ends of a request: nothing allocated, an error or no reply.   *)
LEMMA UnansweredKeepsInv ==
  ASSUME CreationInv, HttpInv, NEW m \in inbox, HandleCreateFails(m) \/ LoseRequest(m)
  PROVE  CreationInv' /\ StoreGrows
<1>1. Handled(m) /\ UNCHANGED store
  BY DEF HandleCreateFails, LoseRequest
<1>2. StoreGrows
  BY <1>1, SameStoreGrows DEF HttpInv
<1>. DEFINE new == ErrorReply(m)
<1>3. /\ new.request = m
      /\ replies' = replies \cup {new} => new \in Errors'
  BY DEF Errors, ErrorReply
<1>4. replies' \in {replies, replies \cup {new}}
  BY DEF HandleCreateFails, LoseRequest
<1>. HIDE DEF new
<1>5. CASE replies' = replies \cup {new}
  BY <1>1, <1>2, <1>3, <1>5, HandledKeepsInv
<1>6. CASE replies' = replies
  <2>1. Given' = Given /\ Holders' = Holders
    BY <1>1, <1>6 DEF Handled, Given, Errors, ErrorReply, Holders
  <2>2. attempt' = attempt /\ inbox' \subseteq inbox /\ entry' = entry /\ waiting' = waiting
    BY <1>1 DEF Handled
  <2>. QED
    BY <1>2, <1>6, <2>1, <2>2, RepliesStay DEF CreationInv
<1>. QED
  BY <1>2, <1>4, <1>5, <1>6

(* What a job takes as its entry is a reply that names one.                *)
LEMMA AcceptedReply ==
  ASSUME CreationInv, NEW r \in replies, ReceiveReply(r)
  PROVE  LET j == r.request.job IN
         /\ j \in Jobs
         /\ \/ entry' = entry
            \/ /\ r \in Given /\ ReplyOK(r)
               /\ entry[j] = None /\ ~waiting'[j]
               /\ entry' = [entry EXCEPT ![j] = r]
<1>. DEFINE j == r.request.job
<1>1. j \in Jobs
  BY DEF CreationInv, AnswerSent, SentOK
<1>2. CASE Awaited(r) /\ ~r.error
  <2>1. r \notin Errors
    BY <1>2 DEF Errors, ErrorReply
  <2>2. r \in Given /\ ReplyOK(r)
    BY <2>1 DEF Given, CreationInv
  <2>3. entry[j] = None
    BY <1>1, <1>2 DEF Awaited, CreationInv, Holders
  <2>4. ~waiting'[j]
    BY <1>1, <1>2 DEF ReceiveReply, CreationInv
  <2>. QED
    BY <1>1, <1>2, <2>2, <2>3, <2>4 DEF ReceiveReply
<1>3. CASE ~(Awaited(r) /\ ~r.error)
  BY <1>1, <1>3 DEF ReceiveReply
<1>. QED
  BY <1>2, <1>3

LEMMA ReceiveReplyKeepsInv ==
  ASSUME CreationInv, HttpInv, NEW r \in replies, ReceiveReply(r)
  PROVE  CreationInv'
<1>. DEFINE j == r.request.job
<1>1. /\ attempt' = attempt /\ inbox' = inbox /\ replies' \subseteq replies
      /\ DOMAIN waiting' = Jobs /\ DOMAIN entry' = Jobs
  BY DEF ReceiveReply, CreationInv
<1>2. StoreGrows
  BY SameStoreGrows DEF HttpInv, ReceiveReply, httpVars
<1>3. /\ \A q \in replies : AnswerSent(q)'
      /\ \A q \in Given : ReplyOK(q)'
      /\ \A m \in inbox' : SentOK(m)'
  BY <1>1, <1>2, RepliesStay
<1>5. \A k \in Jobs : ~waiting[k] => ~waiting'[k]
  BY DEF ReceiveReply, CreationInv
<1>6. /\ Given' \subseteq Given
      /\ \A k \in Holders' : entry'[k].request.job = k /\ ~waiting'[k]
  <2>1. CASE entry' = entry
    BY <1>1, <1>5, <2>1 DEF Given, Errors, ErrorReply, Holders, CreationInv
  <2>2. CASE /\ r \in Given /\ j \in Jobs
             /\ ~waiting'[j]
             /\ entry' = [entry EXCEPT ![j] = r]
    <3>1. \A k \in Jobs : entry'[k] = IF k = j THEN r ELSE entry[k]
      BY <2>2 DEF CreationInv
    <3>2. \A k \in Holders' : k = j \/ (k \in Holders /\ entry'[k] = entry[k])
      BY <3>1 DEF Holders
    <3>. QED
      BY <1>1, <1>5, <2>2, <3>1, <3>2 DEF Given, Errors, ErrorReply, CreationInv, Holders
  <2>. QED
    BY <2>1, <2>2, AcceptedReply
<1>. QED
  BY <1>1, <1>3, <1>6 DEF CreationInv

LEMMA CreateKeepsCreation ==
  ASSUME CreationInv, HttpInv, Create
  PROVE  CreationInv' /\ StoreGrows
<1>1. ASSUME NEW j \in Jobs, RequestEntry(j) PROVE CreationInv' /\ StoreGrows
  BY <1>1, RequestEntryKeepsInv, SameStoreGrows DEF RequestEntry, HttpInv, httpVars
<1>2. ASSUME NEW r \in replies, ReceiveReply(r) PROVE CreationInv' /\ StoreGrows
  BY <1>2, ReceiveReplyKeepsInv, SameStoreGrows DEF ReceiveReply, HttpInv, httpVars
<1>. QED
  BY <1>1, <1>2, HandleCreateKeepsInv, UnansweredKeepsInv DEF Create

-------------------------------------------------------------------------------
(* Revoked entries, here and elsewhere.                                    *)

RevokedGrows ==
  /\ StoreGrows
  /\ \A u \in Publishers : elsewhere[u] \subseteq elsewhere'[u]

LEMMA SameElsewhereGrows == StoreGrows /\ UNCHANGED elsewhere => RevokedGrows
BY DEF RevokedGrows

LEMMA RevokedEntry ==
  ASSUME NEW url, NEW i
  PROVE  <<url, i>> \in RevokedEntries <=>
           \/ \E l \in DOMAIN lists :
                url = StatusUrl(group[l].origin, l) /\ i \in lists[l].revoked
           \/ url \in Publishers /\ i \in elsewhere[url]
<1>. DEFINE ofList(l) == {<<StatusUrl(group[l].origin, l), k>> : k \in lists[l].revoked}
            ofUrl(u) == {<<u, k>> : k \in elsewhere[u]}
            here == UNION {ofList(l) : l \in DOMAIN lists}
            there == UNION {ofUrl(u) : u \in Publishers}
<1>1. \A l : <<url, i>> \in ofList(l) <=>
        url = StatusUrl(group[l].origin, l) /\ i \in lists[l].revoked
  OBVIOUS
<1>2. \A u : <<url, i>> \in ofUrl(u) <=> url = u /\ i \in elsewhere[u]
  OBVIOUS
<1>3. RevokedEntries = here \cup there
  BY Zenon DEF RevokedEntries
<1>. HIDE DEF ofList, ofUrl
<1>4. /\ <<url, i>> \in here <=> \E l \in DOMAIN lists : <<url, i>> \in ofList(l)
      /\ <<url, i>> \in there <=> \E u \in Publishers : <<url, i>> \in ofUrl(u)
  OBVIOUS
<1>. HIDE DEF here, there
<1>. QED
  BY <1>1, <1>2, <1>3, <1>4

LEMMA RevokedEntriesGrow ==
  ASSUME RevokedGrows, NEW url, NEW i, <<url, i>> \in RevokedEntries
  PROVE  <<url, i>> \in RevokedEntries'
<1>. DEFINE ofList(l) == {<<StatusUrl(group'[l].origin, l), k>> : k \in lists'[l].revoked}
            ofUrl(u) == {<<u, k>> : k \in elsewhere'[u]}
            here == UNION {ofList(l) : l \in DOMAIN lists'}
            there == UNION {ofUrl(u) : u \in Publishers}
<1>1. \/ \E l \in DOMAIN lists' : <<url, i>> \in ofList(l)
      \/ \E u \in Publishers : <<url, i>> \in ofUrl(u)
  BY RevokedEntry DEF RevokedGrows, StoreGrows
<1>2. RevokedEntries' = here \cup there
  BY Zenon DEF RevokedEntries
<1>. HIDE DEF ofList, ofUrl
<1>3. <<url, i>> \in here \/ <<url, i>> \in there
  BY <1>1
<1>. HIDE DEF here, there
<1>. QED
  BY <1>2, <1>3

(* An entry of a list of this service is looked up in that list, one that  *)
(* was published elsewhere is looked up there.                             *)
LEMMA RevokedHere ==
  ASSUME ListsOK, NEW url, NEW i, <<url, i>> \in RevokedEntries, url \notin Publishers
  PROVE  /\ url.path[1] \in DOMAIN lists
         /\ i \in lists[url.path[1]].revoked
<1>1. PICK l \in DOMAIN lists :
        url = StatusUrl(group[l].origin, l) /\ i \in lists[l].revoked
  BY RevokedEntry
<1>2. url.path[1] = l
  BY <1>1 DEF StatusUrl, Url
<1>. QED
  BY <1>1, <1>2

LEMMA RevokedElsewhere ==
  ASSUME ListsOK, NEW url \in Publishers, NEW i, <<url, i>> \in RevokedEntries
  PROVE  i \in elsewhere[url]
<1>1. ASSUME NEW l \in DOMAIN lists PROVE url # StatusUrl(group[l].origin, l)
  <2>1. group[l] \in Groups
    BY DEF ListsOK
  <2>2. StatusUrl(group[l].origin, l).origin = group[l].origin
    BY DEF StatusUrl, Url
  <2>. QED
    BY <2>1, <2>2, MessagingAssumption
<1>. QED
  BY <1>1, RevokedEntry

LEMMA RevokedIndex ==
  ASSUME ListsOK, VerificationShape, NEW url, NEW i, <<url, i>> \in RevokedEntries
  PROVE  i \in Nat
<1>1. \A l \in DOMAIN lists : lists[l].revoked \subseteq 0 .. Size - 1
  BY DEF ListsOK, EntryNumbers
<1>. QED
  BY <1>1, RevokedEntry, HttpAssumption DEF VerificationShape

LEMMA UrlStays ==
  ASSUME StoreGrows, NEW url, UrlOK(url)
  PROVE  UrlOK(url)'
BY DEF StoreGrows, UrlOK

-------------------------------------------------------------------------------
(* A verification that takes no step stays as it is.                       *)

SameVerification(v) ==
  /\ phase'[v] = phase[v] /\ target'[v] = target[v] /\ fetched'[v] = fetched[v]

LEMMA TargetStays ==
  ASSUME RevokedGrows, NEW v, TargetOK(v), target'[v] = target[v]
  PROVE  TargetOK(v)'
<1>1. UrlOK(target[v].url)'
  BY UrlStays DEF TargetOK, TargetUrl, RevokedGrows
<1>2. target[v].revoked => <<target[v].url, target[v].index>> \in RevokedEntries'
  BY RevokedEntriesGrow DEF TargetOK, TargetUrl
<1>3. UrlOK(TargetUrl(v))'
  BY <1>1 DEF TargetUrl, UrlOK
<1>. QED
  BY <1>2, <1>3 DEF TargetOK, TargetUrl

LEMMA FetchedStays ==
  ASSUME RevokedGrows, NEW v, FetchedOK(v),
         target'[v] = target[v], fetched'[v] = fetched[v]
  PROVE  FetchedOK(v)'
<1>1. \A i \in fetched[v].body.list.bits :
        <<target[v].url, i>> \in RevokedEntries'
  BY RevokedEntriesGrow DEF FetchedOK, TargetUrl
<1>. QED
  BY <1>1 DEF FetchedOK, TargetUrl

LEMMA VerificationStays ==
  ASSUME RevokedGrows, DOMAIN cache \subseteq DOMAIN cache',
         NEW v, Verification(v), SameVerification(v), SameExchange(v)
  PROVE  Verification(v)'
<1>1. TargetOK(v) => TargetOK(v)'
  BY TargetStays DEF SameVerification
<1>2. FetchedOK(v) => FetchedOK(v)'
  BY FetchedStays DEF SameVerification
<1>3. FetchOK(v) => FetchOK(v)'
  BY DEF FetchOK, TargetUrl, ListRequest, Shows, SameVerification, SameExchange
<1>. QED
  BY <1>1, <1>2, <1>3 DEF Verification, TargetUrl, SameVerification, SameExchange

LEMMA VerdictStays ==
  ASSUME RevokedGrows, VerdictIsTrue, UNCHANGED verdict
  PROVE  VerdictIsTrue'
BY RevokedEntriesGrow DEF VerdictIsTrue

(* It is enough to look at the verification that takes a step.             *)
LEMMA OneVerification ==
  ASSUME MessagingInv, HttpInv', CreationInv', VerificationShape', VerdictIsTrue',
         RevokedGrows, DOMAIN cache \subseteq DOMAIN cache',
         NEW v \in Verifiers, Verification(v)',
         \A u \in Verifiers \ {v} : SameVerification(u) /\ SameExchange(u)
  PROVE  MessagingInv'
<1>1. ASSUME NEW u \in Verifiers PROVE Verification(u)'
  <2>1. CASE u = v
    BY <2>1
  <2>2. CASE u # v
    BY <2>2, VerificationStays DEF MessagingInv
  <2>. QED
    BY <2>1, <2>2
<1>. QED
  BY <1>1 DEF MessagingInv

LEMMA NoVerification ==
  ASSUME MessagingInv, HttpInv', CreationInv', RevokedGrows,
         DOMAIN elsewhere' = Publishers,
         \A u \in Publishers : elsewhere'[u] \subseteq Nat,
         UNCHANGED <<phase, target, fetched, cache, verdict>>,
         \A v \in Verifiers : SameExchange(v)
  PROVE  MessagingInv'
<1>1. \A v \in Verifiers : Verification(v)'
  BY VerificationStays DEF MessagingInv, SameVerification
<1>2. VerificationShape'
  BY DEF MessagingInv, VerificationShape
<1>3. VerdictIsTrue'
  BY VerdictStays DEF MessagingInv
<1>. QED
  BY <1>1, <1>2, <1>3 DEF MessagingInv

-------------------------------------------------------------------------------
(* Steps of HTTP exchanges.                                                *)

LEMMA OnlyVerifiersFetch ==
  ASSUME MessagingInv, NEW v \in Verifiers, stage[v] # "idle"
  PROVE  phase[v] = "fetch" /\ TargetOK(v) /\ FetchOK(v)
BY DEF MessagingInv, Verification

LEMMA StepsOfBusy ==
  ASSUME NEW c \in Clients, Handle(c) \/ SignToken(c) \/ Disconnect(c)
  PROVE  stage[c] # "idle"
BY DEF Handle, SignToken, Disconnect, Decode, Health, NotFound, GetList, SignFails,
       Revoke, RevokeBeforeFirst, RevokePanic, DatabaseFails

(* The handler of a request that a verification sent.                      *)
LEMMA FetchStays ==
  ASSUME MessagingInv, RevokedGrows, NEW v \in Verifiers,
         Handle(v) \/ SignToken(v) \/ Disconnect(v),
         UNCHANGED <<phase, target, fetched, cache>>
  PROVE  Verification(v)'
<1>1. v \in Clients
  BY MessagingAssumption
<1>2. stage[v] # "idle"
  BY <1>1, StepsOfBusy
<1>3. phase[v] = "fetch" /\ TargetOK(v) /\ FetchOK(v)
  BY <1>2, OnlyVerifiersFetch
<1>4. TargetOK(v)'
  BY <1>3, TargetStays
<1>5. /\ request[v].kind = "getList" /\ request[v].list = TargetUrl(v).path[1]
      /\ request[v].accept = VerifyAccept(target[v].type)
  BY <1>2, <1>3 DEF FetchOK, ListRequest
<1>6. \/ stage'[v] = "idle"
      \/ /\ request'[v] = request[v]
         /\ target[v].revoked => Shows(v, target[v].index)'
  <2>1. CASE target[v].revoked
    <3>1. target[v].index \in lists[request[v].list].revoked
      BY <1>3, <1>5, <2>1, RevokedHere DEF TargetOK, FetchOK, MessagingInv, HttpInv
    <3>2. PICK i : i = target[v].index
      OBVIOUS
    <3>3. PICK type : type = target[v].type
      OBVIOUS
    <3>4. i \in lists[request[v].list].revoked /\ Shows(v, i)
          /\ request[v].accept = VerifyAccept(type)
      BY <1>3, <1>5, <2>1, <3>1, <3>2, <3>3 DEF FetchOK
    <3>5. stage'[v] = "idle" \/ (request'[v] = request[v] /\ Shows(v, i)')
      BY <1>1, <1>2, <1>5, <3>4, ShowsStays DEF MessagingInv
    <3>. QED
      BY <3>2, <3>5 DEF Shows
  <2>2. CASE ~target[v].revoked
    <3>1. stage'[v] = "idle" \/ request'[v] = request[v]
      BY <1>1, SameRequest DEF MessagingInv
    <3>. QED
      BY <2>2, <3>1
  <2>. QED
    BY <2>1, <2>2
<1>7. FetchOK(v)'
  <2>1. CASE stage'[v] = "idle"
    BY <1>3, <2>1 DEF FetchOK, TargetUrl, Shows
  <2>2. CASE stage'[v] # "idle"
    BY <1>2, <1>3, <1>6, <2>2 DEF FetchOK, TargetUrl, ListRequest
  <2>. QED
    BY <2>1, <2>2
<1>. QED
  BY <1>3, <1>4, <1>7 DEF Verification, MessagingInv

LEMMA HttpKeepsInv ==
  ASSUME MessagingInv, Http
  PROVE  MessagingInv'
<1>1. PICK c \in Clients :
        /\ \/ Handle(c) \/ SignToken(c) \/ Disconnect(c)
           \/ c \notin Verifiers /\ (Send(c) \/ Receive(c))
        /\ UNCHANGED <<creation, verification>>
  BY DEF Http, ServeHttp
<1>2. HttpInv'
  BY <1>1, HttpStepKeepsInv DEF MessagingInv, HttpNext, HttpStep
<1>3. StoreGrows /\ \A d \in Clients \ {c} : SameExchange(d)
  BY <1>1, OwnExchange DEF MessagingInv, HttpStep
<1>4. RevokedGrows /\ CreationInv'
  BY <1>1, <1>3, SameElsewhereGrows, CreationStays DEF MessagingInv, verification
<1>5. UNCHANGED <<elsewhere, phase, target, fetched, cache, verdict>>
  BY <1>1 DEF verification
<1>6. Verifiers \subseteq Clients
  BY MessagingAssumption
<1>7. CASE c \in Verifiers
  <2>1. Verification(c)'
    BY <1>1, <1>4, <1>5, <1>7, FetchStays
  <2>2. VerificationShape' /\ VerdictIsTrue'
    BY <1>4, <1>5, VerdictStays DEF MessagingInv, VerificationShape
  <2>3. \A u \in Verifiers \ {c} : SameVerification(u) /\ SameExchange(u)
    BY <1>3, <1>5, <1>6 DEF SameVerification
  <2>. QED
    BY <1>2, <1>4, <1>5, <1>7, <2>1, <2>2, <2>3, OneVerification
<1>8. CASE c \notin Verifiers
  <2>1. \A v \in Verifiers : SameExchange(v)
    BY <1>3, <1>6, <1>8
  <2>. QED
    BY <1>2, <1>4, <1>5, <2>1, NoVerification DEF MessagingInv, VerificationShape
<1>. QED
  BY <1>7, <1>8

-------------------------------------------------------------------------------
(* Steps of verifications.                                                 *)

LEMMA QuietStep ==
  ASSUME MessagingInv, UNCHANGED <<store, exchange, creation, elsewhere>>, KnownGrows
  PROVE  /\ HttpInv' /\ CreationInv' /\ RevokedGrows
         /\ \A c : SameExchange(c)
<1>1. StoreGrows
  BY SameStoreGrows DEF MessagingInv, HttpInv
<1>2. HttpInv'
  BY <1>1, NoExchange DEF MessagingInv
<1>. QED
  BY <1>1, <1>2, CreationStays, SameElsewhereGrows
     DEF MessagingInv, SameExchange, exchange

LEMMA QuietKnown ==
  ASSUME MessagingInv, UNCHANGED <<store, known>>
  PROVE  StoreGrows /\ KnownGrows
BY SameStoreGrows, SameKnownGrows DEF MessagingInv, HttpInv

LEMMA RequestVerifyKeepsInv ==
  ASSUME MessagingInv, NEW v \in Verifiers, RequestVerify(v)
  PROVE  MessagingInv'
<1>1. PICK e \in Entries \cup Publishers \X Indexes, type \in VerifyTypes :
        VerifyEvent(v, e[1], e[2], type)
  BY DEF RequestVerify
<1>2. UNCHANGED <<store, exchange, known, creation, elsewhere, fetched, cache, verdict>>
  BY <1>1 DEF VerifyEvent
<1>3. HttpInv' /\ CreationInv' /\ RevokedGrows /\ \A c : SameExchange(c)
  BY <1>2, QuietKnown, QuietStep
<1>4. UrlOK(e[1]) /\ e[2] \in Int
  <2>1. CASE e \in Publishers \X Indexes
    BY <2>1, MessagingAssumption DEF UrlOK
  <2>2. CASE e \in Entries
    <3>1. PICK j \in Holders : e = <<entry[j].url, entry[j].index>>
      BY <2>2 DEF Entries, Holders
    <3>2. ReplyOK(entry[j])
      BY DEF MessagingInv, CreationInv, Given
    <3>3. entry[j].url = StatusUrl(group[entry[j].list].origin, entry[j].list)
      BY <3>2 DEF ReplyOK, CreateReply
    <3>4. entry[j].index \in 0 .. Size - 1
      BY <3>2 DEF ReplyOK, MessagingInv, HttpInv, ListsOK, EntryNumbers
    <3>. QED
      BY <3>1, <3>2, <3>3, <3>4, HttpAssumption DEF UrlOK, ReplyOK
  <2>. QED
    BY <2>1, <2>2
<1>5. /\ target'[v] = [url |-> e[1], index |-> e[2], type |-> type,
                       revoked |-> <<e[1], e[2]>> \in RevokedEntries]
      /\ phase'[v] = "request" /\ fetched'[v] = None /\ stage'[v] = "idle"
  BY <1>1, <1>2 DEF VerifyEvent, MessagingInv, VerificationShape, Verification, exchange
<1>6. TargetOK(v)'
  <2>1. UrlOK(e[1])'
    BY <1>3, <1>4, UrlStays DEF RevokedGrows
  <2>2. UrlOK(TargetUrl(v))'
    BY <1>5, <2>1 DEF UrlOK, TargetUrl
  <2>3. <<e[1], e[2]>> \in RevokedEntries => <<e[1], e[2]>> \in RevokedEntries'
    BY <1>3, RevokedEntriesGrow
  <2>. DEFINE status == <<e[1], e[2]>> \in RevokedEntries
  <2>4. status \in BOOLEAN
    OBVIOUS
  <2>5. /\ target'[v].url = e[1] /\ target'[v].index = e[2]
        /\ target'[v].type = type /\ target'[v].revoked = status
    <3>. HIDE DEF status
    <3>. QED
      BY <1>5 DEF status
  <2>6. target'[v].revoked => <<e[1], e[2]>> \in RevokedEntries
    BY <2>5, Zenon
  <2>7. target'[v].revoked \in BOOLEAN
    BY <2>4, <2>5, Zenon
  <2>. HIDE DEF status
  <2>. QED
    BY <1>4, <2>2, <2>3, <2>5, <2>6, <2>7 DEF TargetOK, TargetUrl
<1>7. Verification(v)'
  BY <1>5, <1>6 DEF Verification
<1>8. VerificationShape' /\ VerdictIsTrue'
  BY <1>1, <1>2, <1>3, VerdictStays DEF VerifyEvent, MessagingInv, VerificationShape
<1>9. \A u \in Verifiers \ {v} : SameVerification(u) /\ SameExchange(u)
  BY <1>1, <1>2, <1>3
     DEF VerifyEvent, SameVerification, MessagingInv, VerificationShape
<1>. QED
  BY <1>2, <1>3, <1>7, <1>8, <1>9, OneVerification

LEMMA FetchKeepsInv ==
  ASSUME MessagingInv, NEW v \in Verifiers, Fetch(v)
  PROVE  MessagingInv'
<1>1. v \in Clients /\ Verifiers \subseteq Clients
  BY MessagingAssumption
<1>2. /\ phase[v] = "request" /\ TargetUrl(v) \notin Publishers
      /\ Begin(v, ListRequest(v))
      /\ phase' = [phase EXCEPT ![v] = "fetch"]
      /\ UNCHANGED <<creation, elsewhere, target, fetched, cache, verdict>>
  BY DEF Fetch, ListRequest
<1>3. HttpInv'
  <2>1. RequestOK(ListRequest(v))
    BY DEF RequestOK, ListRequest
  <2>. QED
    BY <1>1, <1>2, <2>1, BeginKeepsInv DEF MessagingInv
<1>4. CreationInv' /\ RevokedGrows
  BY <1>2, QuietKnown, CreationStays, SameElsewhereGrows DEF MessagingInv, Begin
<1>5. \A u \in Verifiers \ {v} : SameVerification(u) /\ SameExchange(u)
  BY <1>1, <1>2 DEF SameVerification, SameExchange, Begin, Goto,
     MessagingInv, VerificationShape, HttpInv, HttpShape
<1>6. /\ target'[v] = target[v] /\ fetched'[v] = None
      /\ phase'[v] = "fetch" /\ stage'[v] = "decode" /\ request'[v] = ListRequest(v)
      /\ TargetOK(v)
  BY <1>1, <1>2 DEF Begin, Goto, MessagingInv, Verification, VerificationShape,
     HttpInv, HttpShape
<1>7. TargetOK(v)'
  BY <1>4, <1>6, TargetStays
<1>8. FetchOK(v)'
  BY <1>2, <1>6 DEF FetchOK, TargetUrl, ListRequest, Shows
<1>9. Verification(v)'
  BY <1>6, <1>7, <1>8 DEF Verification
<1>10. VerificationShape' /\ VerdictIsTrue'
  BY <1>2, <1>4, VerdictStays DEF MessagingInv, VerificationShape
<1>. QED
  BY <1>2, <1>3, <1>4, <1>5, <1>9, <1>10, OneVerification

LEMMA ReadBodyKeepsInv ==
  ASSUME MessagingInv, NEW v \in Verifiers, ReadBody(v)
  PROVE  MessagingInv'
<1>1. v \in Clients /\ Verifiers \subseteq Clients
  BY MessagingAssumption
<1>2. /\ phase[v] = "fetch" /\ stage[v] = "answer" /\ answer[v].status = 200
      /\ fetched' = [fetched EXCEPT ![v] = answer[v]]
      /\ Idle(v)
      /\ phase' = [phase EXCEPT ![v] = "check"]
      /\ UNCHANGED <<store, known, creation, elsewhere, target, cache, verdict>>
  BY DEF ReadBody
<1>3. StoreGrows /\ KnownGrows
  BY <1>2, QuietKnown
<1>4. HttpInv'
  BY <1>1, <1>2, <1>3, IdleKeepsInv DEF MessagingInv
<1>5. CreationInv' /\ RevokedGrows
  BY <1>2, <1>3, CreationStays, SameElsewhereGrows DEF MessagingInv
<1>6. \A u \in Verifiers \ {v} : SameVerification(u) /\ SameExchange(u)
  BY <1>1, <1>2 DEF SameVerification, SameExchange, Idle, Goto,
     MessagingInv, VerificationShape, HttpInv, HttpShape
<1>7. /\ target'[v] = target[v] /\ fetched'[v] = answer[v]
      /\ phase'[v] = "check" /\ stage'[v] = "idle"
      /\ TargetOK(v) /\ FetchOK(v)
  BY <1>1, <1>2 DEF Idle, Goto, MessagingInv, Verification, VerificationShape,
     HttpInv, HttpShape
<1>8. ASSUME NEW i \in answer[v].body.list.bits
      PROVE  <<target[v].url, i>> \in RevokedEntries
  <2>1. /\ request[v] = ListRequest(v)
        /\ request[v].kind = "getList" /\ request[v].list = TargetUrl(v).path[1]
        /\ request[v].accept = VerifyAccept(target[v].type)
    BY <1>2, <1>7 DEF FetchOK, ListRequest
  <2>2. PICK l \in DOMAIN lists : \E bits \in SUBSET lists[l].revoked :
          /\ Read(v, l, bits)
          /\ LET value == Value(FormOf(request[v].accept), RowWith(l, bits)) IN
             /\ answer[v].body = Written(request[v].accept, value)
             /\ value.form = FormOf(request[v].accept)
             /\ "list" \in DOMAIN answer[v].body =>
                  answer[v].body = value /\ answer[v].body.list.bits = bits
    <3>1. HttpInv
      BY DEF MessagingInv
    <3>. QED
      BY <1>1, <1>2, <2>1, <3>1, AnswerShowsRead, Zenon
  <2>3. i \in lists[l].revoked /\ l = TargetUrl(v).path[1]
    BY <2>1, <2>2, VerifyFormWritten DEF Read, Found
  <2>4. PICK m \in DOMAIN lists : TargetUrl(v) = StatusUrl(group[m].origin, m)
    BY <1>7 DEF TargetOK, UrlOK, FetchOK
  <2>5. m = l
    BY <2>3, <2>4 DEF StatusUrl, Url
  <2>. QED
    BY <2>3, <2>4, <2>5, RevokedEntry DEF TargetUrl
<1>9. FetchedOK(v)'
  <2>1. \A i \in answer[v].body.list.bits : <<target[v].url, i>> \in RevokedEntries'
    BY <1>5, <1>8, RevokedEntriesGrow
  <2>2. target[v].revoked => target[v].index \in answer[v].body.list.bits
    BY <1>2, <1>7 DEF FetchOK, Shows
  <2>. QED
    BY <1>2, <1>7, <2>1, <2>2 DEF FetchedOK, TargetUrl
<1>10. Verification(v)'
  <2>1. TargetOK(v)'
    BY <1>5, <1>7, TargetStays
  <2>. QED
    BY <1>7, <1>9, <2>1 DEF Verification
<1>11. VerificationShape' /\ VerdictIsTrue'
  BY <1>2, <1>5, VerdictStays DEF MessagingInv, VerificationShape
<1>. QED
  BY <1>2, <1>4, <1>5, <1>6, <1>10, <1>11, OneVerification

(* A verification that has its list moves on.                              *)
LEMMA PhaseKeepsInv ==
  ASSUME MessagingInv, NEW v \in Verifiers,
         NEW p \in {"check", "decode", "cache", "reply"},
         phase[v] \in {"request", "check", "decode", "cache"},
         phase' = [phase EXCEPT ![v] = p],
         UNCHANGED <<store, exchange, known, creation, elsewhere, target, verdict>>,
         DOMAIN fetched' = Verifiers,
         \A u \in Verifiers \ {v} : fetched'[u] = fetched[u],
         FetchedOK(v)',
         DOMAIN cache \subseteq DOMAIN cache',
         p = "reply" => TargetUrl(v) \in DOMAIN cache'
  PROVE  MessagingInv'
<1>1. HttpInv' /\ CreationInv' /\ RevokedGrows /\ \A c : SameExchange(c)
  BY QuietKnown, QuietStep
<1>2. \A u \in Verifiers \ {v} : SameVerification(u) /\ SameExchange(u)
  BY <1>1 DEF SameVerification, MessagingInv, VerificationShape
<1>3. TargetOK(v) /\ stage'[v] = "idle" /\ phase'[v] = p
  BY DEF MessagingInv, Verification, VerificationShape, exchange
<1>4. TargetOK(v)'
  BY <1>1, <1>3, TargetStays
<1>5. Verification(v)'
  BY <1>3, <1>4 DEF Verification, TargetUrl
<1>6. VerificationShape' /\ VerdictIsTrue'
  BY <1>1, VerdictStays DEF MessagingInv, VerificationShape
<1>. QED
  BY <1>1, <1>2, <1>5, <1>6, OneVerification

LEMMA FetchElsewhereKeepsInv ==
  ASSUME MessagingInv, NEW v \in Verifiers, FetchElsewhere(v)
  PROVE  MessagingInv'
<1>. DEFINE url == TargetUrl(v)
<1>1. /\ phase[v] = "request" /\ url \in Publishers
      /\ fetched'[v].status = 200
      /\ fetched'[v].body.list.bits = elsewhere[url]
      /\ DOMAIN fetched' = Verifiers
      /\ \A u \in Verifiers \ {v} : fetched'[u] = fetched[u]
      /\ UNCHANGED <<httpVars, creation, elsewhere, target, cacheTable, cache, verdict>>
  BY DEF FetchElsewhere, MessagingInv, VerificationShape
<1>2. RevokedGrows
  BY <1>1, QuietKnown, SameElsewhereGrows DEF httpVars
<1>3. TargetOK(v)
  BY <1>1 DEF MessagingInv, Verification
<1>4. \A i \in elsewhere[url] : <<url, i>> \in RevokedEntries'
  BY <1>1, <1>2, RevokedEntry, RevokedEntriesGrow
<1>5. target[v].revoked => target[v].index \in elsewhere[url]
  BY <1>1, <1>3, RevokedElsewhere DEF TargetOK, MessagingInv, HttpInv
<1>6. FetchedOK(v)'
  BY <1>1, <1>4, <1>5 DEF FetchedOK, TargetUrl
<1>. QED
  BY <1>1, <1>6, PhaseKeepsInv DEF FetchElsewhere, httpVars

LEMMA HandlingKeepsInv ==
  ASSUME MessagingInv, NEW v \in Verifiers,
         SignerAccepts(v) \/ CreateCacheTable(v) \/ CacheList(v)
  PROVE  MessagingInv'
<1>1. /\ UNCHANGED <<httpVars, creation, elsewhere, target, fetched, verdict>>
      /\ phase[v] \in {"check", "decode", "cache"}
  BY DEF SignerAccepts, CreateCacheTable, CacheList
<1>2. FetchedOK(v) /\ RevokedGrows
  BY <1>1, QuietKnown, SameElsewhereGrows
     DEF MessagingInv, Verification, httpVars
<1>3. FetchedOK(v)'
  BY <1>1, <1>2, FetchedStays
<1>4. /\ DOMAIN fetched' = Verifiers
      /\ \A u \in Verifiers \ {v} : fetched'[u] = fetched[u]
      /\ UNCHANGED <<store, exchange, known, creation, elsewhere, target, verdict>>
  BY <1>1 DEF MessagingInv, VerificationShape, httpVars
<1>5. CASE SignerAccepts(v)
  BY <1>3, <1>4, <1>5, PhaseKeepsInv DEF SignerAccepts
<1>6. CASE CreateCacheTable(v)
  BY <1>3, <1>4, <1>6, PhaseKeepsInv DEF CreateCacheTable
<1>7. CASE CacheList(v)
  <2>1. DOMAIN cache' = DOMAIN cache \cup {TargetUrl(v)}
    BY <1>7 DEF CacheList
  <2>. QED
    BY <1>3, <1>4, <1>7, <2>1, PhaseKeepsInv DEF CacheList
<1>. QED
  BY <1>5, <1>6, <1>7

(* A verification ends, with or without a verdict.                         *)
LEMMA EndKeepsInv ==
  ASSUME MessagingInv, HttpInv', CreationInv', RevokedGrows, VerdictIsTrue',
         UNCHANGED <<elsewhere, cache>>,
         NEW v \in Verifiers, End(v), stage'[v] = "idle",
         \A u \in Verifiers \ {v} : SameExchange(u)
  PROVE  MessagingInv'
<1>1. \A u \in Verifiers \ {v} : SameVerification(u)
  BY DEF End, SameVerification, MessagingInv, VerificationShape
<1>2. Verification(v)'
  BY DEF End, Verification, MessagingInv, VerificationShape
<1>3. VerificationShape'
  BY DEF End, MessagingInv, VerificationShape
<1>. QED
  BY <1>1, <1>2, <1>3, OneVerification

LEMMA ReplyVerifyKeepsInv ==
  ASSUME MessagingInv, NEW v \in Verifiers, ReplyVerify(v)
  PROVE  MessagingInv'
<1>1. /\ phase[v] = "reply" /\ target[v].index \in 0 .. Size - 1
      /\ verdict' = Verdict(v) /\ End(v)
      /\ UNCHANGED <<store, exchange, creation, elsewhere, cache>>
      /\ known' = IF Bit(v) /\ TargetUrl(v) \notin Publishers
                  THEN known \cup {<<TargetUrl(v).path[1], target[v].index>>}
                  ELSE known
  BY DEF ReplyVerify
<1>2. TargetOK(v) /\ FetchedOK(v) /\ stage[v] = "idle"
  BY <1>1 DEF MessagingInv, Verification
<1>3. Bit(v) => <<TargetUrl(v), target[v].index>> \in RevokedEntries
  BY <1>2 DEF Bit, FetchedOK
<1>4. KnownGrows
  <2>1. Bit(v) /\ TargetUrl(v) \notin Publishers =>
          <<TargetUrl(v).path[1], target[v].index>> \in Revocations
    BY <1>1, <1>3, RevokedHere, HttpAssumption DEF Revocations, MessagingInv, HttpInv
  <2>2. Revocations' = Revocations
    BY <1>1 DEF Revocations, store
  <2>. QED
    BY <1>1, <2>1, <2>2 DEF KnownGrows, MessagingInv, HttpInv
<1>5. HttpInv' /\ CreationInv' /\ RevokedGrows /\ \A c : SameExchange(c)
  BY <1>1, <1>4, QuietStep
<1>6. VerdictIsTrue'
  <2>1. /\ verdict'.url = TargetUrl(v) /\ verdict'.index = target[v].index
        /\ verdict'.revoked = Bit(v) /\ verdict'.since = target[v].revoked
    <3>. HIDE DEF Bit
    <3>. QED
      BY <1>1 DEF Verdict
  <2>2. CASE Bit(v)
    <3>1. <<verdict'.url, verdict'.index>> \in RevokedEntries'
      BY <1>3, <1>5, <2>1, <2>2, RevokedEntriesGrow
    <3>2. verdict'.revoked
      BY <2>1, <2>2, Zenon
    <3>. QED
      BY <3>1, <3>2 DEF VerdictIsTrue
  <2>3. CASE ~Bit(v)
    <3>1. ~verdict'.revoked
      BY <2>1, <2>3, Zenon
    <3>2. ~target[v].revoked
      BY <1>2, <2>3 DEF FetchedOK, Bit
    <3>3. ~verdict'.since
      BY <2>1, <3>2, Zenon
    <3>. QED
      BY <3>1, <3>3 DEF VerdictIsTrue
  <2>. QED
    BY <2>2, <2>3
<1>7. stage'[v] = "idle"
  BY <1>1, <1>2 DEF exchange
<1>. QED
  BY <1>1, <1>5, <1>6, <1>7, EndKeepsInv

LEMMA ReplyBeforeFirstKeepsInv ==
  ASSUME MessagingInv, NEW v \in Verifiers, ReplyBeforeFirst(v)
  PROVE  MessagingInv'
<1>1. /\ phase[v] = "reply" /\ target[v].index \in (1 - ByteWidth) .. -1
      /\ verdict' = [Verdict(v) EXCEPT !.revoked = FALSE] /\ End(v)
      /\ UNCHANGED <<store, exchange, known, creation, elsewhere, cache>>
  BY DEF ReplyBeforeFirst, httpVars
<1>2. HttpInv' /\ CreationInv' /\ RevokedGrows /\ \A c : SameExchange(c)
  BY <1>1, QuietKnown, QuietStep
<1>3. TargetOK(v) /\ stage'[v] = "idle"
  BY <1>1 DEF MessagingInv, Verification, exchange
<1>4. ~target[v].revoked
  <2>1. target[v].index \notin Nat
    BY <1>1, HttpAssumption
  <2>. QED
    BY <1>3, <2>1, RevokedIndex DEF TargetOK, MessagingInv, HttpInv
<1>5. VerdictIsTrue'
  <2>1. ~verdict'.revoked /\ verdict'.since = target[v].revoked
    <3>. HIDE DEF Bit
    <3>. QED
      BY <1>1 DEF Verdict
  <2>2. ~verdict'.since
    BY <1>4, <2>1, Zenon
  <2>. QED
    BY <2>1, <2>2 DEF VerdictIsTrue
<1>. QED
  BY <1>1, <1>2, <1>3, <1>5, EndKeepsInv

LEMMA NoVerdictKeepsInv ==
  ASSUME MessagingInv, NEW v \in Verifiers, NoVerdict(v)
  PROVE  MessagingInv'
<1>1. /\ End(v) /\ Idle(v)
      /\ UNCHANGED <<store, known, creation, elsewhere, cache, verdict>>
  BY DEF NoVerdict
<1>2. v \in Clients /\ Verifiers \subseteq Clients
  BY MessagingAssumption
<1>3. StoreGrows /\ KnownGrows
  BY <1>1, QuietKnown
<1>4. HttpInv'
  BY <1>1, <1>2, <1>3, IdleKeepsInv DEF MessagingInv
<1>5. CreationInv' /\ RevokedGrows
  BY <1>1, <1>3, CreationStays, SameElsewhereGrows DEF MessagingInv
<1>6. stage'[v] = "idle" /\ \A u \in Verifiers \ {v} : SameExchange(u)
  BY <1>1, <1>2 DEF Idle, Goto, SameExchange, MessagingInv, HttpInv, HttpShape
<1>7. VerdictIsTrue'
  BY <1>1, <1>5, VerdictStays DEF MessagingInv
<1>. QED
  BY <1>1, <1>4, <1>5, <1>6, <1>7, EndKeepsInv

LEMMA ProcessDiesKeepsInv ==
  ASSUME MessagingInv, ProcessDies
  PROVE  MessagingInv'
<1>1. UNCHANGED <<store, known, creation, elsewhere, cache, verdict>> /\ Dropped
  BY DEF ProcessDies
<1>2. StoreGrows /\ KnownGrows
  BY <1>1, QuietKnown
<1>3. HttpInv'
  BY <1>1, <1>2, DroppedKeepsInv DEF MessagingInv
<1>4. CreationInv' /\ RevokedGrows
  BY <1>1, <1>2, CreationStays, SameElsewhereGrows DEF MessagingInv
<1>5. VerdictIsTrue'
  BY <1>1, <1>4, VerdictStays DEF MessagingInv
<1>6. VerificationShape' /\ \A v \in Verifiers : Verification(v)'
  BY <1>1, MessagingAssumption
     DEF ProcessDies, Dropped, VerificationShape, Verification, MessagingInv
<1>. QED
  BY <1>3, <1>4, <1>5, <1>6 DEF MessagingInv

-------------------------------------------------------------------------------
(* The invariant.                                                          *)

LEMMA VerifyKeepsInv ==
  ASSUME MessagingInv, NEW v \in Verifiers, Verify(v)
  PROVE  MessagingInv'
<1>1. CASE RequestVerify(v) \/ Fetch(v) \/ ReadBody(v) \/ FetchElsewhere(v)
  BY <1>1, RequestVerifyKeepsInv, FetchKeepsInv, ReadBodyKeepsInv,
     FetchElsewhereKeepsInv
<1>2. CASE SignerAccepts(v) \/ CreateCacheTable(v) \/ CacheList(v)
  BY <1>2, HandlingKeepsInv
<1>3. CASE ReplyVerify(v) \/ ReplyBeforeFirst(v)
  BY <1>3, ReplyVerifyKeepsInv, ReplyBeforeFirstKeepsInv
<1>4. CASE RejectList(v) \/ VerifyFails(v)
  BY <1>4, NoVerdictKeepsInv DEF RejectList, VerifyFails
<1>5. CASE VerifyPanic(v)
  BY <1>5, ProcessDiesKeepsInv DEF VerifyPanic
<1>. QED
  BY <1>1, <1>2, <1>3, <1>4, <1>5 DEF Verify, HandleVerify

LEMMA CreateKeepsInv ==
  ASSUME MessagingInv, Create
  PROVE  MessagingInv'
<1>1. CreationInv' /\ StoreGrows
  BY CreateKeepsCreation DEF MessagingInv
<1>2. UNCHANGED <<exchange, known, verification>>
  BY DEF Create, RequestEntry, HandleCreate, HandleCreateFails, LoseRequest, Handled,
     ReceiveReply, httpVars
<1>3. KnownGrows
  BY <1>1, <1>2, SameKnownGrows DEF MessagingInv
<1>4. HttpInv'
  BY <1>1, <1>2, <1>3, NoExchange DEF MessagingInv
<1>5. RevokedGrows
  BY <1>1, <1>2, SameElsewhereGrows DEF verification
<1>6. \A v \in Verifiers : SameExchange(v)
  BY <1>2 DEF SameExchange, exchange
<1>. QED
  BY <1>1, <1>2, <1>4, <1>5, <1>6, NoVerification
     DEF verification, MessagingInv, VerificationShape

LEMMA PublishKeepsInv ==
  ASSUME MessagingInv, NEW u \in Publishers, Publish(u, 0)
  PROVE  MessagingInv'
<1>1. /\ UNCHANGED <<store, exchange, known, creation, phase, target, fetched, cache,
                     verdict>>
      /\ elsewhere' = [elsewhere EXCEPT ![u] = @ \cup {0}]
  BY DEF Publish, httpVars
<1>2. StoreGrows /\ KnownGrows
  BY <1>1, QuietKnown
<1>3. HttpInv' /\ CreationInv'
  BY <1>1, <1>2, NoExchange, CreationStays DEF MessagingInv
<1>4. /\ DOMAIN elsewhere' = Publishers
      /\ \A w \in Publishers : /\ elsewhere[w] \subseteq elsewhere'[w]
                               /\ elsewhere'[w] \subseteq Nat
  BY <1>1 DEF MessagingInv, VerificationShape
<1>5. RevokedGrows /\ \A v \in Verifiers : SameExchange(v)
  BY <1>1, <1>2, <1>4 DEF RevokedGrows, SameExchange, exchange
<1>. QED
  BY <1>1, <1>3, <1>4, <1>5, NoVerification

LEMMA InitInv == Init => MessagingInv
<1>. SUFFICES ASSUME Init PROVE MessagingInv
  OBVIOUS
<1>1. HttpInv
  BY HttpInitInv DEF Init
<1>2. CreationInv
  <2>1. Given = {}
    BY DEF Init, CreationInit, Given, Holders
  <2>2. \A j \in Jobs : MaxAttempts[j] \in Nat
    BY MessagingAssumption
  <2>. QED
    BY <2>1, <2>2 DEF Init, CreationInit, CreationInv, Holders
<1>3. VerificationShape /\ VerdictIsTrue
  BY DEF Init, VerificationInit, VerificationShape, VerdictIsTrue
<1>4. \A v \in Verifiers : Verification(v)
  BY MessagingAssumption
     DEF Init, VerificationInit, HttpInit, ExchangeInit, Verification
<1>. QED
  BY <1>1, <1>2, <1>3, <1>4 DEF MessagingInv

LEMMA StepKeepsInv == MessagingInv /\ [Next]_vars => MessagingInv'
<1>. SUFFICES ASSUME MessagingInv, [Next]_vars PROVE MessagingInv'
  OBVIOUS
<1>1. CASE UNCHANGED vars
  <2>1. /\ UNCHANGED <<store, exchange, known, creation, elsewhere, phase, target,
                       fetched, cache, verdict>>
    BY <1>1 DEF vars, httpVars, verification
  <2>2. HttpInv' /\ CreationInv' /\ RevokedGrows /\ \A c : SameExchange(c)
    BY <2>1, QuietKnown, QuietStep
  <2>. QED
    BY <2>1, <2>2, NoVerification DEF MessagingInv, VerificationShape
<1>. QED
  BY <1>1, HttpKeepsInv, CreateKeepsInv, PublishKeepsInv, VerifyKeepsInv,
     ProcessDiesKeepsInv DEF Next

THEOREM MessagingInvariant == Spec => []MessagingInv
BY InitInv, StepKeepsInv, PTL DEF Spec

-------------------------------------------------------------------------------
(* What issuers and verifiers may rely on.                                 *)

LEMMA InvTypes == MessagingInv => MessagingTypeOK
<1>. SUFFICES ASSUME MessagingInv PROVE MessagingTypeOK
  OBVIOUS
<1>1. HttpTypeOK
  BY HttpInvTypes DEF MessagingInv
<1>2. \A r \in replies : r.request \notin inbox
  BY DEF MessagingInv, CreationInv, AnswerSent
<1>3. ASSUME NEW v \in Verifiers
      PROVE  /\ IF phase[v] = "idle" THEN target[v] = None
                ELSE target[v].type \in VerifyTypes
             /\ IF phase[v] \in {"check", "decode", "cache", "reply"}
                THEN fetched[v].status = 200 ELSE fetched[v] = None
             /\ phase[v] # "fetch" => stage[v] = "idle"
             /\ phase[v] = "reply" => TargetUrl(v) \in DOMAIN cache
  BY DEF MessagingInv, Verification, TargetOK, FetchedOK
<1>. QED
  BY <1>1, <1>2, <1>3
     DEF MessagingInv, CreationInv, VerificationShape, MessagingTypeOK

LEMMA InvHeldEntries == MessagingInv => HeldEntries
<1>. SUFFICES ASSUME MessagingInv, NEW j \in Holders
              PROVE  LET e == entry[j] IN
                     /\ \A k \in Holders \ {j} :
                          <<entry[k].list, entry[k].index>> # <<e.list, e.index>>
                     /\ e.list \in DOMAIN lists /\ e.index \in lists[e.list].taken
                     /\ group[e.list] = GroupOf[j]
  BY DEF HeldEntries, Holders
<1>1. \A k \in Holders : ReplyOK(entry[k]) /\ entry[k].request.job = k
                         /\ entry[k] \in Given
  BY DEF MessagingInv, CreationInv, Given
<1>2. \A k \in Holders \ {j} : entry[k] # entry[j]
  BY <1>1
<1>3. \A k \in Holders \ {j} :
        <<entry[k].list, entry[k].index>> # <<entry[j].list, entry[j].index>>
  BY <1>1, <1>2 DEF MessagingInv, CreationInv
<1>. QED
  BY <1>1, <1>3 DEF ReplyOK

(* No two credentials are ever given the same entry, whichever requests    *)
(* were repeated, copied, lost, handled twice or answered with an error    *)
(* although an entry was taken for them; and the entry of each is taken in *)
(* a list of its group.                                                    *)
THEOREM EntriesAreHeldOnce == Spec => []HeldEntries
BY MessagingInvariant, InvHeldEntries, PTL

(* A verdict says "revoked" only of a revoked entry, and "not revoked"     *)
(* only of one that was not when the verification was requested.           *)
THEOREM VerdictsAreTrue == Spec => []VerdictIsTrue
<1>1. MessagingInv => VerdictIsTrue
  BY DEF MessagingInv
<1>. QED
  BY <1>1, MessagingInvariant, PTL

(* The lists that verifications and other clients fetch next to them are   *)
(* those of StatusHttp.                                                    *)
THEOREM FetchedListsAreTrue == Spec => []ListAnswerIsTrue
<1>1. MessagingInv => ListAnswerIsTrue
  BY HttpInvAnswers DEF MessagingInv
<1>. QED
  BY <1>1, MessagingInvariant, PTL

(* The states of jobs and verifications, and what is kept in each.         *)
THEOREM MessagingTypeInvariant == Spec => []MessagingTypeOK
BY MessagingInvariant, InvTypes, PTL

-------------------------------------------------------------------------------
(* The promise.  Users are told of a revocation that did not take place    *)
(* when they revoke by a negative index (RevokeBeforeFirst); clients who   *)
(* do not are promised that what they know is revoked.                     *)

NoNegativeRevoke ==
  \A r \in HttpRequests : r.kind = "revoke" => r.index \notin BeforeFirst

KnownRevoked ==
  /\ \A e \in known : e[2] \notin BeforeFirst
  /\ \A c \in Clients :
       stage[c] # "idle" /\ request[c].kind = "revoke" =>
         request[c].index \notin BeforeFirst

LEMMA LearnedRevoked ==
  ASSUME HttpInv, KnownRevoked, NEW c \in Clients, stage[c] = "answer"
  PROVE  \A e \in Learned(request[c], answer[c]) : e[2] \notin BeforeFirst
<1>. SUFFICES ASSUME NEW e \in Learned(request[c], answer[c])
              PROVE  e[2] \notin BeforeFirst
  OBVIOUS
<1>1. answer[c].status = 200
  BY DEF Learned
<1>2. CASE request[c].kind = "revoke"
  BY <1>1, <1>2 DEF Learned, KnownRevoked
<1>3. CASE request[c].kind = "getList"
  <2>1. "list" \in DOMAIN answer[c].body /\ e[2] \in answer[c].body.list.bits
    BY <1>1, <1>3 DEF Learned
  <2>2. PICK l \in DOMAIN lists : answer[c].body.list.bits \subseteq lists[l].revoked
    <3>1. PICK l \in DOMAIN lists : \E bits \in SUBSET lists[l].revoked :
            /\ Read(c, l, bits)
            /\ "list" \in DOMAIN answer[c].body => answer[c].body.list.bits = bits
      BY <1>1, <1>3, AnswerShowsRead
    <3>. QED
      BY <2>1, <3>1
  <2>3. e[2] \in 0 .. Size - 1
    BY <2>1, <2>2 DEF HttpInv, ListsOK, EntryNumbers
  <2>. QED
    BY <2>3, HttpAssumption DEF BeforeFirst
<1>4. CASE request[c].kind = "health"
  <2>1. AnswerOK(c)
    BY DEF HttpInv, Exchange
  <2>2. "list" \notin DOMAIN answer[c].body
    BY <1>1, <1>4, <2>1 DEF AnswerOK, Written, NoBody
  <2>. QED
    BY <1>1, <1>4, <2>2 DEF Learned
<1>5. RequestOK(request[c])
  BY DEF HttpInv, Exchange
<1>. QED
  BY <1>2, <1>3, <1>4, <1>5 DEF RequestOK

LEMMA QuietKnownRevoked ==
  ASSUME KnownRevoked, UNCHANGED known,
         \A c \in Clients : \/ stage'[c] = "idle"
                            \/ stage[c] # "idle" /\ request'[c] = request[c]
  PROVE  KnownRevoked'
BY DEF KnownRevoked

LEMMA HttpKeepsKnownRevoked ==
  ASSUME MessagingInv, NoNegativeRevoke, KnownRevoked, Http
  PROVE  KnownRevoked'
<1>1. PICK c \in Clients :
        \/ Handle(c) \/ SignToken(c) \/ Disconnect(c)
        \/ Send(c) \/ Receive(c)
  BY DEF Http, ServeHttp
<1>2. \A d \in Clients \ {c} : SameExchange(d)
  BY <1>1, OwnExchange DEF MessagingInv, HttpStep
<1>3. \A d \in Clients \ {c} : \/ stage'[d] = "idle"
                               \/ stage[d] # "idle" /\ request'[d] = request[d]
  BY <1>2 DEF SameExchange
<1>4. CASE Handle(c) \/ SignToken(c) \/ Disconnect(c)
  <2>1. stage[c] # "idle" /\ (stage'[c] = "idle" \/ request'[c] = request[c])
    BY <1>4, StepsOfBusy, SameRequest DEF MessagingInv
  <2>2. UNCHANGED known
    BY <1>4 DEF Handle, SignToken, Disconnect, Decode, Health, NotFound, GetList,
       SignFails, Revoke, RevokeBeforeFirst, RevokePanic, DatabaseFails
  <2>. QED
    BY <1>3, <2>1, <2>2, QuietKnownRevoked
<1>5. CASE Send(c)
  <2>1. request'[c] \in HttpRequests /\ UNCHANGED known
    BY <1>5 DEF Send, Begin, MessagingInv, HttpInv, HttpShape
  <2>. QED
    BY <1>2, <2>1 DEF KnownRevoked, NoNegativeRevoke, SameExchange
<1>6. CASE Receive(c)
  <2>1. \A e \in known' : e[2] \notin BeforeFirst
    BY <1>6, LearnedRevoked DEF Receive, KnownRevoked, MessagingInv
  <2>2. stage'[c] = "idle"
    BY <1>6 DEF Receive, Idle, Goto, MessagingInv, HttpInv, HttpShape
  <2>. QED
    BY <1>3, <2>1, <2>2 DEF KnownRevoked
<1>. QED
  BY <1>1, <1>4, <1>5, <1>6

LEMMA VerifyKeepsKnownRevoked ==
  ASSUME MessagingInv, KnownRevoked, NEW v \in Verifiers, Verify(v)
  PROVE  KnownRevoked'
<1>1. v \in Clients
  BY MessagingAssumption
<1>2. ASSUME UNCHANGED <<exchange, known>> PROVE KnownRevoked'
  BY <1>2 DEF KnownRevoked, exchange
<1>3. ASSUME Idle(v), UNCHANGED known PROVE KnownRevoked'
  BY <1>1, <1>3 DEF KnownRevoked, Idle, Goto, MessagingInv, HttpInv, HttpShape
<1>4. CASE Fetch(v)
  <2>1. Begin(v, ListRequest(v))
    BY <1>4 DEF Fetch, ListRequest
  <2>. QED
    BY <1>1, <2>1
       DEF Begin, Goto, ListRequest, KnownRevoked, MessagingInv, HttpInv, HttpShape
<1>5. CASE ReplyVerify(v)
  <2>1. \A e \in known' : e[2] \notin BeforeFirst
    BY <1>5, HttpAssumption DEF ReplyVerify, BeforeFirst, KnownRevoked
  <2>. QED
    BY <1>5, <2>1 DEF ReplyVerify, KnownRevoked, exchange
<1>6. CASE VerifyPanic(v)
  BY <1>6 DEF VerifyPanic, ProcessDies, Dropped, KnownRevoked
<1>. QED
  BY <1>2, <1>3, <1>4, <1>5, <1>6
     DEF Verify, HandleVerify, RequestVerify, VerifyEvent, FetchElsewhere,
         SignerAccepts, VerifyFails, RejectList, NoVerdict, ReadBody,
         CreateCacheTable, CacheList, ReplyBeforeFirst, httpVars

LEMMA StepKeepsKnownRevoked ==
  ASSUME MessagingInv, NoNegativeRevoke, KnownRevoked, [Next]_vars
  PROVE  KnownRevoked'
<1>1. ASSUME UNCHANGED <<exchange, known>> PROVE KnownRevoked'
  BY <1>1 DEF KnownRevoked, exchange
<1>2. CASE Create
  BY <1>1, <1>2 DEF Create, RequestEntry, HandleCreate, HandleCreateFails, LoseRequest,
     Handled, ReceiveReply, httpVars
<1>3. CASE \E u \in Publishers : Publish(u, 0)
  BY <1>1, <1>3 DEF Publish, httpVars
<1>4. CASE ProcessDies
  BY <1>4 DEF ProcessDies, Dropped, KnownRevoked
<1>5. CASE UNCHANGED vars
  BY <1>1, <1>5 DEF vars, httpVars
<1>. QED
  BY <1>2, <1>3, <1>4, <1>5, HttpKeepsKnownRevoked, VerifyKeepsKnownRevoked DEF Next

-------------------------------------------------------------------------------
(* The entries the promise speaks of.                                      *)

LEMMA RevokedArePairs == \A x \in RevokedEntries : x = <<x[1], x[2]>>
<1>. DEFINE ofList(l) == {<<StatusUrl(group[l].origin, l), k>> : k \in lists[l].revoked}
            ofUrl(u) == {<<u, k>> : k \in elsewhere[u]}
            here == UNION {ofList(l) : l \in DOMAIN lists}
            there == UNION {ofUrl(u) : u \in Publishers}
<1>1. RevokedEntries = here \cup there
  BY Zenon DEF RevokedEntries
<1>2. \A l : \A x \in ofList(l) : x = <<x[1], x[2]>>
  OBVIOUS
<1>3. \A u : \A x \in ofUrl(u) : x = <<x[1], x[2]>>
  OBVIOUS
<1>. HIDE DEF ofList, ofUrl
<1>4. \A x \in here \cup there : x = <<x[1], x[2]>>
  BY <1>2, <1>3
<1>. HIDE DEF here, there
<1>. QED
  BY <1>1, <1>4

LEMMA RevokedSubset ==
  ASSUME RevokedGrows
  PROVE  RevokedEntries \subseteq RevokedEntries'
<1>. SUFFICES ASSUME NEW x \in RevokedEntries PROVE x \in RevokedEntries'
  OBVIOUS
<1>1. x = <<x[1], x[2]>>
  BY RevokedArePairs
<1>2. <<x[1], x[2]>> \in RevokedEntries
  BY <1>1
<1>3. <<x[1], x[2]>> \in RevokedEntries'
  BY <1>2, RevokedEntriesGrow
<1>. QED
  BY <1>1, <1>3

LEMMA KnownEntry ==
  \A x : x \in KnownEntries <=>
    \E l \in DOMAIN lists : \E e \in known :
      e[1] = l /\ x = <<StatusUrl(group[l].origin, l), e[2]>>
<1>. DEFINE ofList(l) == {<<StatusUrl(group[l].origin, l), e[2]>> :
                            e \in {k \in known : k[1] = l}}
<1>1. KnownEntries = UNION {ofList(l) : l \in DOMAIN lists}
  BY Zenon DEF KnownEntries
<1>2. \A l : \A x : x \in ofList(l) <=>
        \E e \in known : e[1] = l /\ x = <<StatusUrl(group[l].origin, l), e[2]>>
  OBVIOUS
<1>. HIDE DEF ofList
<1>. QED
  BY <1>1, <1>2

LEMMA NextKnownEntry ==
  (\A x : x \in KnownEntries <=>
    \E l \in DOMAIN lists : \E e \in known :
      e[1] = l /\ x = <<StatusUrl(group[l].origin, l), e[2]>>)'
BY KnownEntry, PTL

LEMMA SameKnownEntries ==
  ASSUME HttpInv, StoreGrows, UNCHANGED known
  PROVE  KnownEntries' = KnownEntries
<1>. SUFFICES ASSUME NEW x PROVE x \in KnownEntries' <=> x \in KnownEntries
  OBVIOUS
<1>1. \A e \in known : e[1] \in DOMAIN lists
  BY DEF HttpInv, Revocations
<1>2. \A l \in DOMAIN lists : l \in DOMAIN lists' /\ group'[l] = group[l]
  BY DEF StoreGrows
<1>. QED
  BY <1>1, <1>2, KnownEntry, NextKnownEntry

LEMMA MoreKnownEntries ==
  ASSUME StoreGrows, known \subseteq known'
  PROVE  KnownEntries \subseteq KnownEntries'
BY KnownEntry, NextKnownEntry DEF StoreGrows

LEMMA KnownAreRevoked ==
  HttpInv /\ KnownRevoked => KnownEntries \subseteq RevokedEntries
<1>. SUFFICES ASSUME HttpInv, KnownRevoked, NEW x \in KnownEntries
              PROVE  x \in RevokedEntries
  OBVIOUS
<1>1. PICK l \in DOMAIN lists : \E e \in known :
        e[1] = l /\ x = <<StatusUrl(group[l].origin, l), e[2]>>
  BY KnownEntry
<1>2. PICK e \in known : e[1] = l /\ x = <<StatusUrl(group[l].origin, l), e[2]>>
  BY <1>1
<1>3. e[2] \in lists[l].revoked
  BY <1>2 DEF HttpInv, KnownRevoked, Revocations
<1>. QED
  BY <1>2, <1>3, RevokedEntry

LEMMA NextKnownAreRevoked ==
  (HttpInv /\ KnownRevoked => KnownEntries \subseteq RevokedEntries)'
BY KnownAreRevoked, PTL

LEMMA ServedUrls ==
  ASSUME ListsOK, NEW url, UrlOK(url)
  PROVE  url \in Urls
<1>1. CASE url \in Publishers
  BY <1>1 DEF Urls
<1>2. CASE \E l \in DOMAIN lists : url = StatusUrl(group[l].origin, l)
  <2>1. PICK l \in DOMAIN lists : url = StatusUrl(group[l].origin, l)
    BY <1>2
  <2>2. group[l] \in Groups /\ <<l>> \in Seq(Nat)
    BY HttpAssumption DEF ListsOK
  <2>. QED
    BY <2>1, <2>2 DEF Urls, StatusUrl, Url
<1>. QED
  BY <1>1, <1>2 DEF UrlOK

(* Where the path of a reply leads, and that no value is not its entry.    *)
LEMMA ReplyEntry ==
  ASSUME ListsOK, NEW r, ReplyOK(r)
  PROVE  /\ r.url.path[1] = r.list
         /\ <<r.url, r.index>> # None
<1>1. r.url = StatusUrl(group[r.list].origin, r.list)
  BY DEF ReplyOK, CreateReply
<1>2. r.url.path[1] = r.list
  BY <1>1 DEF StatusUrl, Url
<1>3. r.url \in Urls
  BY <1>1, ServedUrls DEF ReplyOK, UrlOK
<1>4. r.index \in 0 .. Size - 1
  BY DEF ReplyOK, ListsOK, EntryNumbers
<1>5. r.index \in Int
  BY <1>4, HttpAssumption
<1>. QED
  BY <1>2, <1>3, <1>5, MessagingAssumption

-------------------------------------------------------------------------------
(* Every step is one of the promise.                                       *)

(* What users do not notice.                                               *)
LEMMA HiddenStep ==
  ASSUME RevokedGrows, Held' = Held, KnownEntries' = KnownEntries,
         Asked' = Asked, Answered' = Answered
  PROVE  Promise!Next
BY RevokedSubset DEF Promise!Next, Promise!Revoke

LEMMA SameAsked ==
  ASSUME UNCHANGED target,
         \A v \in Verifiers : phase'[v] = "idle" <=> phase[v] = "idle"
  PROVE  Asked' = Asked
BY DEF Asked

LEMMA SameRevoked ==
  ASSUME UNCHANGED <<lists, group, elsewhere>>
  PROVE  RevokedEntries' = RevokedEntries
BY DEF RevokedEntries

(* A step of an HTTP handler, or of the store, is a revocation at most.    *)
LEMMA UnknownStep ==
  ASSUME MessagingInv, RevokedGrows,
         UNCHANGED <<entry, known, phase, target, verdict>>
  PROVE  Promise!Next
<1>1. Held' = Held /\ Answered' = Answered /\ Asked' = Asked
  BY SameAsked DEF Held, Answered
<1>2. KnownEntries' = KnownEntries
  BY SameKnownEntries DEF MessagingInv, RevokedGrows
<1>. QED
  BY <1>1, <1>2, HiddenStep

LEMMA ReceiveIsLearn ==
  ASSUME MessagingInv, HttpInv', KnownRevoked', NEW c \in Clients, Receive(c),
         UNCHANGED <<creation, verification>>
  PROVE  Promise!Next
<1>1. known \subseteq known' /\ UNCHANGED store
  BY DEF Receive
<1>2. StoreGrows
  BY <1>1, SameStoreGrows DEF MessagingInv, HttpInv
<1>3. KnownEntries \subseteq KnownEntries'
  BY <1>1, <1>2, MoreKnownEntries
<1>4. RevokedEntries' = RevokedEntries
  BY <1>1, SameRevoked DEF store, verification
<1>5. KnownEntries' \subseteq RevokedEntries
  BY <1>4, NextKnownAreRevoked
<1>6. Held' = Held /\ Answered' = Answered /\ Asked' = Asked
  BY SameAsked DEF Held, Answered, creation, verification
<1>. QED
  BY <1>3, <1>4, <1>5, <1>6 DEF Promise!Next, Promise!Learn

LEMMA HttpIsStep ==
  ASSUME MessagingInv, HttpInv', KnownRevoked', Http
  PROVE  Promise!Next
<1>1. PICK c \in Clients :
        /\ \/ Handle(c) \/ SignToken(c) \/ Disconnect(c)
           \/ Send(c) \/ Receive(c)
        /\ UNCHANGED <<creation, verification>>
  BY DEF Http, ServeHttp
<1>2. CASE Receive(c)
  BY <1>1, <1>2, ReceiveIsLearn
<1>3. CASE Handle(c) \/ SignToken(c) \/ Disconnect(c) \/ Send(c)
  <2>1. RevokedGrows
    BY <1>1, OwnExchange, SameElsewhereGrows DEF MessagingInv, HttpStep, verification
  <2>2. UNCHANGED known
    BY <1>3 DEF Handle, SignToken, Disconnect, Decode, Health, NotFound, GetList,
       SignFails, Revoke, RevokeBeforeFirst, RevokePanic, DatabaseFails, Send, Begin
  <2>. QED
    BY <1>1, <2>1, <2>2, UnknownStep DEF creation, verification
<1>. QED
  BY <1>1, <1>2, <1>3

(* A credential holds an entry nobody else holds.                          *)
LEMMA ReceiveReplyIsHold ==
  ASSUME MessagingInv, NEW r \in replies, ReceiveReply(r)
  PROVE  Promise!Next
<1>. DEFINE j == r.request.job
<1>1. UNCHANGED <<httpVars, verification>>
  BY DEF ReceiveReply
<1>2. RevokedGrows
  BY <1>1, QuietKnown, SameElsewhereGrows DEF httpVars, verification
<1>3. /\ KnownEntries' = KnownEntries /\ Asked' = Asked /\ Answered' = Answered
      /\ RevokedEntries' = RevokedEntries
  BY <1>1, <1>2, SameRevoked, SameKnownEntries, SameAsked
     DEF httpVars, store, verification, RevokedGrows, MessagingInv, Answered
<1>4. CASE Held' = Held
  BY <1>2, <1>3, <1>4, HiddenStep
<1>5. CASE Held' # Held
  <2>1. /\ r \in Given /\ ReplyOK(r) /\ j \in Jobs
        /\ entry[j] = None /\ entry' = [entry EXCEPT ![j] = r]
    BY <1>5, AcceptedReply DEF MessagingInv, Held
  <2>2. entry[j] = None /\ entry' = [entry EXCEPT ![j] = r]
    BY <2>1
  <2>3. r # None
    BY <1>5, <2>1, <2>2 DEF MessagingInv, CreationInv, Held
  <2>4. Held[j] = None /\ Held'[j] = <<r.url, r.index>>
    BY <2>1, <2>2, <2>3 DEF Held, MessagingInv, CreationInv
  <2>5. \A k \in Jobs : Held'[k] = IF k = j THEN Held'[j] ELSE Held[k]
    BY <2>2 DEF Held, MessagingInv, CreationInv
  <2>6. ASSUME NEW k \in Jobs \ {j} PROVE Held[k] # Held'[j]
    <3>1. CASE entry[k] = None
      BY <2>1, <2>4, <3>1, ReplyEntry DEF Held, MessagingInv, HttpInv
    <3>2. CASE entry[k] # None
      <4>1. entry[k] \in Given /\ ReplyOK(entry[k]) /\ entry[k].request.job = k
        BY <3>2 DEF MessagingInv, CreationInv, Given, Holders
      <4>2. <<entry[k].list, entry[k].index>> # <<r.list, r.index>>
        BY <2>1, <4>1 DEF MessagingInv, CreationInv
      <4>3. entry[k].url.path[1] = entry[k].list /\ r.url.path[1] = r.list
        BY <2>1, <4>1, ReplyEntry DEF MessagingInv, HttpInv
      <4>4. Held[k] = <<entry[k].url, entry[k].index>>
        BY <3>2 DEF Held
      <4>. QED
        BY <2>4, <4>2, <4>3, <4>4
    <3>. QED
      BY <3>1, <3>2
  <2>7. Promise!Hold(j)
    BY <1>3, <2>4, <2>5, <2>6 DEF Promise!Hold
  <2>. QED
    BY <2>1, <2>7 DEF Promise!Next
<1>. QED
  BY <1>4, <1>5

LEMMA CreateIsStep ==
  ASSUME MessagingInv, Create
  PROVE  Promise!Next
<1>1. CASE \E r \in replies : ReceiveReply(r)
  BY <1>1, ReceiveReplyIsHold
<1>2. CASE \/ \E j \in Jobs : RequestEntry(j)
           \/ \E m \in inbox : HandleCreate(m) \/ HandleCreateFails(m) \/ LoseRequest(m)
  <2>1. UNCHANGED <<known, entry, verification>>
    BY <1>2 DEF RequestEntry, HandleCreate, HandleCreateFails, LoseRequest, Handled,
       httpVars
  <2>2. RevokedGrows
    BY <2>1, CreateKeepsCreation, SameElsewhereGrows DEF MessagingInv, verification
  <2>. QED
    BY <2>1, <2>2, UnknownStep DEF verification
<1>. QED
  BY <1>1, <1>2 DEF Create

LEMMA PublishIsStep ==
  ASSUME MessagingInv, NEW u \in Publishers, Publish(u, 0)
  PROVE  Promise!Next
<1>1. UNCHANGED <<store, known, entry, phase, target, verdict>>
  BY DEF Publish, httpVars, creation
<1>2. StoreGrows
  BY <1>1, SameStoreGrows DEF MessagingInv, HttpInv
<1>3. \A w \in Publishers : elsewhere[w] \subseteq elsewhere'[w]
  BY DEF Publish, MessagingInv, VerificationShape
<1>. QED
  BY <1>1, <1>2, <1>3, UnknownStep DEF RevokedGrows

(* A verification is asked of what its event names.                        *)
LEMMA AskedOf ==
  ASSUME NEW v \in Verifiers, phase[v] # "idle", TargetOK(v), ListsOK
  PROVE  /\ Asked[v] = [entry |-> <<target[v].url, target[v].index>>,
                        revoked |-> target[v].revoked]
         /\ Asked[v] # None
<1>1. target[v].url \in Urls
  BY ServedUrls DEF TargetOK, TargetUrl
<1>2. target[v].index \in Int /\ target[v].revoked \in BOOLEAN
  BY DEF TargetOK
<1>3. [entry |-> <<target[v].url, target[v].index>>, revoked |-> target[v].revoked]
        \in [entry : Urls \X Int, revoked : BOOLEAN]
  BY <1>1, <1>2, Zenon
<1>4. None \notin [entry : Urls \X Int, revoked : BOOLEAN]
  BY MessagingAssumption
<1>5. Asked[v] = [entry |-> <<target[v].url, target[v].index>>,
                  revoked |-> target[v].revoked]
  BY DEF Asked
<1>. QED
  BY <1>3, <1>4, <1>5, Zenon

LEMMA NextAskedOf ==
  (\A v \in Verifiers : phase[v] # "idle" /\ TargetOK(v) /\ ListsOK =>
     /\ Asked[v] = [entry |-> <<target[v].url, target[v].index>>,
                    revoked |-> target[v].revoked]
     /\ Asked[v] # None)'
<1>1. \A v \in Verifiers : phase[v] # "idle" /\ TargetOK(v) /\ ListsOK =>
     /\ Asked[v] = [entry |-> <<target[v].url, target[v].index>>,
                    revoked |-> target[v].revoked]
     /\ Asked[v] # None
  BY AskedOf
<1>. QED
  BY <1>1, PTL

LEMMA RequestVerifyIsAsk ==
  ASSUME MessagingInv, MessagingInv', NEW v \in Verifiers, RequestVerify(v)
  PROVE  Promise!Next
<1>1. PICK e \in Entries \cup Publishers \X Indexes, type \in VerifyTypes :
        VerifyEvent(v, e[1], e[2], type)
  BY DEF RequestVerify
<1>. DEFINE status == <<e[1], e[2]>> \in RevokedEntries
<1>2. /\ phase[v] = "idle" /\ phase'[v] = "request"
      /\ UNCHANGED <<store, known, entry, elsewhere, verdict>>
      /\ \A u \in Verifiers \ {v} : phase'[u] = phase[u] /\ target'[u] = target[u]
  BY <1>1 DEF VerifyEvent, MessagingInv, VerificationShape, creation
<1>3. /\ target'[v].url = e[1] /\ target'[v].index = e[2]
      /\ target'[v].revoked = status
  <2>1. target'[v] = [url |-> e[1], index |-> e[2], type |-> type,
                      revoked |-> <<e[1], e[2]>> \in RevokedEntries]
    BY <1>1 DEF VerifyEvent, MessagingInv, VerificationShape
  <2>. HIDE DEF status
  <2>. QED
    BY <2>1 DEF status
<1>4. StoreGrows
  BY <1>2, SameStoreGrows DEF MessagingInv, HttpInv
<1>5. /\ Held' = Held /\ Answered' = Answered
      /\ KnownEntries' = KnownEntries /\ RevokedEntries' = RevokedEntries
  BY <1>2, <1>4, SameKnownEntries, SameRevoked
     DEF Held, Answered, store, MessagingInv
<1>6. TargetOK(v)' /\ ListsOK'
  BY <1>2 DEF MessagingInv, Verification, HttpInv
<1>7. /\ Asked'[v] = [entry |-> <<target'[v].url, target'[v].index>>,
                      revoked |-> target'[v].revoked]
      /\ Asked'[v] # None
  BY <1>2, <1>6, NextAskedOf
<1>8. Asked'[v].entry = <<e[1], e[2]>> /\ Asked'[v].revoked = status
  <2>1. Asked'[v].revoked = target'[v].revoked
    BY <1>7
  <2>. HIDE DEF status
  <2>. QED
    BY <1>3, <1>7, <2>1
<1>9. Asked'[v].revoked <=> Asked'[v].entry \in RevokedEntries
  BY <1>8, Zenon
<1>10. Asked[v] = None
  BY <1>2 DEF Asked
<1>11. \A u \in Verifiers \ {v} : Asked'[u] = Asked[u]
  BY <1>2 DEF Asked
<1>12. Promise!Ask(v)
  BY <1>5, <1>7, <1>9, <1>10, <1>11, Zenon DEF Promise!Ask
<1>. QED
  BY <1>12 DEF Promise!Next

(* The steps between a request and its answer are not noticed.             *)
LEMMA HandlingIsHidden ==
  ASSUME MessagingInv, NEW v \in Verifiers,
         \/ Fetch(v) \/ ReadBody(v) \/ FetchElsewhere(v)
         \/ SignerAccepts(v) \/ CreateCacheTable(v) \/ CacheList(v)
  PROVE  Promise!Next
<1>1. /\ UNCHANGED <<store, known, entry, elsewhere, target, verdict>>
      /\ phase[v] # "idle"
      /\ \E p \in {"fetch", "check", "decode", "cache", "reply"} :
           phase' = [phase EXCEPT ![v] = p]
  BY DEF Fetch, Begin, ReadBody, FetchElsewhere, SignerAccepts, CreateCacheTable,
     CacheList, httpVars, creation
<1>2. \A u \in Verifiers : phase'[u] = "idle" <=> phase[u] = "idle"
  BY <1>1 DEF MessagingInv, VerificationShape
<1>3. Held' = Held /\ Answered' = Answered /\ Asked' = Asked
  BY <1>1, <1>2, SameAsked DEF Held, Answered
<1>4. StoreGrows
  BY <1>1, SameStoreGrows DEF MessagingInv, HttpInv
<1>5. RevokedGrows
  BY <1>1, <1>4, SameElsewhereGrows
<1>6. KnownEntries' = KnownEntries
  BY <1>1, <1>4, SameKnownEntries DEF MessagingInv
<1>. QED
  BY <1>3, <1>5, <1>6, HiddenStep

(* What ends leaves the rest as it was.                                    *)
LEMMA EndIsDone ==
  ASSUME MessagingInv, NEW v \in Verifiers, End(v),
         UNCHANGED <<store, entry, elsewhere>>
  PROVE  /\ Promise!Done(v)
         /\ Held' = Held /\ RevokedEntries' = RevokedEntries /\ StoreGrows
<1>1. \A u \in Verifiers : Asked'[u] = IF u = v THEN None ELSE Asked[u]
  BY DEF End, Asked, MessagingInv, VerificationShape
<1>2. Asked' = [Asked EXCEPT ![v] = None]
  BY <1>1 DEF Asked
<1>3. RevokedEntries' = RevokedEntries
  BY SameRevoked DEF store
<1>4. StoreGrows
  BY SameStoreGrows DEF MessagingInv, HttpInv
<1>. QED
  BY <1>2, <1>3, <1>4 DEF Promise!Done, Held

LEMMA AbandonedIsStep ==
  ASSUME MessagingInv,
         \A v \in Verifiers :
           \/ phase'[v] = "idle"
           \/ phase'[v] = phase[v] /\ target'[v] = target[v],
         UNCHANGED <<store, entry, elsewhere, known, verdict>>
  PROVE  Promise!Next
<1>1. \A v \in Verifiers : Asked'[v] \in {Asked[v], None}
  BY DEF Asked
<1>2. StoreGrows
  BY SameStoreGrows DEF MessagingInv, HttpInv
<1>3. /\ Held' = Held /\ Answered' = Answered
      /\ KnownEntries' = KnownEntries /\ RevokedEntries' = RevokedEntries
  BY <1>2, SameKnownEntries, SameRevoked DEF Held, Answered, store, MessagingInv
<1>. QED
  BY <1>1, <1>3 DEF Promise!Next, Promise!Abandon

(* The verdict of a verification, as its user is answered.                 *)
LEMMA VerdictAnswered ==
  ASSUME MessagingInv, NEW v \in Verifiers, TargetOK(v), NEW bit \in BOOLEAN,
         verdict' = [url |-> TargetUrl(v), index |-> target[v].index,
                     revoked |-> bit, since |-> target[v].revoked]
  PROVE  Answered' = [entry |-> <<target[v].url, target[v].index>>,
                      revoked |-> bit, since |-> target[v].revoked]
<1>1. TargetUrl(v) \in Urls /\ target[v].index \in Int /\ target[v].revoked \in BOOLEAN
  BY ServedUrls DEF TargetOK, MessagingInv, HttpInv
<1>2. verdict' \in [url : Urls, index : Int, revoked : BOOLEAN, since : BOOLEAN]
  BY <1>1, Zenon
<1>3. None \notin [url : Urls, index : Int, revoked : BOOLEAN, since : BOOLEAN]
  BY MessagingAssumption
<1>4. verdict' # None
  BY <1>2, <1>3
<1>5. /\ verdict'.url = target[v].url /\ verdict'.index = target[v].index
      /\ verdict'.revoked = bit /\ verdict'.since = target[v].revoked
  BY DEF TargetUrl
<1>6. Answered' = [entry |-> <<verdict'.url, verdict'.index>>,
                   revoked |-> verdict'.revoked, since |-> verdict'.since]
  BY <1>4 DEF Answered
<1>. QED
  BY <1>5, <1>6

(* The user of a verdict knows its entry, if it is of this service.        *)
LEMMA VerdictKnown ==
  ASSUME MessagingInv, NEW v \in Verifiers, TargetOK(v),
         TargetUrl(v) \notin Publishers, StoreGrows,
         known' = known \cup {<<TargetUrl(v).path[1], target[v].index>>}
  PROVE  KnownEntries' = KnownEntries \cup {<<target[v].url, target[v].index>>}
<1>1. PICK l \in DOMAIN lists : TargetUrl(v) = StatusUrl(group[l].origin, l)
  BY DEF TargetOK, UrlOK
<1>2. PICK i : i = target[v].index
  OBVIOUS
<1>3. known' = known \cup {<<l, i>>}
  BY <1>1, <1>2 DEF StatusUrl, Url
<1>4. \A m \in DOMAIN lists : m \in DOMAIN lists' /\ group'[m] = group[m]
  BY DEF StoreGrows
<1>5. \A e \in known' : e[1] \in DOMAIN lists
  BY <1>3 DEF MessagingInv, HttpInv, Revocations
<1>6. ASSUME NEW x
      PROVE  x \in KnownEntries' <=>
               x \in KnownEntries \/ x = <<StatusUrl(group[l].origin, l), i>>
  <2>1. x \in KnownEntries' <=>
          \E e \in known' : x = <<StatusUrl(group[e[1]].origin, e[1]), e[2]>>
    BY <1>4, <1>5, NextKnownEntry
  <2>2. x \in KnownEntries <=>
          \E e \in known : x = <<StatusUrl(group[e[1]].origin, e[1]), e[2]>>
    BY <1>3, <1>5, KnownEntry
  <2>. DEFINE at(e) == <<StatusUrl(group[e[1]].origin, e[1]), e[2]>>
  <2>3. at(<<l, i>>) = <<StatusUrl(group[l].origin, l), i>>
    OBVIOUS
  <2>4. (\E e \in known' : x = at(e)) <=>
          (\E e \in known : x = at(e)) \/ x = at(<<l, i>>)
    <3>. HIDE DEF at
    <3>. QED
      BY <1>3
  <2>. QED
    BY <2>1, <2>2, <2>3, <2>4
<1>7. <<target[v].url, target[v].index>> = <<StatusUrl(group[l].origin, l), i>>
  BY <1>1, <1>2 DEF TargetUrl
<1>. QED
  BY <1>6, <1>7

LEMMA ReplyVerifyIsAnswer ==
  ASSUME MessagingInv, NEW v \in Verifiers, ReplyVerify(v)
  PROVE  Promise!Next
<1>1. /\ phase[v] = "reply" /\ verdict' = Verdict(v) /\ End(v)
      /\ UNCHANGED <<store, entry, elsewhere>>
      /\ known' = IF Bit(v) /\ TargetUrl(v) \notin Publishers
                  THEN known \cup {<<TargetUrl(v).path[1], target[v].index>>}
                  ELSE known
  BY DEF ReplyVerify, creation
<1>2. TargetOK(v) /\ FetchedOK(v) /\ ListsOK
  BY <1>1 DEF MessagingInv, Verification, HttpInv
<1>3. /\ Asked[v] = [entry |-> <<target[v].url, target[v].index>>,
                     revoked |-> target[v].revoked]
      /\ Asked[v] # None
  BY <1>1, <1>2, AskedOf
<1>4. /\ Promise!Done(v)
      /\ Held' = Held /\ RevokedEntries' = RevokedEntries /\ StoreGrows
  BY <1>1, EndIsDone
<1>5. /\ Asked[v].entry = <<target[v].url, target[v].index>>
      /\ Asked[v].revoked = target[v].revoked
  BY <1>3
<1>. DEFINE bit == Bit(v)
<1>6. bit \in BOOLEAN
  BY DEF Bit
<1>7. Answered' = [entry |-> <<target[v].url, target[v].index>>,
                   revoked |-> bit, since |-> target[v].revoked]
  <2>1. verdict' = [url |-> TargetUrl(v), index |-> target[v].index,
                    revoked |-> bit, since |-> target[v].revoked]
    BY <1>1, Zenon DEF Verdict
  <2>. HIDE DEF bit
  <2>. QED
    BY <1>2, <1>6, <2>1, VerdictAnswered
<1>8. CASE Bit(v)
  <2>1. Asked[v].entry \in RevokedEntries
    BY <1>2, <1>5, <1>8 DEF Bit, FetchedOK, TargetUrl
  <2>2. KnownEntries' \in {KnownEntries, KnownEntries \cup {Asked[v].entry}}
    BY <1>1, <1>2, <1>4, <1>5, <1>8, VerdictKnown, SameKnownEntries DEF MessagingInv
  <2>3. bit = TRUE
    BY <1>8, Zenon
  <2>4. Answered' = [entry |-> Asked[v].entry, revoked |-> TRUE,
                     since |-> Asked[v].revoked]
    <3>. HIDE DEF bit
    <3>. QED
      BY <1>5, <1>7, <2>3
  <2>5. Promise!AnswerRevoked(v)
    BY <1>3, <1>4, <2>1, <2>2, <2>4 DEF Promise!AnswerRevoked
  <2>. QED
    BY <2>5 DEF Promise!Next
<1>9. CASE ~Bit(v)
  <2>1. ~target[v].revoked
    BY <1>2, <1>9 DEF FetchedOK, Bit
  <2>2. KnownEntries' = KnownEntries
    BY <1>1, <1>4, <1>9, SameKnownEntries DEF MessagingInv
  <2>3. bit = FALSE
    <3>1. ~bit
      BY <1>9
    <3>. HIDE DEF bit
    <3>. QED
      BY <1>6, <3>1
  <2>4. target[v].revoked = FALSE
    BY <1>2, <2>1 DEF TargetOK
  <2>5. Answered' = [entry |-> Asked[v].entry, revoked |-> FALSE, since |-> FALSE]
    <3>. HIDE DEF bit
    <3>. QED
      BY <1>5, <1>7, <2>3, <2>4
  <2>6. Promise!AnswerValid(v)
    BY <1>3, <1>4, <1>5, <2>1, <2>2, <2>5 DEF Promise!AnswerValid
  <2>. QED
    BY <2>6 DEF Promise!Next
<1>. QED
  BY <1>8, <1>9

LEMMA ReplyBeforeFirstIsAnswer ==
  ASSUME MessagingInv, NEW v \in Verifiers, ReplyBeforeFirst(v)
  PROVE  Promise!Next
<1>1. /\ phase[v] = "reply" /\ target[v].index \in (1 - ByteWidth) .. -1
      /\ verdict' = [Verdict(v) EXCEPT !.revoked = FALSE] /\ End(v)
      /\ UNCHANGED <<store, entry, elsewhere, known>>
  BY DEF ReplyBeforeFirst, httpVars, creation
<1>2. TargetOK(v) /\ ListsOK
  BY <1>1 DEF MessagingInv, Verification, HttpInv
<1>3. /\ Asked[v] = [entry |-> <<target[v].url, target[v].index>>,
                     revoked |-> target[v].revoked]
      /\ Asked[v] # None
  BY <1>1, <1>2, AskedOf
<1>4. /\ Promise!Done(v)
      /\ Held' = Held /\ RevokedEntries' = RevokedEntries /\ StoreGrows
  BY <1>1, EndIsDone
<1>5. target[v].revoked = FALSE
  <2>1. target[v].index \notin Nat
    BY <1>1, HttpAssumption
  <2>2. ~target[v].revoked
    BY <1>2, <2>1, RevokedIndex DEF TargetOK, MessagingInv, HttpInv
  <2>. QED
    BY <1>2, <2>2 DEF TargetOK
<1>6. Answered' = [entry |-> <<target[v].url, target[v].index>>,
                   revoked |-> FALSE, since |-> target[v].revoked]
  <2>1. verdict' = [url |-> TargetUrl(v), index |-> target[v].index,
                    revoked |-> FALSE, since |-> target[v].revoked]
    <3>. HIDE DEF Bit
    <3>. QED
      BY <1>1 DEF Verdict
  <2>. QED
    BY <1>2, <2>1, VerdictAnswered
<1>7. KnownEntries' = KnownEntries
  BY <1>1, <1>4, SameKnownEntries DEF MessagingInv
<1>8. /\ Answered' = [entry |-> Asked[v].entry, revoked |-> FALSE, since |-> FALSE]
      /\ ~Asked[v].revoked
  <2>1. /\ Asked[v].entry = <<target[v].url, target[v].index>>
        /\ Asked[v].revoked = target[v].revoked
    BY <1>3
  <2>. QED
    BY <1>5, <1>6, <2>1
<1>9. Promise!AnswerValid(v)
  BY <1>3, <1>4, <1>7, <1>8 DEF Promise!AnswerValid
<1>. QED
  BY <1>9 DEF Promise!Next

LEMMA VerifyIsStep ==
  ASSUME MessagingInv, MessagingInv', NEW v \in Verifiers, Verify(v)
  PROVE  Promise!Next
<1>1. CASE RequestVerify(v)
  BY <1>1, RequestVerifyIsAsk
<1>2. CASE \/ Fetch(v) \/ ReadBody(v) \/ FetchElsewhere(v)
           \/ SignerAccepts(v) \/ CreateCacheTable(v) \/ CacheList(v)
  BY <1>2, HandlingIsHidden
<1>3. CASE ReplyVerify(v) \/ ReplyBeforeFirst(v)
  BY <1>3, ReplyVerifyIsAnswer, ReplyBeforeFirstIsAnswer
<1>4. CASE NoVerdict(v)
  <2>1. UNCHANGED <<store, entry, elsewhere, known, verdict>>
    BY <1>4 DEF NoVerdict, creation
  <2>2. \A u \in Verifiers : \/ phase'[u] = "idle"
                             \/ phase'[u] = phase[u] /\ target'[u] = target[u]
    BY <1>4 DEF NoVerdict, End, MessagingInv, VerificationShape
  <2>. QED
    BY <2>1, <2>2, AbandonedIsStep
<1>5. CASE ProcessDies
  BY <1>5, AbandonedIsStep DEF ProcessDies, creation
<1>. QED
  BY <1>1, <1>2, <1>3, <1>4, <1>5
     DEF Verify, HandleVerify, RejectList, VerifyFails, VerifyPanic

LEMMA StepIsPromised ==
  ASSUME MessagingInv, MessagingInv', KnownRevoked', [Next]_vars
  PROVE  [Promise!Next]_(Promise!vars)
<1>1. CASE UNCHANGED vars
  <2>1. UNCHANGED <<store, known, entry, phase, target, elsewhere, verdict>>
    BY <1>1 DEF vars, httpVars, creation, verification
  <2>2. StoreGrows
    BY <2>1, SameStoreGrows DEF MessagingInv, HttpInv
  <2>3. RevokedGrows
    BY <2>1, <2>2, SameElsewhereGrows
  <2>. QED
    BY <2>1, <2>3, UnknownStep
<1>2. CASE Http
  BY <1>2, HttpIsStep DEF MessagingInv
<1>3. CASE ProcessDies
  BY <1>3, AbandonedIsStep DEF ProcessDies, creation
<1>. QED
  BY <1>1, <1>2, <1>3, CreateIsStep, PublishIsStep, VerifyIsStep DEF Next

LEMMA InitIsPromised == Init => Promise!Init
<1>. SUFFICES ASSUME Init PROVE Promise!Init
  OBVIOUS
<1>1. DOMAIN lists = {} /\ elsewhere = [u \in Publishers |-> {}]
  BY DEF Init, HttpInit, VerificationInit, Store!Init
<1>2. Held = [j \in Jobs |-> None]
  BY DEF Init, CreationInit, Held
<1>3. KnownEntries = {}
  BY <1>1, KnownEntry
<1>4. RevokedEntries = {}
  <2>1. ASSUME NEW x \in RevokedEntries PROVE FALSE
    <3>1. <<x[1], x[2]>> \in RevokedEntries
      BY RevokedArePairs
    <3>. QED
      BY <1>1, <3>1, RevokedEntry
  <2>. QED
    BY <2>1
<1>5. Asked = [v \in Verifiers |-> None]
  BY DEF Init, VerificationInit, Asked
<1>6. Answered = None
  BY DEF Init, VerificationInit, Answered
<1>. QED
  BY <1>2, <1>3, <1>4, <1>5, <1>6 DEF Promise!Init

LEMMA InitKnownRevoked == Init => KnownRevoked
BY DEF Init, HttpInit, ExchangeInit, KnownRevoked

(* What clients were told is revoked was not before the first entry.       *)
LEMMA KnownIsRevoked ==
  ASSUME NoNegativeRevoke PROVE Spec => []KnownRevoked
<1>1. MessagingInv /\ KnownRevoked /\ [Next]_vars => KnownRevoked'
  BY StepKeepsKnownRevoked
<1>. QED
  BY <1>1, InitKnownRevoked, MessagingInvariant, PTL DEF Spec

(* The messaging and HTTP handlers keep the promise to their users: an     *)
(* entry serves one credential, nobody is told of a revocation that did    *)
(* not take place, and a verification sees those that had.                 *)
THEOREM PromiseImplemented ==
  ASSUME NoNegativeRevoke PROVE Spec => ImplementsPromise
<1>1. MessagingInv /\ MessagingInv' /\ KnownRevoked' /\ [Next]_vars =>
        [Promise!Next]_(Promise!vars)
  BY StepIsPromised
<1>2. Spec => []KnownRevoked
  BY KnownIsRevoked
<1>. QED
  BY <1>1, <1>2, InitIsPromised, MessagingInvariant, PTL
     DEF Spec, ImplementsPromise, Promise!Spec

(* So does every step, also those of a service started in a later state.   *)
THEOREM PromiseKept ==
  ASSUME NoNegativeRevoke PROVE Spec => KeepsPromise
<1>1. MessagingInv /\ MessagingInv' /\ KnownRevoked' /\ [Next]_vars =>
        [Promise!Next]_(Promise!vars)
  BY StepIsPromised
<1>2. Spec => []KnownRevoked
  BY KnownIsRevoked
<1>. QED
  BY <1>1, <1>2, MessagingInvariant, PTL DEF Spec, KeepsPromise

===============================================================================
