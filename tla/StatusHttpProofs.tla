--------------------------- MODULE StatusHttpProofs ---------------------------
(***************************************************************************)
(* The safety of the HTTP side, for any number of clients, lists, requests *)
(* and exchanges: HttpInv is inductive, what clients may rely on follows.  *)
(*                                                                         *)
(* The lemmas about the steps do not say who takes them, so that they also *)
(* serve for StatusMessaging.                                              *)
(***************************************************************************)
EXTENDS StatusClient, StatusHttpInvariant, TLAPS

-------------------------------------------------------------------------------
(* The store only grows.                                                   *)

StoreGrows ==
  /\ ListsOK'
  /\ DOMAIN lists \subseteq DOMAIN lists'
  /\ \A l \in DOMAIN lists :
       /\ lists[l].taken \subseteq lists'[l].taken
       /\ lists[l].revoked \subseteq lists'[l].revoked
       /\ group'[l] = group[l]

LEMMA SameStoreGrows == ListsOK /\ UNCHANGED store => StoreGrows
BY DEF ListsOK, StoreGrows, store, EntryNumbers

LEMMA AllocationGrows ==
  ASSUME ListsOK, NEW g \in Groups, NEW l \in 1 .. MaxLists, NEW i,
         AllocateEntry(g, l, i)
  PROVE  StoreGrows /\ acked' = acked
<1>. USE DEF ListsOK, EntryNumbers
<1>1. CASE /\ l \in DOMAIN lists
           /\ Store!GrantEntry(l, i)
           /\ UNCHANGED group
  <2>1. i \in 0 .. Size - 1
    BY <1>1 DEF Store!GrantEntry
  <2>. QED
    BY <1>1, <2>1 DEF Store!GrantEntry, StoreGrows
<1>2. CASE /\ Store!OpenList(l, Size)
           /\ group' = [m \in DOMAIN lists' |-> IF m = l THEN g ELSE group[m]]
  <2>1. 0 \in 0 .. Size - 1
    BY HttpAssumption
  <2>. QED
    BY <1>2, <2>1 DEF Store!OpenList, StoreGrows
<1>. QED
  BY <1>1, <1>2 DEF AllocateEntry

LEMMA RevocationGrows ==
  ASSUME ListsOK, NEW l, NEW i, Store!RevokeEntry(l, i), UNCHANGED group
  PROVE  StoreGrows /\ l \in DOMAIN lists /\ i \in Int /\ i \in lists'[l].revoked
<1>1. i \in 0 .. Size - 1
  BY DEF Store!RevokeEntry, ListsOK
<1>. QED
  BY <1>1 DEF Store!RevokeEntry, StoreGrows, ListsOK, EntryNumbers

LEMMA RevocationsStay ==
  ASSUME ListsOK, StoreGrows
  PROVE  Revocations \subseteq Revocations'
<1>. SUFFICES ASSUME NEW e \in Revocations PROVE e \in Revocations'
  OBVIOUS
<1>1. e[1] \in DOMAIN lists
  BY DEF Revocations
<1>. QED
  BY <1>1 DEF Revocations, StoreGrows

-------------------------------------------------------------------------------
(* An exchange that takes no step stays as it is.                          *)

SameExchange(c) ==
  /\ stage'[c] = stage[c] /\ request'[c] = request[c] /\ loaded'[c] = loaded[c]
  /\ answer'[c] = answer[c] /\ since'[c] = since[c]

LEMMA ReadStays ==
  ASSUME ListsOK, StoreGrows, NEW c, request'[c] = request[c], since'[c] = since[c],
         NEW l \in DOMAIN lists, NEW bits \in SUBSET lists[l].revoked,
         Read(c, l, bits)
  PROVE  /\ l \in DOMAIN lists' /\ bits \in SUBSET lists'[l].revoked
         /\ Read(c, l, bits)'
         /\ RowWith(l, bits)' = RowWith(l, bits)
<1>1. l \in DOMAIN lists' /\ bits \in SUBSET lists'[l].revoked /\ group'[l] = group[l]
  BY DEF StoreGrows
<1>2. lists[l].size = Size /\ lists'[l].size = Size
  BY <1>1 DEF ListsOK, StoreGrows
<1>3. EntriesOf(l)' = EntriesOf(l)
  BY <1>2 DEF EntriesOf
<1>4. l \in Found(request[c])'
  BY <1>1 DEF Found, Read
<1>5. RowWith(l, bits)' = RowWith(l, bits)
  BY <1>1 DEF RowWith, Row
<1>. QED
  BY <1>1, <1>3, <1>4, <1>5 DEF Read

LEMMA SameExchangeOK ==
  ASSUME ListsOK, StoreGrows, known \subseteq known',
         NEW c, Exchange(c), SameExchange(c)
  PROVE  Exchange(c)'
<1>. USE DEF SameExchange
<1>1. SignOK(c) => SignOK(c)'
  <2>. SUFFICES ASSUME SignOK(c) PROVE SignOK(c)'
    OBVIOUS
  <2>1. PICK l \in DOMAIN lists : \E bits \in SUBSET lists[l].revoked :
               Read(c, l, bits) /\ loaded[c] = RowWith(l, bits)
    BY DEF SignOK
  <2>2. PICK bits \in SUBSET lists[l].revoked :
               Read(c, l, bits) /\ loaded[c] = RowWith(l, bits)
    BY <2>1
  <2>. QED
    BY <2>2, ReadStays DEF SignOK
<1>2. AnswerOK(c) => AnswerOK(c)'
  <2>. SUFFICES ASSUME AnswerOK(c) PROVE AnswerOK(c)'
    OBVIOUS
  <2>1. ASSUME answer[c].status = 200, request[c].kind = "getList"
        PROVE  \E l \in DOMAIN lists' : \E bits \in SUBSET lists'[l].revoked :
                 /\ Read(c, l, bits)'
                 /\ answer'[c].body = Written(request'[c].accept,
                      Value(FormOf(request'[c].accept), RowWith(l, bits)'))
    <3>1. PICK l \in DOMAIN lists : \E bits \in SUBSET lists[l].revoked :
                 Read(c, l, bits) /\ answer[c].body = Written(request[c].accept,
                      Value(FormOf(request[c].accept), RowWith(l, bits)))
      BY <2>1 DEF AnswerOK
    <3>2. PICK bits \in SUBSET lists[l].revoked :
                 Read(c, l, bits) /\ answer[c].body = Written(request[c].accept,
                      Value(FormOf(request[c].accept), RowWith(l, bits)))
      BY <3>1
    <3>. QED
      BY <3>2, ReadStays
  <2>2. Found(request[c]) \subseteq Found(request[c])'
    BY DEF Found, StoreGrows
  <2>3. Revocations \subseteq Revocations'
    BY RevocationsStay
  <2>. QED
    BY <2>1, <2>2, <2>3 DEF AnswerOK
<1>. QED
  BY <1>1, <1>2 DEF Exchange

-------------------------------------------------------------------------------
(* The exchange that takes the step.                                       *)

(* What clients know stays true.                                           *)
KnownGrows == known \subseteq known' /\ known' \subseteq Revocations'

LEMMA SameKnownGrows ==
  ASSUME HttpInv, StoreGrows, UNCHANGED known
  PROVE  KnownGrows
BY RevocationsStay DEF HttpInv, KnownGrows

LEMMA OneExchange ==
  ASSUME HttpInv, StoreGrows, KnownGrows, HttpShape',
         NEW c \in Clients, Exchange(c)',
         \A d \in Clients \ {c} : SameExchange(d)
  PROVE  HttpInv'
<1>1. ASSUME NEW d \in Clients PROVE Exchange(d)'
  <2>1. CASE d = c
    BY <2>1
  <2>2. CASE d # c
    <3>1. SameExchange(d)
      BY <2>2
    <3>. QED
      BY <3>1, SameExchangeOK DEF HttpInv, KnownGrows
  <2>. QED
    BY <2>1, <2>2
<1>. QED
  BY <1>1 DEF HttpInv, StoreGrows, KnownGrows

LEMMA NoExchange ==
  ASSUME HttpInv, StoreGrows, KnownGrows, UNCHANGED exchange
  PROVE  HttpInv'
<1>1. ASSUME NEW d \in Clients PROVE Exchange(d)'
  <2>1. SameExchange(d)
    BY DEF SameExchange, exchange
  <2>. QED
    BY <2>1, SameExchangeOK DEF HttpInv, KnownGrows
<1>2. HttpShape'
  BY DEF HttpInv, HttpShape, exchange
<1>. QED
  BY <1>1, <1>2 DEF HttpInv, StoreGrows, KnownGrows

LEMMA BeginKeepsInv ==
  ASSUME HttpInv, NEW c \in Clients, NEW r, RequestOK(r), Begin(c, r)
  PROVE  HttpInv'
<1>1. StoreGrows /\ KnownGrows
  BY SameStoreGrows, SameKnownGrows DEF HttpInv, Begin
<1>2. HttpShape'
  BY DEF HttpInv, HttpShape, Begin, Goto
<1>3. \A d \in Clients \ {c} : SameExchange(d)
  BY DEF HttpInv, HttpShape, Begin, Goto, SameExchange
<1>4. Exchange(c)'
  BY DEF HttpInv, HttpShape, Begin, Goto, Exchange
<1>. QED
  BY <1>1, <1>2, <1>3, <1>4, OneExchange

LEMMA IdleKeepsInv ==
  ASSUME HttpInv, StoreGrows, KnownGrows, NEW c \in Clients, Idle(c)
  PROVE  HttpInv'
<1>2. HttpShape'
  BY DEF HttpInv, HttpShape, Idle, Goto
<1>3. \A d \in Clients \ {c} : SameExchange(d)
  BY DEF HttpInv, HttpShape, Idle, Goto, SameExchange
<1>4. Exchange(c)'
  BY DEF HttpInv, HttpShape, Idle, Goto, Exchange
<1>. QED
  BY <1>2, <1>3, <1>4, OneExchange

LEMMA DroppedKeepsInv ==
  ASSUME HttpInv, StoreGrows, KnownGrows, Dropped
  PROVE  HttpInv'
<1>1. \A c \in Clients : Exchange(c)'
  BY DEF Dropped, Exchange
<1>2. HttpShape'
  BY DEF HttpShape, Dropped
<1>. QED
  BY <1>1, <1>2 DEF HttpInv, StoreGrows, KnownGrows

(* A value that answers a request truthfully.                              *)
TrueValue(c, value) ==
  /\ request[c].kind = "getList" =>
       \E l \in DOMAIN lists : \E bits \in SUBSET lists[l].revoked :
         /\ Read(c, l, bits)
         /\ value = Value(FormOf(request[c].accept), RowWith(l, bits))
  /\ request[c].kind = "revoke" =>
       /\ Found(request[c]) # {}
       /\ <<request[c].list, request[c].index>> \in Revocations
       /\ value = [form |-> "revoked"]
  /\ request[c].kind = "health" => value = [form |-> "text"]

(* A response is one of three statuses; a 200 has a value that is true.    *)
LEMMA RespondKeepsInv ==
  ASSUME HttpInv, StoreGrows, KnownGrows, NEW c \in Clients, stage[c] # "idle",
         NEW status \in {200, 400, 500}, NEW value, Respond(c, status, value),
         status = 200 => TrueValue(c, value)'
  PROVE  HttpInv'
<1>1. /\ request' = request /\ since' = since /\ loaded' = loaded
      /\ stage'[c] = "answer"
      /\ answer'[c] = [status |-> status, type |-> ContentType(request[c].accept),
                       body |-> Written(request[c].accept, value)]
  BY DEF HttpInv, HttpShape, Respond, Goto
<1>2. HttpShape'
  BY DEF HttpInv, HttpShape, Respond, Goto
<1>3. \A d \in Clients \ {c} : SameExchange(d)
  BY DEF HttpInv, HttpShape, Respond, Goto, SameExchange
<1>4. AnswerOK(c)'
  <2>1. ASSUME status = 200, request[c].kind = "getList"
        PROVE  \E l \in DOMAIN lists' : \E bits \in SUBSET lists'[l].revoked :
                 /\ Read(c, l, bits)'
                 /\ answer'[c].body = Written(request[c].accept,
                      Value(FormOf(request[c].accept), RowWith(l, bits)'))
    <3>1. PICK l \in DOMAIN lists' : \E bits \in SUBSET lists'[l].revoked :
                  /\ Read(c, l, bits)'
                  /\ value = Value(FormOf(request[c].accept), RowWith(l, bits)')
      BY <1>1, <2>1 DEF TrueValue
    <3>. QED
      BY <1>1, <3>1
  <2>2. status = 200 =>
          /\ request[c].kind = "revoke" =>
               /\ Found(request[c])' # {}
               /\ <<request[c].list, request[c].index>> \in Revocations'
               /\ value = [form |-> "revoked"]
          /\ request[c].kind = "health" => value = [form |-> "text"]
    BY <1>1 DEF TrueValue
  <2>. QED
    BY <1>1, <2>1, <2>2 DEF AnswerOK
<1>5. Exchange(c)'
  BY <1>1, <1>4 DEF HttpInv, KnownGrows, Exchange
<1>. QED
  BY <1>2, <1>3, <1>5, OneExchange

LEMMA FailureKeepsInv ==
  ASSUME HttpInv, StoreGrows, KnownGrows, NEW c \in Clients, stage[c] # "idle",
         NEW status \in {400, 500}, Respond(c, status, Failure)
  PROVE  HttpInv'
<1>1. status \in {200, 400, 500} /\ status # 200
  OBVIOUS
<1>. QED
  BY <1>1, RespondKeepsInv

-------------------------------------------------------------------------------
(* The steps of the handlers.                                              *)

(* A SELECT reads all that was known, and nothing that is not revoked.     *)
LEMMA SelectReads ==
  ASSUME HttpInv, NEW c \in Clients, NEW l \in Found(request[c])
  PROVE  /\ Read(c, l, lists[l].revoked)
         /\ RowWith(l, lists[l].revoked) = Row(l)
<1>1. since[c] \subseteq Revocations
  BY DEF HttpInv, Exchange
<1>2. since[c] \cap EntriesOf(l) \subseteq {l} \X lists[l].revoked
  <2>. SUFFICES ASSUME NEW e \in since[c] \cap EntriesOf(l)
                PROVE  e \in {l} \X lists[l].revoked
    OBVIOUS
  <2>1. e = <<l, e[2]>> /\ e[2] \in 0 .. lists[l].size - 1
    BY DEF EntriesOf
  <2>2. lists[l].size = Size
    BY DEF HttpInv, ListsOK, Found
  <2>3. e[2] \in lists[l].revoked
    BY <1>1, <2>1, <2>2, HttpAssumption DEF Revocations, BeforeFirst
  <2>. QED
    BY <2>1, <2>3
<1>. QED
  BY <1>2 DEF Read, RowWith, Row

LEMMA NextStageKeepsInv ==
  ASSUME HttpInv, UNCHANGED <<store, known>>, NEW c \in Clients,
         NEW s \in {"getList", "revoke", "health", "sign"},
         stage[c] \notin {"idle", "answer"}, Goto(c, s),
         UNCHANGED <<request, answer, since>>,
         DOMAIN loaded' = Clients,
         \A d \in Clients \ {c} : loaded'[d] = loaded[d],
         s = "sign" => SignOK(c)',
         s # "sign" => request[c].kind = s
  PROVE  HttpInv'
<1>1. StoreGrows /\ KnownGrows
  BY SameStoreGrows, SameKnownGrows DEF HttpInv
<1>2. HttpShape'
  BY DEF HttpInv, HttpShape, Goto
<1>3. \A d \in Clients \ {c} : SameExchange(d)
  BY DEF HttpInv, HttpShape, Goto, SameExchange
<1>4. Exchange(c)'
  BY DEF HttpInv, HttpShape, Goto, Exchange
<1>. QED
  BY <1>1, <1>2, <1>3, <1>4, OneExchange

LEMMA GetListKeepsInv ==
  ASSUME HttpInv, NEW c \in Clients, GetList(c)
  PROVE  HttpInv'
<1>1. StoreGrows /\ KnownGrows
  BY SameStoreGrows, SameKnownGrows DEF HttpInv, GetList
<1>2. stage[c] = "getList" /\ request[c].kind = "getList"
  BY DEF HttpInv, Exchange, GetList
<1>3. PICK l \in Found(request[c]) :
        LET form == FormOf(request[c].accept) IN
        IF form = "token"
        THEN /\ loaded' = [loaded EXCEPT ![c] = Row(l)]
             /\ Goto(c, "sign")
             /\ UNCHANGED <<request, answer, since>>
        ELSE Respond(c, 200, Value(form, Row(l)))
  BY DEF GetList
<1>4. /\ l \in DOMAIN lists /\ lists[l].revoked \in SUBSET lists[l].revoked
      /\ Read(c, l, lists[l].revoked)
      /\ RowWith(l, lists[l].revoked) = Row(l)
  BY SelectReads DEF Found
<1>5. request'[c] = request[c] /\ since'[c] = since[c]
  BY <1>3 DEF Respond
<1>6. PICK bits \in SUBSET lists[l].revoked :
        bits = lists[l].revoked
  OBVIOUS
<1>7. Read(c, l, bits) /\ RowWith(l, bits) = Row(l)
  BY <1>4, <1>6
<1>8. /\ l \in DOMAIN lists' /\ bits \in SUBSET lists'[l].revoked
      /\ Read(c, l, bits)' /\ RowWith(l, bits)' = Row(l)
  BY <1>1, <1>4, <1>5, <1>7, ReadStays DEF HttpInv
<1>9. CASE FormOf(request[c].accept) = "token"
  <2>1. loaded'[c] = Row(l)
    BY <1>3, <1>9 DEF HttpInv, HttpShape
  <2>2. SignOK(c)'
    BY <1>2, <1>5, <1>8, <1>9, <2>1 DEF SignOK
  <2>. QED
    BY <1>2, <1>3, <1>9, <2>2, NextStageKeepsInv DEF HttpInv, HttpShape, GetList
<1>10. CASE FormOf(request[c].accept) # "token"
  <2>. PICK value : value = Value(FormOf(request[c].accept), Row(l))
    OBVIOUS
  <2>1. Respond(c, 200, value)
    BY <1>3, <1>10
  <2>2. TrueValue(c, value)'
    BY <1>2, <1>5, <1>8 DEF TrueValue
  <2>. QED
    BY <1>1, <1>2, <2>1, <2>2, RespondKeepsInv
<1>. QED
  BY <1>9, <1>10

LEMMA SignTokenKeepsInv ==
  ASSUME HttpInv, NEW c \in Clients, SignToken(c)
  PROVE  HttpInv'
<1>1. StoreGrows /\ KnownGrows
  BY SameStoreGrows, SameKnownGrows DEF HttpInv, SignToken
<1>2. stage[c] = "sign" /\ SignOK(c)
  BY DEF HttpInv, Exchange, SignToken
<1>3. PICK l \in DOMAIN lists : \E bits \in SUBSET lists[l].revoked :
             Read(c, l, bits) /\ loaded[c] = RowWith(l, bits)
  BY <1>2 DEF SignOK
<1>4. PICK bits \in SUBSET lists[l].revoked :
             Read(c, l, bits) /\ loaded[c] = RowWith(l, bits)
  BY <1>3
<1>5. request'[c] = request[c] /\ since'[c] = since[c]
  BY DEF SignToken, Respond
<1>6. /\ l \in DOMAIN lists' /\ bits \in SUBSET lists'[l].revoked
      /\ Read(c, l, bits)' /\ loaded[c] = RowWith(l, bits)'
  BY <1>1, <1>4, <1>5, ReadStays DEF HttpInv
<1>. QED
  <2>. PICK value : value = Value("token", loaded[c])
    OBVIOUS
  <2>1. TrueValue(c, value)'
    BY <1>2, <1>5, <1>6 DEF TrueValue, SignOK
  <2>. QED
    BY <1>1, <1>2, <2>1, RespondKeepsInv DEF SignToken

LEMMA RevokeKeepsInv ==
  ASSUME HttpInv, NEW c \in Clients, Revoke(c)
  PROVE  HttpInv'
<1>1. PICK l \in Found(request[c]) :
        /\ Store!RevokeEntry(l, request[c].index)
        /\ \/ Respond(c, 200, [form |-> "revoked"])
           \/ Respond(c, 500, Failure)
  BY DEF Revoke
<1>2. /\ StoreGrows /\ l \in DOMAIN lists /\ request[c].index \in Int
      /\ request[c].index \in lists'[l].revoked
  BY <1>1, RevocationGrows DEF HttpInv, Revoke
<1>3. KnownGrows
  BY <1>2, SameKnownGrows DEF Revoke
<1>4. l = request[c].list /\ l \in DOMAIN lists' /\ l \in Found(request[c])'
  <2>1. request'[c] = request[c]
    BY <1>1 DEF Respond
  <2>. QED
    BY <1>1, <1>2, <2>1 DEF Found, StoreGrows
<1>5. <<request[c].list, request[c].index>> \in Revocations'
  BY <1>2, <1>4 DEF Revocations
<1>6. stage[c] = "revoke" /\ request[c].kind = "revoke"
  BY DEF HttpInv, Exchange, Revoke
<1>. QED
  <2>1. TrueValue(c, [form |-> "revoked"])'
    BY <1>1, <1>4, <1>5, <1>6 DEF TrueValue, Respond
  <2>2. stage[c] # "idle"
    BY <1>6
  <2>3. CASE Respond(c, 200, [form |-> "revoked"])
    BY <1>2, <1>3, <2>1, <2>2, <2>3, RespondKeepsInv
  <2>4. CASE Respond(c, 500, Failure)
    BY <1>2, <1>3, <2>2, <2>4, FailureKeepsInv
  <2>. QED
    BY <1>1, <2>3, <2>4

LEMMA HandleKeepsInv ==
  ASSUME HttpInv, NEW c \in Clients, Handle(c)
  PROVE  HttpInv'
<1>1. ASSUME UNCHANGED <<store, known>> PROVE StoreGrows /\ KnownGrows
  BY <1>1, SameStoreGrows, SameKnownGrows DEF HttpInv
<1>2. ASSUME NEW status \in {400, 500}, stage[c] # "idle", UNCHANGED <<store, known>>,
             Respond(c, status, Failure)
      PROVE  HttpInv'
  BY <1>1, <1>2, FailureKeepsInv
<1>3. CASE Decode(c)
  <2>1. CASE Malformed(request[c])
    BY <1>2, <1>3, <2>1 DEF Decode
  <2>2. CASE ~Malformed(request[c])
    <3>1. request[c].kind \in {"getList", "revoke", "health"}
      BY <1>3 DEF HttpInv, Exchange, Decode, RequestOK
    <3>. QED
      BY <1>3, <2>2, <3>1, NextStageKeepsInv DEF Decode, HttpInv, HttpShape
  <2>. QED
    BY <2>1, <2>2
<1>4. CASE Health(c)
  <2>1. request[c].kind = "health"
    BY <1>4 DEF HttpInv, Exchange, Health
  <2>2. TrueValue(c, [form |-> "text"])'
    BY <1>4, <2>1 DEF Health, Respond, TrueValue
  <2>. QED
    BY <1>1, <1>4, <2>2, RespondKeepsInv DEF Health
<1>5. CASE NotFound(c) \/ SignFails(c) \/ DatabaseFails(c)
  BY <1>2, <1>5 DEF NotFound, SignFails, DatabaseFails
<1>6. CASE RevokeBeforeFirst(c)
  <2>1. request[c].kind = "revoke"
    BY <1>6 DEF HttpInv, Exchange, RevokeBeforeFirst
  <2>2. <<request[c].list, request[c].index>> \in Revocations
    BY <1>6, HttpAssumption DEF RevokeBeforeFirst, Found, Revocations, BeforeFirst
  <2>3. /\ Revocations' = Revocations
        /\ Found(request[c])' = Found(request[c])
    BY <1>6 DEF RevokeBeforeFirst, Found, Revocations, store, Respond
  <2>4. TrueValue(c, [form |-> "revoked"])'
    BY <1>6, <2>1, <2>2, <2>3 DEF RevokeBeforeFirst, Respond, TrueValue
  <2>. QED
    BY <1>1, <1>6, <2>4, RespondKeepsInv DEF RevokeBeforeFirst
<1>7. CASE RevokePanic(c)
  BY <1>1, <1>7, IdleKeepsInv DEF RevokePanic
<1>. QED
  BY <1>3, <1>4, <1>5, <1>6, <1>7, GetListKeepsInv, RevokeKeepsInv DEF Handle

-------------------------------------------------------------------------------
(* The answer.                                                             *)

(* What an answer shows of a list.                                         *)
LEMMA ListValueForms ==
  ASSUME NEW accept, NEW row
  PROVE  LET value == Value(FormOf(accept), row) IN
         /\ value.form = FormOf(accept)
         /\ value.list.bits = row.bits
BY DEF Value, FormOf, EncodedList

(* A 200 answer to a GET, if it has a body, shows bits that were read.     *)
LEMMA AnswerShowsRead ==
  ASSUME HttpInv, NEW c \in Clients, stage[c] = "answer", answer[c].status = 200,
         request[c].kind = "getList"
  PROVE  \E l \in DOMAIN lists : \E bits \in SUBSET lists[l].revoked :
           /\ Read(c, l, bits)
           /\ LET value == Value(FormOf(request[c].accept), RowWith(l, bits)) IN
              /\ answer[c].body = Written(request[c].accept, value)
              /\ value.form = FormOf(request[c].accept)
              /\ "list" \in DOMAIN answer[c].body =>
                   answer[c].body = value /\ answer[c].body.list.bits = bits
<1>1. AnswerOK(c)
  BY DEF HttpInv, Exchange
<1>2. PICK l \in DOMAIN lists : \E bits \in SUBSET lists[l].revoked :
        /\ Read(c, l, bits)
        /\ answer[c].body = Written(request[c].accept,
                              Value(FormOf(request[c].accept), RowWith(l, bits)))
  BY <1>1 DEF AnswerOK
<1>3. PICK bits \in SUBSET lists[l].revoked :
        /\ Read(c, l, bits)
        /\ answer[c].body = Written(request[c].accept,
                              Value(FormOf(request[c].accept), RowWith(l, bits)))
  BY <1>2
<1>. DEFINE value == Value(FormOf(request[c].accept), RowWith(l, bits))
<1>4. value.form = FormOf(request[c].accept) /\ value.list.bits = bits
  <2>1. RowWith(l, bits).bits = bits
    BY DEF RowWith, Row
  <2>. QED
    BY <2>1, ListValueForms
<1>5. "list" \notin DOMAIN NoBody
  BY DEF NoBody
<1>6. answer[c].body \in {NoBody, value}
  <2>. HIDE DEF value
  <2>. QED
    BY <1>3 DEF Written, value
<1>. HIDE DEF value
<1>7. "list" \in DOMAIN answer[c].body =>
        answer[c].body = value /\ answer[c].body.list.bits = bits
  BY <1>4, <1>5, <1>6
<1>. QED
  BY <1>3, <1>4, <1>7 DEF value

LEMMA LearnedIsTrue ==
  ASSUME HttpInv, NEW c \in Clients, stage[c] = "answer"
  PROVE  Learned(request[c], answer[c]) \subseteq Revocations
<1>1. AnswerOK(c) /\ RequestOK(request[c])
  BY DEF HttpInv, Exchange
<1>2. CASE answer[c].status # 200
  BY <1>2 DEF Learned
<1>3. CASE answer[c].status = 200 /\ request[c].kind = "revoke"
  BY <1>1, <1>3 DEF AnswerOK, Learned
<1>4. CASE answer[c].status = 200 /\ request[c].kind = "health"
  <2>1. "list" \notin DOMAIN answer[c].body
    BY <1>1, <1>4 DEF AnswerOK, Written, NoBody
  <2>. QED
    BY <1>4, <2>1 DEF Learned
<1>5. CASE answer[c].status = 200 /\ request[c].kind = "getList"
  <2>1. PICK l \in DOMAIN lists : \E bits \in SUBSET lists[l].revoked :
          /\ Read(c, l, bits)
          /\ "list" \in DOMAIN answer[c].body => answer[c].body.list.bits = bits
    BY <1>5, AnswerShowsRead
  <2>2. PICK bits \in SUBSET lists[l].revoked :
          /\ Read(c, l, bits)
          /\ "list" \in DOMAIN answer[c].body => answer[c].body.list.bits = bits
    BY <2>1
  <2>3. request[c].list = l /\ bits \subseteq 0 .. Size - 1
    BY <2>2 DEF Read, Found, HttpInv, ListsOK, EntryNumbers
  <2>4. {<<l, i>> : i \in bits} \subseteq Revocations
    BY <2>2, <2>3, HttpAssumption DEF Revocations
  <2>5. Learned(request[c], answer[c]) \subseteq {<<l, i>> : i \in bits}
    <3>1. CASE "list" \in DOMAIN answer[c].body
      <4>1. answer[c].body.list.bits = bits
        BY <2>2, <3>1
      <4>2. Learned(request[c], answer[c]) =
              {<<request[c].list, i>> : i \in answer[c].body.list.bits}
        BY <1>5, <3>1 DEF Learned
      <4>. QED
        BY <2>3, <4>1, <4>2
    <3>2. CASE "list" \notin DOMAIN answer[c].body
      BY <1>5, <3>2 DEF Learned
    <3>. QED
      BY <3>1, <3>2
  <2>. QED
    BY <2>4, <2>5
<1>. QED
  BY <1>1, <1>2, <1>3, <1>4, <1>5 DEF RequestOK

LEMMA ReceiveKeepsInv ==
  ASSUME HttpInv, NEW c \in Clients, Receive(c)
  PROVE  HttpInv'
<1>1. StoreGrows
  BY SameStoreGrows DEF HttpInv, Receive
<1>2. Learned(request[c], answer[c]) \subseteq Revocations
  BY LearnedIsTrue DEF Receive
<1>3. Revocations \subseteq Revocations'
  BY <1>1, RevocationsStay DEF HttpInv
<1>4. KnownGrows
  BY <1>2, <1>3 DEF KnownGrows, HttpInv, Receive
<1>. QED
  BY <1>1, <1>4, IdleKeepsInv DEF Receive

LEMMA DisconnectKeepsInv ==
  ASSUME HttpInv, NEW c \in Clients, Disconnect(c)
  PROVE  HttpInv'
<1>1. StoreGrows /\ KnownGrows
  BY SameStoreGrows, SameKnownGrows DEF HttpInv, Disconnect
<1>. QED
  BY <1>1, IdleKeepsInv DEF Disconnect

-------------------------------------------------------------------------------
(* The invariant.                                                          *)

LEMMA HttpInitInv == HttpInit => HttpInv
BY DEF HttpInit, Store!Init, ExchangeInit, HttpInv, ListsOK, HttpShape, Exchange,
       Revocations

LEMMA AllocateKeepsInv ==
  ASSUME HttpInv, NEW g \in Groups, Allocate(g)
  PROVE  HttpInv'
<1>1. StoreGrows
  BY AllocationGrows DEF HttpInv, Allocate
<1>2. KnownGrows
  BY <1>1, SameKnownGrows DEF Allocate
<1>. QED
  BY <1>1, <1>2, NoExchange DEF Allocate

LEMMA HttpStepKeepsInv == HttpInv /\ [HttpNext]_httpVars => HttpInv'
<1>. SUFFICES ASSUME HttpInv, [HttpNext]_httpVars PROVE HttpInv'
  OBVIOUS
<1>1. ASSUME UNCHANGED <<store, known>> PROVE StoreGrows /\ KnownGrows
  BY <1>1, SameStoreGrows, SameKnownGrows DEF HttpInv
<1>2. ASSUME NEW c \in Clients, Send(c) PROVE HttpInv'
  BY <1>2, HttpAssumption, BeginKeepsInv DEF Send, RequestOK
<1>3. ASSUME NEW c \in Clients, HttpStep(c) PROVE HttpInv'
  BY <1>3, HandleKeepsInv, SignTokenKeepsInv, ReceiveKeepsInv, DisconnectKeepsInv
     DEF HttpStep
<1>4. CASE Crash
  BY <1>1, <1>4, DroppedKeepsInv DEF Crash
<1>5. CASE UNCHANGED httpVars
  BY <1>1, <1>5, NoExchange DEF httpVars
<1>. QED
  BY <1>2, <1>3, <1>4, <1>5, AllocateKeepsInv DEF HttpNext

THEOREM HttpInvariant == HttpSpec => []HttpInv
BY HttpInitInv, HttpStepKeepsInv, PTL DEF HttpSpec

-------------------------------------------------------------------------------
(* What clients may rely on.                                               *)

LEMMA HttpInvTypes == HttpInv => HttpTypeOK
<1>. SUFFICES ASSUME HttpInv PROVE HttpTypeOK
  OBVIOUS
<1>1. DOMAIN group = DOMAIN lists
  BY DEF HttpInv, ListsOK
<1>2. ASSUME NEW c \in Clients, stage[c] = "sign" PROVE loaded[c].id \in DOMAIN lists
  BY <1>2 DEF HttpInv, Exchange, SignOK, RowWith, Row
<1>3. ASSUME NEW c \in Clients
      PROVE  /\ IF stage[c] = "idle" THEN request[c] = None
                ELSE request[c].kind \in {"getList", "revoke", "health"}
             /\ stage[c] \in {"getList", "revoke", "health"} => request[c].kind = stage[c]
             /\ since[c] \subseteq known
  BY DEF HttpInv, Exchange, RequestOK
<1>4. ASSUME NEW c \in Clients
      PROVE  IF stage[c] = "answer" THEN answer[c].status \in {200, 400, 500}
             ELSE answer[c] = None
  <2>1. IF stage[c] = "answer" THEN AnswerOK(c) ELSE answer[c] = None
    BY DEF HttpInv, Exchange
  <2>. QED
    BY <2>1 DEF AnswerOK
<1>5. stage \in [Clients -> {"idle", "decode", "getList", "revoke", "health",
                            "sign", "answer"}]
  BY DEF HttpInv, HttpShape
<1>. QED
  BY <1>1, <1>2, <1>3, <1>4, <1>5 DEF HttpTypeOK

LEMMA HttpInvAnswers == HttpInv => ListAnswerIsTrue
<1>. SUFFICES ASSUME HttpInv, NEW c \in Clients,
                     stage[c] = "answer", answer[c].status = 200,
                     request[c].kind = "getList", "list" \in DOMAIN answer[c].body
              PROVE  LET l == request[c].list
                         served == {l} \X answer[c].body.list.bits
                     IN /\ group[l].tenant = request[c].tenant
                        /\ since[c] \cap EntriesOf(l) \subseteq served
                        /\ served \subseteq {l} \X lists[l].revoked
  BY DEF ListAnswerIsTrue
<1>1. PICK l \in DOMAIN lists : \E bits \in SUBSET lists[l].revoked :
        Read(c, l, bits) /\ answer[c].body.list.bits = bits
  BY AnswerShowsRead
<1>. QED
  BY <1>1 DEF Read, Found

(* The list a client is sent is one of its path's tenant, shows all that   *)
(* any client had been told when the request was sent, and nothing that is *)
(* not revoked, whatever the token it waited for took.                     *)
THEOREM ListAnswersAreTrue == HttpSpec => []ListAnswerIsTrue
BY HttpInvariant, HttpInvAnswers, PTL

(* The states of an exchange, and what is kept of it in each.              *)
THEOREM HttpTypeInvariant == HttpSpec => []HttpTypeOK
BY HttpInvariant, HttpInvTypes, PTL

(* What the code makes of each of the Accept headers with one exact type.  *)
LEMMA ExactHeaders ==
  /\ \A media \in Media : ContentType(Exactly(media))
       = IF media \in {"statuslist+jwt", "*/*"} THEN "statuslist+jwt"
         ELSE IF media \in {"xml", "gob", "text"} THEN media ELSE "json"
  /\ FormOf(Exactly("statuslist+jwt")) = "token"
  /\ FormOf(Exactly("vc+ld+json")) = "credential"
  /\ FormOf(Exactly("json")) = "technical"
<1>1. \A m, n \in Media : Exactly(m) = Exactly(n) => m = n
  <2>. SUFFICES ASSUME NEW m \in Media, NEW n \in Media, Exactly(m) = Exactly(n)
                PROVE  m = n
    OBVIOUS
  <2>1. Exactly(m)[1].media = Exactly(n)[1].media
    OBVIOUS
  <2>. QED
    BY <2>1 DEF Exactly
<1>2. \A m \in Media : Exactly(m) # <<>> /\ DOMAIN Exactly(m) = {1}
                       /\ Exactly(m)[1].media = m /\ Len(Exactly(m)) = 1
  BY DEF Exactly
<1>3. \A m \in Media :
        AcceptsStatusListJWT(Exactly(m)) <=> m \in {"statuslist+jwt", "*/*"}
  BY <1>1, <1>2 DEF AcceptsStatusListJWT, Media
<1>. QED
  BY <1>1, <1>2, <1>3 DEF ContentType, FormOf, Media

(* Each of the documented representations is written by its encoder.       *)
LEMMA DocumentedWritten ==
  ASSUME NEW media \in {"statuslist+jwt", "vc+ld+json", "json"}, NEW value,
         value.form = FormOf(Exactly(media))
  PROVE  Written(Exactly(media), value) = value
<1>1. ContentType(Exactly(media))
        = IF media = "statuslist+jwt" THEN "statuslist+jwt" ELSE "json"
  BY ExactHeaders DEF Media
<1>2. media = "statuslist+jwt" => value.form = "token"
  BY ExactHeaders
<1>3. Writable(ContentType(Exactly(media)), value)
  BY <1>1, <1>2 DEF Writable
<1>. QED
  BY <1>3 DEF Written

LEMMA HttpInvForms == HttpInv => DocumentedForms
<1>. SUFFICES ASSUME HttpInv, NEW c \in Clients,
                     stage[c] = "answer", answer[c].status = 200,
                     request[c].kind = "getList",
                     NEW media \in {"statuslist+jwt", "vc+ld+json", "json"},
                     request[c].accept = Exactly(media)
              PROVE  /\ answer[c].body.form = FormOf(Exactly(media))
                     /\ answer[c].type = ContentType(Exactly(media))
                     /\ media = "vc+ld+json" =>
                          answer[c].body.type = CredentialType(group[request[c].list].type)
  BY ExactHeaders DEF DocumentedForms, Media
<1>1. PICK l \in DOMAIN lists : \E bits \in SUBSET lists[l].revoked :
        /\ Read(c, l, bits)
        /\ LET value == Value(FormOf(request[c].accept), RowWith(l, bits)) IN
           /\ answer[c].body = Written(request[c].accept, value)
           /\ value.form = FormOf(request[c].accept)
  BY AnswerShowsRead
<1>2. PICK bits \in SUBSET lists[l].revoked :
        /\ Read(c, l, bits)
        /\ LET value == Value(FormOf(request[c].accept), RowWith(l, bits)) IN
           /\ answer[c].body = Written(request[c].accept, value)
           /\ value.form = FormOf(request[c].accept)
  BY <1>1
<1>. DEFINE value == Value(FormOf(request[c].accept), RowWith(l, bits))
<1>3. value.form = FormOf(Exactly(media)) /\ l = request[c].list
  BY <1>2 DEF Read, Found
<1>4. media = "vc+ld+json" => value.type = CredentialType(group[l].type)
  <2>1. RowWith(l, bits).type = group[l].type
    BY DEF RowWith, Row
  <2>. QED
    BY <2>1, ExactHeaders DEF Value
<1>5. answer[c].body = Written(Exactly(media), value)
  BY <1>2
<1>6. answer[c].body = value
  <2>. HIDE DEF value
  <2>. QED
    BY <1>3, <1>5, DocumentedWritten
<1>7. answer[c].type = ContentType(Exactly(media))
  <2>1. AnswerOK(c)
    BY DEF HttpInv, Exchange
  <2>. QED
    BY <2>1 DEF AnswerOK
<1>. HIDE DEF value
<1>. QED
  BY <1>3, <1>4, <1>6, <1>7

(* Who asks for one of the documented media types, and for nothing else,   *)
(* gets that representation in full, whatever was read and signed in the   *)
(* meantime; a token is labelled as one, and the two others as JSON.       *)
THEOREM DocumentedFormsServed == HttpSpec => []DocumentedForms
BY HttpInvariant, HttpInvForms, PTL

LEMMA HttpInvResults == HttpInv => ResultsAreTrue
<1>. SUFFICES ASSUME HttpInv, NEW c \in Clients, stage[c] = "answer",
                     request[c].kind # "health",
                     Decodes(request[c], answer[c])
              PROVE  LET r == request[c] IN
                     /\ r.tenant # Required
                     /\ r.list \in DOMAIN lists /\ group[r.list].tenant = r.tenant
                     /\ r.kind = "revoke" /\ r.index >= 0 =>
                          r.index \in lists[r.list].revoked
  BY DEF ResultsAreTrue, Returned
<1>1. answer[c].status = 200
  BY DEF Decodes, DecodeRevokeResponse, DecodeGetListResponse
<1>2. AnswerOK(c) /\ RequestOK(request[c])
  BY DEF HttpInv, Exchange
<1>3. Found(request[c]) # {}
  BY <1>1, <1>2 DEF AnswerOK, RequestOK, Read
<1>4. request[c].kind = "revoke" /\ request[c].index >= 0 =>
        request[c].index \in lists[request[c].list].revoked
  <2>1. request[c].kind = "revoke" => <<request[c].list, request[c].index>> \in Revocations
    BY <1>1, <1>2 DEF AnswerOK
  <2>. QED
    BY <2>1, HttpAssumption DEF Revocations, BeforeFirst
<1>. QED
  BY <1>3, <1>4, ClientAssumption DEF Found, HttpInv, ListsOK

(* The generated client returns a result only for a list of the tenant of  *)
(* its command, and of a revocation only when the entry is revoked.        *)
THEOREM ClientResultsAreTrue == HttpSpec => []ResultsAreTrue
BY HttpInvariant, HttpInvResults, PTL

===============================================================================
