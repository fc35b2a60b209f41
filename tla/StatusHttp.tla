------------------------------ MODULE StatusHttp ------------------------------
(***************************************************************************)
(* The HTTP side of the service: the goa handlers (gen/http/status/server),*)
(* their encoder (internal/service/goa.go) and the methods behind them     *)
(* (internal/service/status.go), serving concurrent clients from the       *)
(* store, which is abstracted to StatusRegistry: a transaction of the      *)
(* store is one step, an entry is handed out by somebody else.             *)
(*                                                                         *)
(* An exchange is one request and its answer.  The reading of a list, the  *)
(* signing of a token and the delivery of the answer are separate steps:   *)
(* entries are revoked in between.                                         *)
(***************************************************************************)
EXTENDS Representation, FiniteSets

CONSTANTS
  Clients,       \* slots for exchanges that run at the same time
  Groups,        \* [tenant, type, origin] of the lists that are opened
  HttpRequests,  \* the requests clients send
  Size,          \* number of entries of a list
  ByteWidth,     \* number of entries of a byte
  MaxLists,      \* bound on the number of lists
  MaxExchanges   \* bound on the number of exchanges in one behaviour

(* listId and index are whatever the path segments are.                    *)
ASSUME HttpAssumption ==
  /\ Size \in Nat \ {0} /\ ByteWidth \in Nat \ {0}
  /\ MaxLists \in Nat /\ MaxExchanges \in Nat
  /\ \A r \in HttpRequests :
       /\ r.kind \in {"getList", "revoke", "health"}
       /\ {r.list, r.index} \subseteq Int \cup {None}
       /\ r.accept \in Seq(Part)

VARIABLES
  lists, told, acked,  \* the store, see StatusRegistry
  group,               \* the group of each list, fixed by its INSERT
  stage,               \* where the handler of each exchange is
  request,             \* the request of the exchange
  loaded,              \* the row its handler has read: list and bits
  answer,              \* the answer on its way to the client
  since,               \* history: what was known when the request was sent
  known,               \* history: the revoked entries clients know of
  exchanges            \* number of exchanges so far

store == <<lists, told, acked, group>>
exchange == <<stage, request, loaded, answer, since>>
httpVars == <<store, exchange, known, exchanges>>

Store == INSTANCE StatusRegistry

-------------------------------------------------------------------------------
(* Allocation, as the store does it: the next entry of a list of the       *)
(* group, or the first one of a new list.                                  *)

NextEntry(l) == Cardinality(lists[l].taken)

AllocateEntry(g, l, i) ==
  \/ /\ l \in DOMAIN lists /\ group[l] = g
     /\ i = NextEntry(l)
     /\ Store!GrantEntry(l, i)
     /\ UNCHANGED group
  \/ /\ l = Cardinality(DOMAIN lists) + 1 /\ l <= MaxLists
     /\ i = 0
     /\ Store!OpenList(l, Size)
     /\ group' = [m \in DOMAIN lists' |-> IF m = l THEN g ELSE group[m]]

Allocate(g) ==
  /\ \E l \in 1 .. MaxLists : \E i \in 0 .. Size - 1 : AllocateEntry(g, l, i)
  /\ UNCHANGED <<exchange, known, exchanges>>

-------------------------------------------------------------------------------
(* Steps of an exchange.                                                   *)

Goto(c, s) == stage' = [stage EXCEPT ![c] = s]

Idle(c) ==
  /\ Goto(c, "idle")
  /\ request' = [request EXCEPT ![c] = None]
  /\ loaded' = [loaded EXCEPT ![c] = None]
  /\ answer' = [answer EXCEPT ![c] = None]
  /\ since' = [since EXCEPT ![c] = {}]

(* The status line, the Content-Type and the body that the encoder writes. *)
Respond(c, status, value) ==
  LET accept == request[c].accept IN
  /\ answer' = [answer EXCEPT ![c] =
       [status |-> status, type |-> ContentType(accept),
        body |-> Written(accept, value)]]
  /\ Goto(c, "answer")
  /\ UNCHANGED <<request, loaded, since>>

Failure == [form |-> "error"]

Begin(c, r) ==
  /\ stage[c] = "idle"
  /\ request' = [request EXCEPT ![c] = r]
  /\ since' = [since EXCEPT ![c] = known]
  /\ Goto(c, "decode")
  /\ UNCHANGED <<store, loaded, answer, known>>

Send(c) ==
  /\ exchanges < MaxExchanges
  /\ exchanges' = exchanges + 1
  /\ \E r \in HttpRequests : Begin(c, r)

(* ParseInt fails on a path segment that is no integer.                    *)
Malformed(r) ==
  CASE r.kind = "getList" -> r.list = None
    [] r.kind = "revoke" -> None \in {r.list, r.index}
    [] r.kind = "health" -> FALSE

Decode(c) ==
  /\ stage[c] = "decode"
  /\ IF Malformed(request[c]) THEN Respond(c, 400, Failure)
     ELSE Goto(c, request[c].kind) /\ UNCHANGED <<request, loaded, answer, since>>
  /\ UNCHANGED <<store, known, exchanges>>

Health(c) ==
  /\ stage[c] = "health"
  /\ Respond(c, 200, [form |-> "text"])
  /\ UNCHANGED <<store, known, exchanges>>

(* The WHERE clause of both the SELECT and the UPDATE.                     *)
Found(r) == {l \in DOMAIN lists : l = r.list /\ group[l].tenant = r.tenant}

(* The value GetList returns for a row, once its token is signed.          *)
Value(form, row) ==
  LET list == EncodedList(row.bits) IN
  CASE form = "token" ->
         [form |-> form, list |-> list, subject |-> TokenSubject(row.origin, row.id)]
    [] form = "credential" ->
         [form |-> form, list |-> list, type |-> CredentialType(row.type),
          id |-> CredentialId(row.origin, row.tenant, row.id)]
    [] form = "technical" -> [form |-> form, list |-> list, id |-> row.id]

Row(l) == [id |-> l, bits |-> lists[l].revoked, tenant |-> group[l].tenant,
           type |-> group[l].type, origin |-> group[l].origin]

(* Fault: an UPDATE of no row is no error.                                 *)
NothingUpdated(c) ==
  /\ stage[c] \in {"getList", "revoke"}
  /\ Found(request[c]) = {}
  /\ Respond(c, 200, [form |-> "revoked"])
  /\ UNCHANGED <<store, known, exchanges>>

NotFound(c) ==
  /\ stage[c] \in {"getList", "revoke"}
  /\ Found(request[c]) = {}
  /\ Respond(c, 500, Failure)
  /\ UNCHANGED <<store, known, exchanges>>

(* GetStatusListWithSigner: one SELECT.                                    *)
GetList(c) ==
  /\ stage[c] = "getList"
  /\ \E l \in Found(request[c]) :
       LET form == FormOf(request[c].accept) IN
       IF form = "token"
       THEN /\ loaded' = [loaded EXCEPT ![c] = Row(l)]
            /\ Goto(c, "sign")
            /\ UNCHANGED <<request, answer, since>>
       ELSE Respond(c, 200, Value(form, Row(l)))
  /\ UNCHANGED <<store, known, exchanges>>

(* The signer service answers the request sent over NATS with a token ...  *)
SignToken(c) ==
  /\ stage[c] = "sign"
  /\ Respond(c, 200, Value("token", loaded[c]))
  /\ UNCHANGED <<store, known, exchanges>>

(* Fault: no timeout is configured for the request.                        *)
SignNeverFails(c) == FALSE

(* ... or with an error, or not before the timeout.                        *)
SignFails(c) ==
  /\ stage[c] = "sign"
  /\ Respond(c, 500, Failure)
  /\ UNCHANGED <<store, known, exchanges>>

(* RevokeCredentialInSpecifiedList commits; it may still return an error.  *)
Revoke(c) ==
  /\ stage[c] = "revoke"
  /\ \E l \in Found(request[c]) :
       /\ Store!RevokeEntry(l, request[c].index)
       /\ \/ /\ <<l, request[c].index>> \in acked'
             /\ Respond(c, 200, [form |-> "revoked"])
          \/ acked' = acked /\ Respond(c, 500, Failure)
  /\ UNCHANGED <<group, known, exchanges>>

(* Truncated division takes these to byte 0, and no bit is set there.      *)
RevokeBeforeFirst(c) ==
  /\ stage[c] = "revoke"
  /\ Found(request[c]) # {}
  /\ request[c].index \in (1 - ByteWidth) .. -1
  /\ Respond(c, 200, [form |-> "revoked"])
  /\ UNCHANGED <<store, known, exchanges>>

(* Any other index panics: net/http recovers and closes the connection.    *)
RevokePanic(c) ==
  /\ stage[c] = "revoke"
  /\ \E l \in Found(request[c]) : request[c].index \notin (1 - ByteWidth) .. Size - 1
  /\ Idle(c)
  /\ UNCHANGED <<store, known, exchanges>>

(* Fault: the service does not look at the error of the store.             *)
DatabaseErrorIgnored(c) ==
  /\ stage[c] \in {"getList", "revoke", "health"}
  /\ Respond(c, IF stage[c] = "revoke" THEN 200 ELSE 500, Failure)
  /\ UNCHANGED <<store, known, exchanges>>

DatabaseFails(c) ==
  /\ stage[c] \in {"getList", "revoke", "health"}
  /\ Respond(c, 500, Failure)
  /\ UNCHANGED <<store, known, exchanges>>

-------------------------------------------------------------------------------
(* The client learns from a 200 answer that an entry is revoked.           *)
Learned(r, a) ==
  IF a.status # 200 THEN {}
  ELSE IF r.kind = "revoke" THEN {<<r.list, r.index>>}
  ELSE IF "list" \in DOMAIN a.body THEN {<<r.list, i>> : i \in a.body.list.bits}
  ELSE {}

Receive(c) ==
  /\ stage[c] = "answer"
  /\ known' = known \cup Learned(request[c], answer[c])
  /\ Idle(c)
  /\ UNCHANGED <<store, exchanges>>

(* The connection breaks, or the client gives up.                          *)
Disconnect(c) ==
  /\ stage[c] # "idle"
  /\ Idle(c)
  /\ UNCHANGED <<store, known, exchanges>>

(* Fault: answers outlive the process.                                     *)
DroppedHandlers ==
  /\ stage' = [c \in Clients |-> "idle"]
  /\ request' = [c \in Clients |-> None]
  /\ loaded' = [c \in Clients |-> None]
  /\ since' = [c \in Clients |-> {}]
  /\ UNCHANGED answer

(* The process dies, and a new one is started: only the store is left.     *)
Dropped ==
  /\ stage' = [c \in Clients |-> "idle"]
  /\ request' = [c \in Clients |-> None]
  /\ loaded' = [c \in Clients |-> None]
  /\ answer' = [c \in Clients |-> None]
  /\ since' = [c \in Clients |-> {}]

Crash == Dropped /\ UNCHANGED <<store, known, exchanges>>

-------------------------------------------------------------------------------
ExchangeInit ==
  /\ stage = [c \in Clients |-> "idle"]
  /\ request = [c \in Clients |-> None]
  /\ loaded = [c \in Clients |-> None]
  /\ answer = [c \in Clients |-> None]
  /\ since = [c \in Clients |-> {}]
  /\ known = {}
  /\ exchanges = 0

HttpInit == Store!Init /\ group = [l \in {} |-> None] /\ ExchangeInit

Handle(c) ==
  \/ Decode(c) \/ Health(c) \/ NotFound(c) \/ GetList(c) \/ SignFails(c)
  \/ Revoke(c) \/ RevokeBeforeFirst(c) \/ RevokePanic(c) \/ DatabaseFails(c)

HttpStep(c) == Handle(c) \/ SignToken(c) \/ Receive(c) \/ Disconnect(c)

HttpNext ==
  \/ \E g \in Groups : Allocate(g)
  \/ \E c \in Clients : Send(c) \/ HttpStep(c)
  \/ Crash

HttpSpec == HttpInit /\ [][HttpNext]_httpVars

(* A handler runs on, its request to the signer has a timeout, and an      *)
(* answer arrives unless its connection breaks.  The signer may be silent. *)
HttpFairness ==
  \A c \in Clients :
    /\ WF_httpVars(Handle(c))
    /\ WF_httpVars(Receive(c))

FairHttpSpec == HttpSpec /\ HttpFairness

-------------------------------------------------------------------------------
(* What clients may rely on.                                               *)

HttpTypeOK ==
  /\ stage \in [Clients -> {"idle", "decode", "getList", "revoke", "health",
                            "sign", "answer"}]
  /\ \A c \in Clients :
       /\ IF stage[c] = "idle" THEN request[c] = None
          ELSE request[c].kind \in {"getList", "revoke", "health"}
       /\ stage[c] \in {"getList", "revoke", "health"} => request[c].kind = stage[c]
       /\ stage[c] = "sign" => loaded[c].id \in DOMAIN lists
       /\ IF stage[c] = "answer" THEN answer[c].status \in {200, 400, 500}
          ELSE answer[c] = None
       /\ since[c] \subseteq known
  /\ DOMAIN group = DOMAIN lists

EntriesOf(l) == {l} \X (0 .. lists[l].size - 1)

(* The list a client is sent is one of its path's tenant.  However long it *)
(* waited for a token, it shows every entry that any client had been told  *)
(* to be revoked, by a revocation or in another list, when this request    *)
(* was sent; and nothing that is not revoked.                              *)
ListAnswerIsTrue ==
  \A c \in Clients :
    stage[c] = "answer" /\ answer[c].status = 200 /\ request[c].kind = "getList"
      /\ "list" \in DOMAIN answer[c].body =>
    LET l == request[c].list
        served == {l} \X answer[c].body.list.bits
    IN /\ group[l].tenant = request[c].tenant
       /\ since[c] \cap EntriesOf(l) \subseteq served
       /\ served \subseteq {l} \X lists[l].revoked

(* A GET that asks for exactly one of the documented media types gets that *)
(* representation, in full, and the credential of the type the list was    *)
(* created with.  Only a token comes under the media type that was asked   *)
(* for: a credential is labelled as JSON, where README.md:321 promises a   *)
(* matching Content-Type.                                                  *)
DocumentedForms ==
  \A c \in Clients :
    LET r == request[c]
        a == answer[c]
    IN stage[c] = "answer" /\ a.status = 200 /\ r.kind = "getList" =>
       /\ r.accept = Exactly("statuslist+jwt")
          => a.body.form = "token" /\ a.type = "statuslist+jwt"
       /\ r.accept = Exactly("vc+ld+json")
          => /\ a.body.form = "credential" /\ a.type = "json"
             /\ a.body.type = CredentialType(group[r.list].type)
       /\ r.accept = Exactly("json")
          => a.body.form = "technical" /\ a.type = "json"

(* Every 200 answer has a body: a client that accepts anything gets a      *)
(* Status List JWT (the comment in acceptsStatusListJWT).                  *)
NoEmptySuccess ==
  \A c \in Clients :
    stage[c] = "answer" /\ answer[c].status = 200 => answer[c].body # NoBody

(* Every request is answered or its connection ends.                       *)
EveryExchangeEnds == \A c \in Clients : stage[c] # "idle" ~> stage[c] = "idle"

===============================================================================
