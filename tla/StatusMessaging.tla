---------------------------- MODULE StatusMessaging ----------------------------
(***************************************************************************)
(* The NATS side of the service, internal/api/messaging.go: the handlers   *)
(* of creation and verification events, run next to the HTTP handlers of   *)
(* StatusHttp in one process.                                              *)
(*                                                                         *)
(* A job is a credential its issuer needs an entry for.  It sends a        *)
(* request, waits for the reply for as long as it likes, and asks again:   *)
(* requests and replies are lost or late, a reply may be an error, and a   *)
(* late one is discarded by the NATS client.  Without a queue group each   *)
(* replica gets a copy of the request.  A verification is one event: the   *)
(* list is fetched over HTTP, from this service or from a publisher        *)
(* elsewhere, checked by the signer, decoded, cached, and the bit of the   *)
(* entry is replied.                                                       *)
(***************************************************************************)
EXTENDS StatusHttp

CONSTANTS
  Jobs,         \* the credentials that need an entry
  GroupOf,      \* the tenant, type and origin each asks for
  MaxAttempts,  \* bound on the requests of each job
  Subscribers,  \* the replicas that get a request; one with a queue group
  Verifiers,    \* clients that are handlers of verification events
  VerifyTypes,  \* the types verification events carry
  Publishers,   \* the URLs of lists published elsewhere
  Indexes,      \* the indexes of credentials that name them
  Published     \* what each serves: [form, codec, type], None for no type

Urls == Publishers \cup [origin : {g.origin : g \in Groups}, path : Seq(Nat)]

(* No value is not an entry, an event or a verdict.                        *)
ASSUME MessagingAssumption ==
  /\ Verifiers \subseteq Clients
  /\ GroupOf \in [Jobs -> Groups]
  /\ MaxAttempts \in [Jobs -> Nat]
  /\ Indexes \subseteq Int
  /\ \A u \in Publishers : \A g \in Groups : u.origin # g.origin
  /\ None \notin Urls \X Int
  /\ None \notin [entry : Urls \X Int, revoked : BOOLEAN]
  /\ None \notin [url : Urls, index : Int, revoked : BOOLEAN, since : BOOLEAN]

VARIABLES
  attempt,    \* number of requests each job has sent
  waiting,    \* whether each job waits for the reply to its latest one
  entry,      \* the reply each job has accepted
  inbox,      \* creation requests on their way or being handled
  replies,    \* replies on their way
  elsewhere,  \* the bits published elsewhere that are 1
  phase,      \* where each verification is
  target,     \* its event: url, index and type, and the status it had then
  fetched,    \* the response it has fetched
  cacheTable, \* whether table status_list_cache exists
  cache,      \* its rows: the bits cached for a URL
  verdict     \* the latest reply of a verification

creation == <<attempt, waiting, entry, inbox, replies>>
verification == <<elsewhere, phase, target, fetched, cacheTable, cache, verdict>>
vars == <<httpVars, creation, verification>>

-------------------------------------------------------------------------------
(* Creation.                                                               *)

RequestEntry(j) ==
  /\ entry[j] = None /\ attempt[j] < MaxAttempts[j]
  /\ attempt' = [attempt EXCEPT ![j] = @ + 1]
  /\ waiting' = [waiting EXCEPT ![j] = TRUE]
  /\ inbox' = inbox \cup {[job |-> j, attempt |-> attempt'[j], copy |-> k] :
                            k \in Subscribers}
  /\ UNCHANGED <<httpVars, entry, replies, verification>>

(* Fault: the index is not copied into the reply.                          *)
ReplyWithoutIndex(m, l, i) ==
  LET g == GroupOf[m.job] IN
  [request |-> m, error |-> FALSE, list |-> l, index |-> 0,
   type |-> g.type, url |-> StatusUrl(g.origin, l)]

CreateReply(m, l, i) ==
  LET g == GroupOf[m.job] IN
  [request |-> m, error |-> FALSE, list |-> l, index |-> i,
   type |-> g.type, url |-> StatusUrl(g.origin, l)]

(* What the reply does not set is zero, or empty.                          *)
ErrorReply(m) ==
  [request |-> m, error |-> TRUE, list |-> 0, index |-> 0,
   type |-> None, url |-> None]

(* Nobody but its job repeats a request.                                   *)
Handled(m) ==
  /\ inbox' = inbox \ {m}
  /\ UNCHANGED <<exchange, known, exchanges, attempt, waiting, entry, verification>>

(* The store allocates.  Its caller is told the entry and replies it, or   *)
(* gets an error although the COMMIT took effect and replies that ...      *)
HandleCreate(m) ==
  /\ \E l \in 1 .. MaxLists : \E i \in 0 .. Size - 1 :
       /\ AllocateEntry(GroupOf[m.job], l, i)
       /\ replies' = replies \cup
            {IF told' # told THEN CreateReply(m, l, i) ELSE ErrorReply(m)}
  /\ Handled(m)

(* ... as it does when the transaction fails.                              *)
HandleCreateFails(m) ==
  /\ replies' = replies \cup {ErrorReply(m)}
  /\ UNCHANGED store
  /\ Handled(m)

(* The event cannot be parsed, or the message is lost: no reply.           *)
LoseRequest(m) == UNCHANGED <<store, replies>> /\ Handled(m)

(* Only the first reply to the latest request of a job is waited for, and  *)
(* after an error the job may ask again.  A reply that is never received   *)
(* is lost.                                                                *)
Awaited(r) ==
  waiting[r.request.job] /\ r.request.attempt = attempt[r.request.job]

ReceiveReply(r) ==
  LET j == r.request.job IN
  /\ replies' = replies \ {r}
  /\ waiting' = [waiting EXCEPT ![j] = @ /\ ~Awaited(r)]
  /\ entry' = IF Awaited(r) /\ ~r.error THEN [entry EXCEPT ![j] = r] ELSE entry
  /\ UNCHANGED <<httpVars, attempt, inbox, verification>>

Create ==
  \/ \E j \in Jobs : RequestEntry(j)
  \/ \E m \in inbox : HandleCreate(m) \/ HandleCreateFails(m) \/ LoseRequest(m)
  \/ \E r \in replies : ReceiveReply(r)

-------------------------------------------------------------------------------
(* Verification.                                                           *)

RevokedEntries ==
  (UNION {{<<StatusUrl(group[l].origin, l), i>> : i \in lists[l].revoked} :
            l \in DOMAIN lists})
  \cup (UNION {{<<u, i>> : i \in elsewhere[u]} : u \in Publishers})

Publish(u, i) ==
  /\ elsewhere' = [elsewhere EXCEPT ![u] = @ \cup {i}]
  /\ elsewhere' # elsewhere
  /\ UNCHANGED <<httpVars, creation, phase, target, fetched, cacheTable, cache,
                 verdict>>

(* The credential's status names the URL of its list and its index; the    *)
(* event carries them, and a type.                                         *)
VerifyEvent(v, url, i, type) ==
  /\ phase[v] = "idle"
  /\ target' = [target EXCEPT ![v] =
       [url |-> url, index |-> i, type |-> type,
        revoked |-> <<url, i>> \in RevokedEntries]]
  /\ phase' = [phase EXCEPT ![v] = "request"]
  /\ UNCHANGED <<store, exchange, known, creation, elsewhere, fetched,
                 cacheTable, cache, verdict>>

Entries ==
  {<<entry[j].url, entry[j].index>> : j \in {k \in Jobs : entry[k] # None}}

RequestVerify(v) ==
  /\ exchanges < MaxExchanges
  /\ exchanges' = exchanges + 1
  /\ \E e \in Entries \cup Publishers \X Indexes, type \in VerifyTypes :
       VerifyEvent(v, e[1], e[2], type)

TargetUrl(v) == target[v].url

(* http.DefaultClient.Do: the URL leads to the handler of GetList, for the *)
(* tenant that its origin names, ...                                       *)
Fetch(v) ==
  LET url == TargetUrl(v) IN
  /\ phase[v] = "request"
  /\ url \notin Publishers /\ Routed(url)
  /\ Begin(v, [kind |-> "getList", tenant |-> url.origin.tenant,
               list |-> url.path[1], index |-> 0,
               accept |-> VerifyAccept(target[v].type)])
  /\ phase' = [phase EXCEPT ![v] = "fetch"]
  /\ UNCHANGED <<exchanges, creation, elsewhere, target, fetched, cacheTable,
                 cache, verdict>>

ReadBody(v) ==
  /\ phase[v] = "fetch" /\ stage[v] = "answer" /\ answer[v].status = 200
  /\ fetched' = [fetched EXCEPT ![v] = answer[v]]
  /\ Idle(v)
  /\ phase' = [phase EXCEPT ![v] = "check"]
  /\ UNCHANGED <<store, known, exchanges, creation, elsewhere, target, cacheTable,
                 cache, verdict>>

(* ... or to a publisher, who need not answer.                             *)
FetchElsewhere(v) ==
  LET url == TargetUrl(v) IN
  /\ phase[v] = "request" /\ url \in Publishers
  /\ fetched' = [fetched EXCEPT ![v] =
       [status |-> 200, type |-> Published[url].type,
        body |-> [form |-> Published[url].form,
                  list |-> [codec |-> Published[url].codec,
                            bits |-> elsewhere[url]]]]]
  /\ phase' = [phase EXCEPT ![v] = "check"]
  /\ UNCHANGED <<httpVars, creation, elsewhere, target, cacheTable, cache, verdict>>

(* POST /credential/verify of the signer: the list is valid.               *)
SignerAccepts(v) ==
  /\ phase[v] = "check"
  /\ phase' = [phase EXCEPT ![v] = "decode"]
  /\ UNCHANGED <<httpVars, creation, elsewhere, target, fetched, cacheTable, cache,
                 verdict>>

(* A response without a Content-Type is read as what was asked for.        *)
Decodable(v) ==
  Readable(fetched[v].body,
           IF fetched[v].type = None THEN VerifyAccept(target[v].type)[1].media
           ELSE fetched[v].type)

(* CacheList: CREATE TABLE IF NOT EXISTS, then an upsert, each committed   *)
(* on its own.                                                             *)
CreateCacheTable(v) ==
  /\ phase[v] = "decode" /\ Decodable(v)
  /\ cacheTable' = TRUE
  /\ phase' = [phase EXCEPT ![v] = "cache"]
  /\ UNCHANGED <<httpVars, creation, elsewhere, target, fetched, cache, verdict>>

CacheList(v) ==
  /\ phase[v] = "cache" /\ cacheTable
  /\ cache' = [u \in DOMAIN cache \cup {TargetUrl(v)} |->
       IF u = TargetUrl(v) THEN fetched[v].body.list.bits ELSE cache[u]]
  /\ phase' = [phase EXCEPT ![v] = "reply"]
  /\ UNCHANGED <<httpVars, creation, elsewhere, target, fetched, cacheTable, verdict>>

(* Fault: the bit is looked up in the row that was just cached.            *)
CachedBit(v) == target[v].index \in cache[TargetUrl(v)]

Bit(v) == target[v].index \in fetched[v].body.list.bits

Verdict(v) ==
  [url |-> TargetUrl(v), index |-> target[v].index, revoked |-> Bit(v),
   since |-> target[v].revoked]

End(v) ==
  /\ phase' = [phase EXCEPT ![v] = "idle"]
  /\ target' = [target EXCEPT ![v] = None]
  /\ fetched' = [fetched EXCEPT ![v] = None]

ReplyVerify(v) ==
  /\ phase[v] = "reply"
  /\ target[v].index \in 0 .. Size - 1
  /\ verdict' = Verdict(v)
  /\ known' = IF Bit(v) /\ TargetUrl(v) \notin Publishers
              THEN known \cup {<<TargetUrl(v).path[1], target[v].index>>} ELSE known
  /\ End(v)
  /\ UNCHANGED <<store, exchange, exchanges, creation, elsewhere, cacheTable, cache>>

(* Truncated division takes these to byte 0, and no bit is read there.     *)
ReplyBeforeFirst(v) ==
  /\ phase[v] = "reply"
  /\ target[v].index \in (1 - ByteWidth) .. -1
  /\ verdict' = [Verdict(v) EXCEPT !.revoked = FALSE]
  /\ End(v)
  /\ UNCHANGED <<httpVars, creation, elsewhere, cacheTable, cache>>

Unreadable(v) == phase[v] = "decode" /\ ~Decodable(v)

(* The list cannot be had: the path is not found, the response is no 200,  *)
(* or the connection is gone, or its codec is not the one its media type   *)
(* is read with.                                                           *)
Rejected(v) ==
  \/ /\ phase[v] = "request"
     /\ TargetUrl(v) \notin Publishers /\ ~Routed(TargetUrl(v))
  \/ /\ phase[v] = "fetch"
     /\ \/ stage[v] = "idle"
        \/ stage[v] = "answer" /\ answer[v].status # 200
  \/ Unreadable(v)

(* The handler returns an error and there is no reply.                     *)
NoVerdict(v) ==
  /\ End(v)
  /\ Idle(v)
  /\ UNCHANGED <<store, known, exchanges, creation, elsewhere, cacheTable, cache,
                 verdict>>

RejectList(v) == Rejected(v) /\ NoVerdict(v)

(* A connection breaks, the signer finds the list invalid, or a statement  *)
(* fails, as the second of two concurrent CREATE TABLEs may.               *)
VerifyFails(v) == phase[v] # "idle" /\ NoVerdict(v)

(* A panic of a NATS handler, which nothing under src/ recovers, or a      *)
(* crash: the process dies, and all its handlers with it.                  *)
ProcessDies ==
  /\ Dropped
  /\ phase' = [v \in Verifiers |-> "idle"]
  /\ target' = [v \in Verifiers |-> None]
  /\ fetched' = [v \in Verifiers |-> None]
  /\ UNCHANGED <<store, known, exchanges, creation, elsewhere, cacheTable, cache,
                 verdict>>

VerifyPanic(v) ==
  /\ phase[v] = "reply"
  /\ target[v].index \notin (1 - ByteWidth) .. Size - 1
  /\ ProcessDies

(* The steps the handler itself takes.                                     *)
HandleVerify(v) ==
  \/ Fetch(v) \/ ReadBody(v) \/ RejectList(v) \/ CreateCacheTable(v)
  \/ CacheList(v) \/ ReplyVerify(v) \/ ReplyBeforeFirst(v) \/ VerifyPanic(v)

Verify(v) ==
  \/ RequestVerify(v) \/ FetchElsewhere(v) \/ SignerAccepts(v)
  \/ HandleVerify(v) \/ VerifyFails(v)

-------------------------------------------------------------------------------
VerificationInit ==
  /\ elsewhere = [u \in Publishers |-> {}]
  /\ phase = [v \in Verifiers |-> "idle"]
  /\ target = [v \in Verifiers |-> None]
  /\ fetched = [v \in Verifiers |-> None]
  /\ cacheTable = FALSE
  /\ cache = [u \in {} |-> None]
  /\ verdict = None

CreationInit ==
  /\ attempt = [j \in Jobs |-> 0]
  /\ waiting = [j \in Jobs |-> FALSE]
  /\ entry = [j \in Jobs |-> None]
  /\ inbox = {} /\ replies = {}

Init == HttpInit /\ CreationInit /\ VerificationInit

ServeHttp(c) == Handle(c) /\ UNCHANGED <<creation, verification>>

(* Clients other than verifications act as in StatusHttp.                  *)
Http ==
  \/ \E c \in Clients : ServeHttp(c)
  \/ /\ \/ \E c \in Clients \ Verifiers : Send(c) \/ Receive(c)
        \/ \E c \in Clients : SignToken(c) \/ Disconnect(c)
     /\ UNCHANGED <<creation, verification>>

Next ==
  \/ Http \/ Create
  \/ \E u \in Publishers : Publish(u, 0)
  \/ \E v \in Verifiers : Verify(v)
  \/ ProcessDies

Spec == Init /\ [][Next]_vars

(* The handlers run on, and a request to the signer over NATS times out.   *)
(* http.DefaultClient has no timeout: the verification endpoint of the     *)
(* signer and a publisher elsewhere may stay silent.                       *)
Fairness ==
  /\ \A c \in Clients : WF_vars(ServeHttp(c))
  /\ \A v \in Verifiers : WF_vars(HandleVerify(v))

FairSpec == Spec /\ Fairness

-------------------------------------------------------------------------------
(* What issuers and verifiers may rely on.                                 *)

MessagingTypeOK ==
  /\ HttpTypeOK
  /\ \A j \in Jobs : attempt[j] \in 0 .. MaxAttempts[j]
  /\ \A r \in replies : r.request \notin inbox
  /\ phase \in [Verifiers -> {"idle", "request", "fetch", "check", "decode",
                               "cache", "reply"}]
  /\ \A v \in Verifiers :
       /\ IF phase[v] = "idle" THEN target[v] = None
          ELSE target[v].type \in VerifyTypes
       /\ IF phase[v] \in {"check", "decode", "cache", "reply"}
          THEN fetched[v].status = 200 ELSE fetched[v] = None
       /\ phase[v] # "fetch" => stage[v] = "idle"
       /\ phase[v] = "reply" => TargetUrl(v) \in DOMAIN cache

(* However often requests are repeated, handled by several replicas or     *)
(* answered with an error although the entry is taken, and whichever       *)
(* replies are lost or late: no two credentials have the same entry, and   *)
(* the one a credential has is taken for good, in a list of the tenant,    *)
(* type and origin its issuer asked for.                                   *)
HeldEntries ==
  \A j \in Jobs : entry[j] # None =>
    LET e == entry[j] IN
    /\ \A k \in Jobs \ {j} :
         entry[k] # None => <<entry[k].list, entry[k].index>> # <<e.list, e.index>>
    /\ e.list \in DOMAIN lists /\ e.index \in lists[e.list].taken
    /\ group[e.list] = GroupOf[j]

(* A verification says "revoked" only of a revoked entry, and "not         *)
(* revoked" only of an entry that was not when it was requested, whatever  *)
(* the fetches, revocations and other verifications that ran meanwhile.    *)
VerdictIsTrue ==
  verdict # None =>
    IF verdict.revoked THEN <<verdict.url, verdict.index>> \in RevokedEntries
    ELSE ~verdict.since

(* A verification waits for nobody but the signer and a publisher          *)
(* elsewhere: each answer of theirs brings it nearer to its end.           *)
OnlyOthersDelay ==
  \A v \in Verifiers :
    phase[v] # "idle" ~> \/ phase[v] \in {"idle", "check"}
                         \/ /\ phase[v] = "request"
                            /\ TargetUrl(v) \in Publishers

(* The service as its users see it.                                        *)
Held ==
  [j \in Jobs |-> IF entry[j] = None THEN None ELSE <<entry[j].url, entry[j].index>>]

KnownEntries ==
  UNION {{<<StatusUrl(group[l].origin, l), e[2]>> : e \in {k \in known : k[1] = l}} :
           l \in DOMAIN lists}

Asked ==
  [v \in Verifiers |->
     IF phase[v] = "idle" THEN None
     ELSE [entry |-> <<target[v].url, target[v].index>>, revoked |-> target[v].revoked]]

Answered ==
  IF verdict = None THEN None
  ELSE [entry |-> <<verdict.url, verdict.index>>,
        revoked |-> verdict.revoked, since |-> verdict.since]

Promise == INSTANCE StatusPromise WITH
  held <- Held, revoked <- RevokedEntries, known <- KnownEntries,
  asked <- Asked, verdict <- Answered

ImplementsPromise == Promise!Spec

(* Each step is one the promise allows, also from a later state.           *)
KeepsPromise == [][Promise!Next]_(Promise!vars)

(* The decompression matches the representation that was retrieved.        *)
RetrievedListDecodes == \A v \in Verifiers : phase[v] = "decode" => Decodable(v)

(* A fetched list names itself, by the id of a credential or the sub of a  *)
(* token, by the URL that its entries were given.                          *)
ListNamesItsUrl ==
  \A v \in Verifiers : fetched[v] # None /\ TargetUrl(v) \notin Publishers =>
    LET body == fetched[v].body IN
    /\ body.form = "credential" => body.id = TargetUrl(v)
    /\ body.form = "token" => body.subject = TargetUrl(v)

===============================================================================
