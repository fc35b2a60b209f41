----------------------- MODULE StatusMessagingInvariant -----------------------
(***************************************************************************)
(* The inductive invariant of StatusMessaging, next to HttpInv: which      *)
(* entries the replies on their way and the credentials have, and what a   *)
(* verification has seen of its list at each of its phases.                *)
(***************************************************************************)
EXTENDS StatusMessaging, StatusHttpInvariant

(* A creation request, sent as one of the attempts of its job.             *)
SentOK(m) ==
  /\ m.job \in Jobs
  /\ m.attempt \in 1 .. attempt[m.job]

(* A reply is to a request that is handled, ...                            *)
AnswerSent(r) == SentOK(r.request) /\ r.request \notin inbox

(* ... and if it is no error it names an entry that was taken for it, in a *)
(* list of the group its job asked for.                                    *)
ReplyOK(r) ==
  /\ AnswerSent(r)
  /\ r = CreateReply(r.request, r.list, r.index)
  /\ r.list \in DOMAIN lists /\ r.index \in lists[r.list].taken
  /\ group[r.list] = GroupOf[r.request.job]

Holders == {j \in Jobs : entry[j] # None}

Errors == {r \in replies : r = ErrorReply(r.request)}

(* The entries that are on their way or were accepted.                     *)
Given == (replies \ Errors) \cup {entry[j] : j \in Holders}

CreationInv ==
  /\ DOMAIN attempt = Jobs /\ DOMAIN entry = Jobs /\ DOMAIN waiting = Jobs
  /\ \A j \in Jobs : attempt[j] \in 0 .. MaxAttempts[j]
  /\ \A m \in inbox : SentOK(m)
  /\ \A r \in replies : AnswerSent(r)
  /\ \A r \in Given : ReplyOK(r)
  /\ \A j \in Holders : entry[j].request.job = j /\ ~waiting[j]
  /\ \A q, r \in Given : q # r => <<q.list, q.index>> # <<r.list, r.index>>

(* A URL is that of a list of this service, or of one published elsewhere. *)
UrlOK(url) ==
  \/ url \in Publishers
  \/ \E l \in DOMAIN lists : url = StatusUrl(group[l].origin, l)

(* An event names such a URL, and an entry that is still revoked if it was *)
(* when the event was sent.                                                *)
TargetOK(v) ==
  /\ UrlOK(TargetUrl(v)) /\ target[v].index \in Int
  /\ target[v].type \in VerifyTypes
  /\ target[v].revoked \in BOOLEAN
  /\ target[v].revoked => <<TargetUrl(v), target[v].index>> \in RevokedEntries

(* The request of a verification is for the list its event names.          *)
ListRequest(v) ==
  LET url == TargetUrl(v) IN
  [kind |-> "getList", tenant |-> url.origin.tenant, list |-> url.path[1],
   index |-> 0, accept |-> VerifyAccept(target[v].type)]

(* What a handler has read, or answers, shows that entry i is revoked.     *)
Shows(c, i) ==
  /\ stage[c] = "sign" => i \in loaded[c].bits
  /\ stage[c] = "answer" /\ answer[c].status = 200 => i \in answer[c].body.list.bits

(* The handler of its request has not missed the entry, if it was revoked. *)
FetchOK(v) ==
  /\ TargetUrl(v) \notin Publishers
  /\ stage[v] # "idle" => request[v] = ListRequest(v)
  /\ target[v].revoked => Shows(v, target[v].index)

(* The list it has fetched shows revoked entries only, and its own if that *)
(* was revoked when the event was sent.                                    *)
FetchedOK(v) ==
  LET bits == fetched[v].body.list.bits IN
  /\ fetched[v].status = 200
  /\ \A i \in bits : <<TargetUrl(v), i>> \in RevokedEntries
  /\ target[v].revoked => target[v].index \in bits

Verification(v) ==
  /\ IF phase[v] = "idle" THEN target[v] = None ELSE TargetOK(v)
  /\ IF phase[v] = "fetch" THEN FetchOK(v) ELSE stage[v] = "idle"
  /\ IF phase[v] \in {"check", "decode", "cache", "reply"} THEN FetchedOK(v)
     ELSE fetched[v] = None
  /\ phase[v] = "reply" => TargetUrl(v) \in DOMAIN cache

VerificationShape ==
  /\ phase \in [Verifiers -> {"idle", "request", "fetch", "check", "decode",
                               "cache", "reply"}]
  /\ DOMAIN target = Verifiers /\ DOMAIN fetched = Verifiers
  /\ DOMAIN elsewhere = Publishers
  /\ \A u \in Publishers : elsewhere[u] \subseteq Nat

MessagingInv ==
  /\ HttpInv
  /\ CreationInv
  /\ VerificationShape
  /\ \A v \in Verifiers : Verification(v)
  /\ VerdictIsTrue

===============================================================================
