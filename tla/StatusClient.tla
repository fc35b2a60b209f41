------------------------------ MODULE StatusClient ------------------------------
(***************************************************************************)
(* The generated client and its command line (gen/http/cli, gen/http/      *)
(* status/client, gen/status/client.go): which request a command sends,    *)
(* and what the caller is returned for the answer of StatusHttp.  They     *)
(* keep no state.                                                          *)
(*                                                                         *)
(* A command is the flags of health, get-list or revoke: None is a flag    *)
(* left out, or an integer that does not parse.  The doer a program hands  *)
(* to NewClient sends the requests, and may set headers of its own.        *)
(***************************************************************************)
EXTENDS StatusHttp

CONSTANTS
  Commands,  \* [kind, tenant, list, index, accept], <<>> for no accept flag
  Doers,     \* the Accept headers that doers set when there is none
  Required   \* what a tenant flag left out is sent as, "REQUIRED"

ASSUME ClientAssumption ==
  /\ \A g \in Groups : g.tenant # Required
  /\ Doers \subseteq Seq(Part)
  /\ \A m \in Commands :
       /\ m.kind \in {"getList", "revoke", "health"}
       /\ {m.list, m.index} \subseteq Int \cup {None}

-------------------------------------------------------------------------------
(* A payload is built, or not: the default of every flag is a word, which *)
(* is no integer.                                                          *)
BuildGetListPayload(m) == m.list # None
BuildRevokePayload(m) == None \notin {m.list, m.index}

Parses(m) ==
  CASE m.kind = "getList" -> BuildGetListPayload(m)
    [] m.kind = "revoke" -> BuildRevokePayload(m)
    [] m.kind = "health" -> TRUE

(* Only get-list has a flag for the Accept header.                         *)
HeaderOf(m, doer) ==
  IF m.kind = "getList" /\ m.accept # <<>> THEN m.accept ELSE doer

RequestOf(m, doer) ==
  [kind |-> m.kind, list |-> m.list, index |-> m.index,
   tenant |-> IF m.tenant = None THEN Required ELSE m.tenant,
   accept |-> HeaderOf(m, doer)]

CommandRequests == {RequestOf(m, d) : m \in {n \in Commands : Parses(n)}, d \in Doers}

-------------------------------------------------------------------------------
(* A list, or a health report, is whatever the body of a 200 decodes to.   *)
DecodeGetListResponse(a) == a.status = 200 /\ a.body # NoBody

(* The JSON of an error has no field "status", which ErrorResult requires: *)
(* no error is typed.                                                      *)
DecodeRevokeResponse(a) == DecodeGetListResponse(a) /\ a.body.form = "revoked"

Decodes(r, a) ==
  IF r.kind = "revoke" THEN DecodeRevokeResponse(a) ELSE DecodeGetListResponse(a)

(* What the method may return.  A decoder may read what is no JSON, or     *)
(* fail on it.                                                             *)
Returned(r, a) ==
  IF ~Decodes(r, a) THEN {"error"}
  ELSE IF a.type # "json" THEN {"result", "error"}
  ELSE {"result"}

(* A result is of a list of the tenant that the command names, and after   *)
(* that of a revoke its entry is revoked; a command with a flag left out   *)
(* has no result.  The index is one of the list.                           *)
ResultsAreTrue ==
  \A c \in Clients :
    LET r == request[c] IN
    stage[c] = "answer" /\ r.kind # "health" /\ "result" \in Returned(r, answer[c]) =>
      /\ r.tenant # Required
      /\ r.list \in DOMAIN lists /\ group[r.list].tenant = r.tenant
      /\ r.kind = "revoke" /\ r.index >= 0 => r.index \in lists[r.list].revoked

===============================================================================
