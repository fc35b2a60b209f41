---------------------------- MODULE Representation ----------------------------
(***************************************************************************)
(* What a response carries: which representation of a status list a        *)
(* request gets (internal/service/status.go, goa.go), the URLs written     *)
(* into it, and what the verifying side reads back from it                 *)
(* (internal/api/messaging.go).                                            *)
(*                                                                         *)
(* An Accept header is the sequence of its comma-separated parts.  A part  *)
(* names a media type, exactly as the code spells it or with parameters or *)
(* other capitals.  A compressed list keeps the set of its bits that are 1 *)
(* and the name of the codec a reader must use.                            *)
(***************************************************************************)
EXTENDS Integers, Sequences

CONSTANT None  \* no value; a path segment that is no integer

Media == {"statuslist+jwt", "vc+ld+json", "json", "xml", "gob", "text", "*/*"}
Part == [media: Media, exact: BOOLEAN]

Exactly(media) == <<[media |-> media, exact |-> TRUE]>>

(* Fault: the JWT encoder is picked for credentials, too.                  *)
AcceptsCredentials(accept) ==
  \/ accept \in {<<>>, Exactly("*/*")}
  \/ \E k \in DOMAIN accept : accept[k].media \in {"statuslist+jwt", "vc+ld+json"}

(* responseEncoder picks the JWT encoder for these headers ...             *)
AcceptsStatusListJWT(accept) ==
  \/ accept \in {<<>>, Exactly("*/*")}
  \/ \E k \in DOMAIN accept : accept[k].media = "statuslist+jwt"

(* ... while GetList builds a token only when the header is that type and  *)
(* nothing else.                                                           *)
FormOf(accept) ==
  IF accept = Exactly("statuslist+jwt") THEN "token"
  ELSE IF accept = Exactly("vc+ld+json") THEN "credential"
  ELSE "technical"

(* Any other header goes to goahttp.ResponseEncoder, which knows some more *)
(* types, if one of them is all that is asked for, and else writes JSON.   *)
ContentType(accept) ==
  IF AcceptsStatusListJWT(accept) THEN "statuslist+jwt"
  ELSE IF Len(accept) = 1 /\ accept[1].media \in {"xml", "gob", "text"}
  THEN accept[1].media
  ELSE "json"

(* What each encoder can write: the JWT and the text encoder only strings, *)
(* the XML encoder no map, which a technical list and a credential are.    *)
Writable(type, value) ==
  CASE type \in {"statuslist+jwt", "text"} -> value.form \in {"token", "text"}
    [] type = "xml" -> value.form \notin {"technical", "credential"}
    [] type \in {"json", "gob"} -> TRUE

(* For any other value the encoder returns an error, after the header went *)
(* out; the error handler is nil.                                          *)
NoBody == [form |-> "none"]

Written(accept, value) ==
  IF Writable(ContentType(accept), value) THEN value ELSE NoBody

(* Every form of a list is compressed by the same writer.                  *)
EncodedList(bits) == [codec |-> "zlib", bits |-> bits]

-------------------------------------------------------------------------------
(* List types, as verification requests name them.                         *)

TokenTypes ==
  {"tokenstatuslist", "tokenstatuslistcredential", "jwtstatuslist", "statuslist+jwt"}

VerifyAccept(type) ==
  Exactly(IF type \in TokenTypes THEN "statuslist+jwt" ELSE "vc+ld+json")

(* The credential built for a stored type: the two Bitstring types have    *)
(* one, everything else, unknown types included, is a StatusList2021.      *)
CredentialType(type) ==
  IF type \in {"BitstringStatusListCredential", "BitstringStatusList"}
  THEN "BitstringStatusListCredential"
  ELSE "StatusList2021Credential"

(* The codec and form that the decoder chosen by a content type takes.     *)
Readable(body, contentType) ==
  IF contentType = "statuslist+jwt"
  THEN body.form = "token" /\ body.list.codec = "zlib"
  ELSE body.form = "credential" /\ body.list.codec = "gzip"

-------------------------------------------------------------------------------
(* URLs.  An origin is what the issuer says the public URL of its lists    *)
(* is: a host, the tenant that its path .../v1/tenants/{tenantId}/status   *)
(* names, None for any other path, and a trailing slash or none.  The      *)
(* service checks none of it.                                              *)

Trimmed(origin) == [origin EXCEPT !.slash = FALSE]

Url(origin, path) == [origin |-> origin, path |-> path]

(* In the reply to a creation request; not trimmed.                        *)
StatusUrl(origin, l) == Url(origin, <<l>>)

(* "sub" of a token.                                                       *)
TokenSubject(origin, l) == Url(Trimmed(origin), <<l>>)

(* "id" of a credential, from the status_url of the row, tenant/list.      *)
CredentialId(origin, tenant, l) == Url(Trimmed(origin), <<tenant, l>>)

(* The route GET /v1/tenants/{tenantId}/status/{listId}: the mux merges no *)
(* double slash, and any other path is not found.                          *)
Routed(url) ==
  url.origin.tenant # None /\ ~url.origin.slash /\ Len(url.path) = 1

===============================================================================
