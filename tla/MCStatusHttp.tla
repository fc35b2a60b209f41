----------------------------- MODULE MCStatusHttp -----------------------------
(***************************************************************************)
(* Small instances of StatusHttp and StatusClient.                         *)
(***************************************************************************)
EXTENDS StatusClient, StatusHttpInvariant

CONSTANTS t1, t2, c1

MCGroup(t, type) ==
  [tenant |-> t, type |-> type, origin |-> [host |-> t, tenant |-> t, slash |-> FALSE]]

OneGroup == {MCGroup(t1, "StatusList2021")}
TwoGroups == {MCGroup(t1, "StatusList2021"), MCGroup(t2, "BitstringStatusList")}

Anything == Exactly("*/*")
Jwt == Exactly("statuslist+jwt")
Vc == Exactly("vc+ld+json")
Json == Exactly("json")
JwtOrJson == Jwt \o Json
VcWithQuality == <<[media |-> "vc+ld+json", exact |-> FALSE]>>

MCGet(t, l, accept) ==
  [kind |-> "getList", tenant |-> t, list |-> l, index |-> 0, accept |-> accept]
MCRevoke(t, l, i, accept) ==
  [kind |-> "revoke", tenant |-> t, list |-> l, index |-> i, accept |-> accept]
MCHealth(accept) ==
  [kind |-> "health", tenant |-> t1, list |-> 0, index |-> 0, accept |-> accept]

(* Every path through the handlers.                                        *)
EveryRequest ==
  {MCGet(t, 1, a) : t \in {t1, t2}, a \in {Jwt, Vc, Json, Anything, <<>>,
                                           JwtOrJson, VcWithQuality}}
  \cup {MCGet(t1, None, Vc), MCRevoke(t1, 1, None, Json), MCRevoke(t1, None, 0, Json)}
  \cup {MCRevoke(t1, 1, i, Json) : i \in {-2, -1, 1, 2}}
  \cup {MCHealth(Json), MCHealth(Anything)}

(* Media types that only goa's encoder knows, for a list and for another   *)
(* answer.                                                                 *)
OtherTypes ==
  {MCGet(t1, 1, Exactly(m)) : m \in {"xml", "gob", "text"}}
  \cup {MCRevoke(t1, 1, 1, Exactly(m)) : m \in {"xml", "text"}}

(* Complete commands, and each one that leaves out a flag.                 *)
MCCommand(kind, t, l, i, accept) ==
  [kind |-> kind, tenant |-> t, list |-> l, index |-> i, accept |-> accept]
EveryCommand ==
  {MCCommand("getList", t, l, None, a) :
     t \in {t1, None}, l \in {1, None}, a \in {<<>>, Vc}}
  \cup {MCCommand("revoke", t, l, i, <<>>) :
          t \in {t1, None}, l \in {1, None}, i \in {0, None}}
  \cup {MCCommand("health", None, None, None, <<>>)}

NoCommands == {}
MCDoers == {<<>>, Json}

(* Requests of any HTTP client, and of the command line.                   *)
AllRequests == EveryRequest \cup OtherTypes \cup CommandRequests

===============================================================================
