--------------------------- MODULE MCStatusMessaging ---------------------------
(***************************************************************************)
(* Small instances of StatusMessaging.                                     *)
(***************************************************************************)
EXTENDS StatusMessagingInvariant, TLC

CONSTANTS t1, t2, p1, c1, v1, v2, j1, j2, j3, s1, s2

MCOrigin(h, t, slash) == [host |-> h, tenant |-> t, slash |-> slash]
MCGroup(t, origin) == [tenant |-> t, type |-> "StatusList2021", origin |-> origin]

(* The lists of the first tenant have the URL that the service serves them *)
(* at; those of the second one have the bare host, with a slash.           *)
FirstGroup == MCGroup(t1, MCOrigin(t1, t1, FALSE))
SecondGroup == MCGroup(t2, MCOrigin(t2, None, TRUE))
OneGroup == {FirstGroup}
TwoGroups == {FirstGroup, SecondGroup}

SameTenant == [j \in Jobs |-> FirstGroup]
OwnTenants == [j \in Jobs |-> IF j = j3 THEN SecondGroup ELSE FirstGroup]

FirstAsksTwice == [j \in Jobs |-> IF j = j1 THEN 2 ELSE 1]
AskOnce == [j \in Jobs |-> 1]

SymmetricReplicas == Permutations(Subscribers)

NoRequests == {}

(* A credential with a gzip list, served without a Content-Type.           *)
NoPublishers == {}
OnePublisher == {Url(MCOrigin(p1, None, FALSE), <<1>>)}
MCPublished ==
  [u \in Publishers |-> [form |-> "credential", codec |-> "gzip", type |-> None]]

(* The entry of that list, and indexes before and behind it.               *)
AnyIndex == {-1, 0, Size}

(* The first job's entry is revoked.                                       *)
OnlyRevoke ==
  {[kind |-> "revoke", tenant |-> t1, list |-> 1, index |-> 0,
    accept |-> Exactly("json")]}

(* An issuer of the second tenant, who is none of the jobs, was given an   *)
(* entry: its list has another one free.                                   *)
Shared ==
  /\ lists = <<[size |-> Size, taken |-> {0}, revoked |-> {}]>>
  /\ told = <<<<1, 0>>>> /\ acked = {}
  /\ group = <<SecondGroup>>
  /\ ExchangeInit /\ CreationInit /\ VerificationInit

SpecShared == Shared /\ [][Next]_vars

(* The first and the third job have been given their entries, each the     *)
(* first one of the list of its tenant.                                    *)
ListOf == [j \in Jobs |-> IF j = j3 THEN 2 ELSE 1]

Holding ==
  /\ lists = [l \in 1 .. 2 |-> [size |-> Size, taken |-> {0}, revoked |-> {}]]
  /\ told = <<<<1, 0>>, <<2, 0>>>> /\ acked = {}
  /\ group = <<FirstGroup, SecondGroup>>
  /\ attempt = [j \in Jobs |-> 1]
  /\ waiting = [j \in Jobs |-> FALSE]
  /\ \E s \in Subscribers :
       entry = [j \in Jobs |->
         CreateReply([job |-> j, attempt |-> 1, copy |-> s], ListOf[j], 0)]
  /\ ExchangeInit /\ VerificationInit
  /\ inbox = {} /\ replies = {}

SpecHolding == Holding /\ [][Next]_vars /\ Fairness

===============================================================================
