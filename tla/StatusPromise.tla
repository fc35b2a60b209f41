---------------------------- MODULE StatusPromise ----------------------------
(***************************************************************************)
(* What the service promises to the users of its lists, whatever its       *)
(* transactions, handlers, messages and caches do: an entry serves one     *)
(* credential, a revocation is for good, nobody is told of a revocation    *)
(* that did not take place, and a verification sees every revocation that  *)
(* took place before it was requested.  StatusMessaging implements it.     *)
(***************************************************************************)
CONSTANTS
  Jobs,       \* the credentials that need an entry
  Verifiers,  \* slots for verifications
  None        \* no value

VARIABLES
  held,     \* the entry of each credential
  revoked,  \* the revoked entries
  known,    \* the entries a user was told to be revoked
  asked,    \* the verifications on their way: entry, and its status when asked
  verdict   \* the latest answer to a verification

vars == <<held, revoked, known, asked, verdict>>

Init ==
  /\ held = [j \in Jobs |-> None]
  /\ revoked = {} /\ known = {}
  /\ asked = [v \in Verifiers |-> None]
  /\ verdict = None

(* A credential keeps the entry it is given, and nobody else has it.       *)
Hold(j) ==
  /\ held[j] = None
  /\ \A k \in Jobs : held'[k] = IF k = j THEN held'[j] ELSE held[k]
  /\ \A k \in Jobs \ {j} : held[k] # held'[j]
  /\ UNCHANGED <<revoked, known, asked, verdict>>

Revoke ==
  /\ revoked \subseteq revoked'
  /\ UNCHANGED <<held, known, asked, verdict>>

(* A user reads of revoked entries.                                        *)
Learn ==
  /\ known \subseteq known' /\ known' \subseteq revoked
  /\ UNCHANGED <<held, revoked, asked, verdict>>

Ask(v) ==
  /\ asked[v] = None /\ asked'[v] # None
  /\ \A u \in Verifiers \ {v} : asked'[u] = asked[u]
  /\ asked'[v].revoked <=> asked'[v].entry \in revoked
  /\ UNCHANGED <<held, revoked, known, verdict>>

Done(v) == asked' = [asked EXCEPT ![v] = None]

AnswerRevoked(v) ==
  /\ asked[v] # None
  /\ asked[v].entry \in revoked
  /\ verdict' = [entry |-> asked[v].entry, revoked |-> TRUE,
                 since |-> asked[v].revoked]
  /\ known' \in {known, known \cup {asked[v].entry}}
  /\ Done(v)
  /\ UNCHANGED <<held, revoked>>

AnswerValid(v) ==
  /\ asked[v] # None
  /\ ~asked[v].revoked
  /\ verdict' = [entry |-> asked[v].entry, revoked |-> FALSE, since |-> FALSE]
  /\ Done(v)
  /\ UNCHANGED <<held, revoked, known>>

(* Verifications end without an answer, several at once when the process   *)
(* dies.                                                                   *)
Abandon ==
  /\ \A v \in Verifiers : asked'[v] \in {asked[v], None}
  /\ UNCHANGED <<held, revoked, known, verdict>>

Next ==
  \/ \E j \in Jobs : Hold(j)
  \/ \E v \in Verifiers : Ask(v) \/ AnswerRevoked(v) \/ AnswerValid(v)
  \/ Revoke \/ Learn \/ Abandon

Spec == Init /\ [][Next]_vars

===============================================================================
