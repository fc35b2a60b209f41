# Verification of the status list service

TLA+ models of the status list service: a Go program that hands out entries of
status lists to credential issuers, revokes them, publishes the lists over HTTP
and answers verification requests over NATS. TLC checks the models on small
instances; TLAPS proves their safety for every instance: each invariant, action
property and refinement that the passing runs check is also a theorem.

All source references are relative to `src/`.

## 1. Inventory

### Components and their state

| component | source | state it keeps | operations |
|---|---|---|---|
| bit list | `internal/entity/list.go` | a slice of bytes and a count of free entries, in memory, for one transaction | `NewList`, `AllocateNextFreeIndex`, `RevokeAtIndex`, `CheckBitAtIndex` |
| database transactions | `internal/database/postgres.go`, migration | table `status_lists` (one row per list: group, capacity, next_index, bitstring, version, status_url, expiration), identity sequence, table `status_list_cache` | `AllocateIndexInCurrentList`, `RevokeCredentialInSpecifiedList`, `GetStatusListWithSigner`, `CacheList`, `Ping` |
| HTTP service | `internal/service/status.go`, `goa.go` | none | `Health`, `Revoke`, `GetList`; the choice of response encoder |
| generated HTTP server | `gen/http/status/server`, `gen/status` | none | decode, endpoint, encode |
| signer client | `internal/signer/client.go` | none | one request over NATS with a timeout |
| messaging | `internal/api/messaging.go` | package variables set once at start | `handleCreate`, `handleVerify` |
| start-up, configuration | `main.go`, `internal/config`, `newPostgresConnection` | configuration, the pool, the wait group | connects, migrates, runs both servers in one process, waits for both |
| generated client, command line | `gen/http/status/client`, `gen/http/cli`, `gen/status/client.go` | none | builds a request from flags, decodes its answer |

The remaining parts keep no state of their own and are not modelled (section 7):
API design, mock signer and client, example, deployment.

### How they interact

An issuer sends a creation event; `handleCreate` runs one transaction and replies
with list, index and URL. Any HTTP client revokes an entry (one transaction) or
reads a list (one SELECT; for a token also a request to the signer, sent after
the row was read). A verification event names the URL of a list and an index;
`handleVerify` fetches the list over HTTP, possibly from this very service, has
the signer check it, decodes it, caches it in the database and replies the bit.
The HTTP and the NATS server share one process and one connection pool; several
processes share the database and may be configured with different list sizes;
if they are configured without a NATS queue group, each of them gets each event.
No Go memory is shared between handlers: what they share is the database.

### What is hard

* Transactions read a row, compute in Go and write the whole bitstring back. Only
  the row lock stands between a concurrent allocation and a lost revocation.
* PostgreSQL's `FOR UPDATE` under READ COMMITTED: candidates come from a snapshot,
  locks are waited for, the WHERE clause is evaluated again on the new version,
  and rows that are passed over stay locked.
* COMMIT may take effect although its caller gets an error.
* The list is read before its token is signed, by a service that may be silent.
* A request names a representation by one header which two places interpret
  differently, and a third one for media types that the API does not document; a response encoder that fails does so after the status line.
* Requests and replies over NATS are lost, late or repeated.
* A panic in an HTTP handler ends its connection; in a NATS handler it ends the
  process, with every exchange in it.
* A verification depends on two services that may be silent for ever, and reads
  lists that others publish.
* Each server can end in its own way, before or after the other has started, and
  start-up itself depends on a database and a broker that may not be there.

### What makes each component correct

* bit list: a revocation sets the bit of its entry and no other; the index handed
  out is the row's counter.
* store: no entry is given to two callers, none is given out of a list of another
  group; revocations are neither lost nor invented; transactions do not deadlock,
  all return; open lists do not multiply without bound.
* HTTP: a served list shows all that its reader could know to be revoked, and
  nothing else; each media type gets its representation; every exchange ends.
* messaging: two credentials never hold one entry, however often it was asked for
  and whichever replies were errors; a verdict is true of the entry; a verification
  waits for other services only.
* start-up: no handler runs without a pool and a schema; main never returns while
  a server runs; after outages and crashes each replica serves again.
* client: a result it returns is true of the list the command names.

`PROJECT.json` lists the hazards, each at its line, with the properties aimed at it.

## 2. Modules

Each pair of model and code was built in this order, the store first, since every
promise of the service rests on it.

    StatusList        Representation                     StatusProcess
        |                   |
    StatusStore        StatusHttp ------- (instance) -------- StatusRegistry
        |               |       \                                   |
        |        StatusClient   StatusMessaging                     |
        |                           `- (implements) StatusPromise   |
        `------------------------ (implements) --------------------'

    proofs, each module extending the one it is about and the one to its left:

    StatusStore       StatusStoreInvariant      StatusStoreProofs (and StatusListProofs)
                                                    |- StatusRevocationProofs
                                                    |     `- StatusRefinementProofs
                                                    `- StatusContentionProofs
    StatusHttp        StatusHttpInvariant       StatusHttpProofs (and StatusClient)
    StatusMessaging   StatusMessagingInvariant  StatusMessagingProofs (and StatusHttpProofs)
    StatusProcess                               StatusProcessProofs

| module | models | correspondence |
|---|---|---|
| `StatusList` | `list.go` | One operator per method. A byte is the set of its bits that are 1; `ByteWidth` is 8 in the code. `Quo` and `Rem` are Go's division, truncated towards zero; `InBounds` says which indexes do not panic. |
| `StatusStore` | the two read-write transactions | One action per driver call of each of `Workers`: `BeginTx`, the SELECT's snapshot (`SelectCandidates`), its row locks (`LockOpenList`, `SkipFullList`), `InsertList`, `SetStatusUrl`, `UpdateList`, `CommitAllocate`; `LockRevoked`, `RevokeEntry`, `CommitRevoke`. The local variables of the Go function are functions of the worker (`listId`, `index`, `row`). `rows` holds what is committed; what a transaction wrote is in its `row` until COMMIT. Every error return is `RevokeNotFound`, `RefuseInsert`, `RevokePanic` or `Fail`, which rolls back. |
| `StatusRegistry` | what `internal/database` promises | Lists with sets of entries taken and revoked; each operation one step; its caller may or may not learn of it. |
| `Representation` | `status.go`, `goa.go`, `messaging.go`, `client.go`: content negotiation, encoders, codecs, URLs | Pure operators. A header is the sequence of its parts, a compressed list its bits and its codec, a URL its origin and its path; an origin is a host, the tenant its path names, if any, and a trailing slash or none. |
| `StatusHttp` | the handlers from decoding to the written answer | One slot per running exchange (`Clients`), `stage` being the place of its handler. The store is an instance of `StatusRegistry`. |
| `StatusMessaging` | `handleCreate`, `handleVerify`, `handle`, the process | Extends `StatusHttp`: a verification is also an HTTP client (`Verifiers` is a subset of `Clients`) and goes through the phases of `handleVerify`. `ProcessDies` drops HTTP and NATS handlers together. |
| `StatusPromise` | what the service promises its users | Entries held, revoked, known to be revoked, and verifications asked for; no lists, handlers, messages or caches. |
| `StatusClient` | the generated client and its command line | Extends `StatusHttp`. A command is its flags; `CommandRequests` are the requests it sends, `Returned` what its caller gets for an answer. Stateless, as the code. |
| `StatusProcess` | `main`, `newPostgresConnection`, `StartMessaging`, `StartGoa` | One step per call that can fail, of each of `Replicas`; `main`, `http` and `events` are the places of its three goroutines, `wg` the wait group. `Exit` ends a process with all of them. |
| `StatusStoreInvariant`, `StatusHttpInvariant`, `StatusMessagingInvariant` | | the inductive invariants, checked by the runs and proved |
| `MCStatusStore`, `MCStatusHttp`, `MCStatusMessaging` | | the instances that TLC checks |
| `StatusListProofs`, `StatusStoreProofs`, `StatusRevocationProofs`, `StatusContentionProofs`, `StatusRefinementProofs`, `StatusHttpProofs`, `StatusMessagingProofs`, `StatusProcessProofs` | | theorems |

Operators whose comment begins with "Fault:" are not part of the models: each is
a definition of the model with a plausible bug in it, and substituted for it
makes the property it is listed with in `PROJECT.json` fail.

History variables: `granted`, `revoked`, `acked` (what was returned, committed,
confirmed), `known` and `since` (the revocations that clients had been told of,
now and when a request was sent), `target[v].revoked` (the status of an entry when
its verification was requested), `end` (how a process ended). No action's guard
reads them.

In `StatusMessaging` a creation request is delivered to the replicas `Subscribers`, one
with a queue group, all of them without; they share the store, so that each copy
is one more step of the registry. A handler replies the entry or, when the store
returned an error, that error (`ErrorReply`), although the COMMIT may have taken
effect; only an event that does not parse, or is lost, gets no reply
(`LoseRequest`). Only the first reply to the latest request of a job is received,
as the NATS request API has it (`waiting`): after an error the job may ask again,
and a good reply of another replica comes too late. A reply that is never received
is a lost one. The URL an event carries is one that a job was given, or one of
`Publishers`, whose lists (`elsewhere`) change on their own.

### The refinements

`StatusStore` implements `StatusRegistry`: the committed rows are the lists, the
entries below `next_index` are those taken, the bits that are 1 those revoked.
Each commit is one step of the registry and every other step a stutter.
`StatusHttp` and `StatusMessaging` use the registry in place of the store, which
keeps them small and is justified by that refinement. They add to a registry
step only what the refinement's mapping fixes: the next entry is the smallest
one not taken, and a list belongs to one group. A registry step may or may not
tell its caller, so that a lost COMMIT reply shows up as an error there too.

`StatusMessaging` implements `StatusPromise`: a credential's entry is the URL and the
index it was told, an entry is revoked if its bit is set in the list its URL leads
to. Receiving the reply is `Hold`, an HTTP revocation `Revoke`, reading a list or the
answer of a revocation `Learn`, a verification's reply `AnswerRevoked` or `AnswerValid`,
the death of the process `Abandon`, all else a stutter. The promise has no knowledge
of fetches and caches: a verification answers from the status between its request
and its reply, and tells nobody of a revocation that did not happen. It also says
of each entry that two credentials do not have it by URL and index, which needs
that different lists have different URLs (`ImplementsPromise` from the initial state,
`KeepsPromise` for the steps from a later one).

## 3. Runs

| run | what it asks |
|---|---|
| `store_safety` | Three workers on three connections, four calls, lists of one byte of two bits, from an empty table or from two open lists. No entry is returned twice (`UniqueEntries`), the bits are exactly the committed revocations (`RevocationsExact`), a group has at most one open list per connection (`BoundedFragmentation`), no set of transactions waits for one another (`NoLockCycle`). `LocksInOrder` and `ConnectionsApart`, from which the last two are proved, hold too. |
| `store_sizes` | Three processes configured with two bytes, one byte and none, two tenants, one revoking in the other's list; credentials of one group expire at different dates. Capacities stay those of the rows' own bytes (`RowsConsistent`), entries fit their requests (`EntryFitsRequest`), rows only grow (`ListsOnlyGrow`), the registry is implemented (`ImplementsRegistry`), and the invariant of the proofs holds (`StoreInv`). |
| `store_progress` | Three workers on two connections find two open lists, and fill, pass over and revoke in them: each call returns, whoever waits for the pool or for a row (`EveryCallReturns`). |
| `http_forms` | Every combination of Accept header, tenant, list and index, malformed ones and ones outside the list included, and every command of the command line with flags left out, in all sequences of two; also the media types that only goa's own encoder knows (XML, gob, text): representations (`DocumentedForms`), what the generated client returns (`ResultsAreTrue`), termination (`EveryExchangeEnds`), and the invariant of the proofs (`HttpInv`). |
| `messaging_create` | Two jobs of one group, one asking twice, next to a list of another tenant that has a free entry; two replicas handle each request; requests and replies are lost, reordered and late, and a reply may be an error although its entry was taken. No two credentials share an entry, and each has one of its own group (`HeldEntries`); the promise is kept (`ImplementsPromise`); the invariant of the proofs holds (`MessagingInv`). |
| `messaging_verify` | Two concurrent verifications, of the entries of two tenants or of a list published elsewhere as GZIP without a Content-Type, of indexes before, in and behind the list, the last of which kills the process; the origin of one tenant has a trailing slash, so that no route serves its URL. An HTTP client revokes, a publisher too, also between the reading of a list, its signature and its delivery. Verdicts and lists are true (`VerdictIsTrue`, `ListAnswerIsTrue`), each step is one of the promise (`KeepsPromise`), and a verification waits for nobody but the signer and the publisher (`OnlyOthersDelay`). `MessagingInv` holds in these later states too. |
| `process` | Two replicas start, fail, are killed and start again, through four faults: outages of database and broker, a port that is taken, subscriptions that end with and without an error. Handlers find pool and schema (`HandlersHaveSchema`), the servers start together and are counted (`ProcessInv`), no replica exits with status 0 (`NeverReturns`), each replica serves again (`Recovers`). |

`Recovers` says `{"replying", "ended"}` on purpose: if `ReplyCtx` returns without an
error, the goroutine ends, `wg` goes to one and the process serves HTTP for ever
without handling events. The code has nothing that would notice, and no document
says that it should; a reader who wants events back has to restart it.

Five runs end in a counterexample: they check what a document, a comment or the
API design says, and the code does otherwise.

| run | what is said | what happens |
|---|---|---|
| `negative_index` | `design/design.go:111`: revoking sets "the bit at the given index" | Indexes -7 to -1 pass every check: Go's division takes them to byte 0, the mask is shifted out of the byte. The revocation is committed, increments `version` and is confirmed, with no bit set. |
| `token_bit_order` | `README.md:105`: entries are "least-significant-bit first within a byte" | `bitMask` counts from the most significant bit. `internal/entity/list_test.go` tests that order, so one of the two has to change. |
| `empty_success` | comment at `internal/service/goa.go:72`: an empty Accept or `*/*` gets a token | `GetList` builds a map for these; the JWT encoder refuses it after the 200 went out: an empty body. The generated client sends no Accept when it revokes (`gen/http/status/client/encode_decode.go:172`): unless its doer does, it returns a decoding error for a revocation that took place. |
| `own_list_decodes` | `README.md:419`: the decompression matches the representation; `README.md:151`: GZIP | `encodeStatusList` writes ZLIB in each representation, the verifier opens GZIP for credentials. |
| `list_url` | `README.md:133`: the `id` of a credential is the URL of its list | `statusListURL` joins the origin with `tenant/list`, the creation reply with `list`. An origin with a trailing slash also keeps it in the reply and loses it in the token's `sub`. |

Two more observations have no counterexample run of their own:

* `README.md:321` lists "Representation with matching Content-Type" among the answers
  of `GetList`, and `README.md:326` says that the `Content-Type` describes the selected
  representation. Only a token has its own media type. A credential goes through
  goa's default encoder and is labelled `application/json`: `DocumentedForms` states
  it, and the theorem proves that it is always so. The service's own verifier does
  not mind, since it reads whatever is not a token as a credential. An `Accept` of
  XML or plain text selects an encoder that cannot write the map `GetList` built: a
  200 without a body, as in `empty_success`.
* The reply of a creation is `Origin + "/" + list` (`internal/api/messaging.go:112`), of an
  origin that nobody checks. With a trailing slash it has a double one, and an
  origin that does not end in `/v1/tenants/{tenantId}/status` names no tenant, as those
  of `mock/client/create-status.sh:9` and `example/main.go:30`. No route of the service
  matches either (`Routed`): unless something in front of it rewrites paths, the
  URL is not found and a verification of it ends without a verdict
  (`messaging_verify`). Therefore no property says that the URL of an entry leads to
  its list.

### Bounds and why they are enough

* `ByteWidth = 2`: a list fills after two allocations, so that the full list, the
  next one and the boundary between bytes (`store_sizes`) are reached in three
  or four calls. The theorems about `StatusList` hold for every width.
* `MaxCalls` bounds the calls of a behaviour. Three workers are the least at which
  one waits while another releases and a third takes over. With two connections
  the pool is exhausted (`store_progress`); a lock cycle needs three transactions,
  two that wait and one that filled the lists in between (`store_safety`). Four
  calls fill a list, open the next and revoke in one of them, let each connection
  insert a list of its own, or fill two open lists and open a third. Entry uniqueness, exactness
  of revocations and monotonicity do not depend on these bounds: they are
  proved (section 5).
* `TwoOpenLists` starts a behaviour from two open lists with one free entry each,
  as concurrent inserts leave them, instead of the calls that lead there: such
  states are reached from `Init` too. `store_safety` starts from either, `store_progress`
  from the two lists. The next-state relation is that of `StatusStore`.
* `MaxLists`, `MaxExchanges`, `MaxAttempts` bound the HTTP and messaging models.
  `http_forms` has one client, so that its two exchanges follow each other: it asks
  which request gets which answer and result, and that an exchange ends. What runs
  at the same time is in `messaging_verify`: three exchanges of three clients, for two
  verifications and a revocation that falls between the reading of a list, its
  signature and its delivery, which is where `ListAnswerIsTrue` is checked. It starts
  from two jobs, of different tenants, that hold their entries (`SpecHolding`);
  `messaging_create` checks how a job gets one, from a state in which the list of
  another tenant has a free entry (`SpecShared`). The two lists it may open have
  fewer entries than there are copies of the requests, so that lists run full.
* `Indexes`: one before the list, which truncated division takes to byte 0, its
  entry, and one behind it.
* `MaxFaults = 4` in two replicas: each of them can lose each of the services or be
  killed and still fail once more while the other starts. The theorems hold for
  every number.
* Symmetry is used over workers that are configured alike (`store_safety`
  and the two counterexample runs of the store) and over the replicas that get a
  request (`messaging_create`), never in a run with a liveness property or with
  mixed sizes.

## 4. Fairness

* `StatusStore!Fairness`: a handler that can take its next step does so (a
  goroutine of the Go scheduler and a live database). Strong fairness for
  `BeginTx`, `Lock` and `LockRevoked`: pgxpool and PostgreSQL serve waiters in
  the order they came, so none is overtaken for ever. No fairness for calls
  being made or for failures.
* `StatusHttp!HttpFairness`: handlers run on and answers are delivered. `Handle`
  contains `SignFails` but not `SignToken`: the signer may be silent for ever, and
  the exchange ends because `internal/signer/client.go:36` gives the NATS request
  the configured timeout. That a positive timeout is configured, and that the NATS
  library keeps it, is assumed.
* `StatusMessaging!Fairness`: the steps that handlers take themselves (`Handle`,
  `HandleVerify`) are taken. None for `SignerAccepts`, `FetchElsewhere` and
  `VerifyFails`: `http.DefaultClient` has no timeout, so neither the signer's
  verification endpoint nor a publisher has to answer. That is why `OnlyOthersDelay`
  promises progress up to these two waits and not an answer.
* `StatusProcess!Fairness`: the goroutines run on, an orchestrator starts a process
  that is down, and an outage ends. Weak fairness is enough for `RunMain` and
  `RunMessaging` because each of their steps has a twin for the failure: whether
  the service can be reached or not, one of the two is enabled. No fairness for
  faults, whose number is bounded.

## 5. Proofs

### Assumptions

The named assumptions of the modules (`StoreAssumption`, `ByteWidthAssumption`,
`HttpAssumption`, `MessagingAssumption`, `ClientAssumption`, `ProcessAssumption`), which
TLC evaluates in every run, and no others. The workers, clients, jobs,
verifications, publishers and replicas are any sets; list sizes, bounds and byte
widths any naturals; requests any of their types, negative indexes included.

`MessagingAssumption` says of the constants what the code takes for granted: a
publisher elsewhere has another origin than any list of this service, and `None`, the absence of a value, is not
by accident an entry, an event or a verdict. `StatusMessagingProofs` extends
`StatusHttpProofs` for its lemmas and with it declares the constants of
`StatusClient`, which no theorem about messaging mentions.

Two theorems have a hypothesis. `RegistryImplemented` assumes `NoNegativeIndex`: no
caller of the store revokes a negative index; `PromiseImplemented` and `PromiseKept`
assume `NoNegativeRevoke`: no HTTP client revokes one of the indexes from
`1 - ByteWidth` to -1. Without them both are false, and that is no weakness of the
proofs but the behaviour that run `negative_index` shows: such a revocation is
confirmed and no bit is set, so that a user knows of a revocation that did not take
place. Nothing in the code rejects these indexes. The runs that check the two
refinements revoke no negative index either. Verification events may name any
index in the theorems as in `messaging_verify`: there a negative one does no harm.

### Results

| module | theorem | property |
|---|---|---|
| `StatusListProofs` | `RevokeSetsOneEntry`, `NegativeRevokeIsLost`, `NextFreeIndexIsCounter` | the three methods of a list, for every byte width |
| `StatusStoreProofs` | `StoreInvariant`, `TypeCorrect`, `RowsAreConsistent`, `EntriesAreUnique`, `EntriesFitRequests` | `StoreInv`, `TypeOK`, `RowsConsistent`, `UniqueEntries`, `EntryFitsRequest` |
| `StatusRevocationProofs` | `RevocationsAreExact`, `ListsGrow` | `RevocationsExact`, `ListsOnlyGrow` |
| `StatusContentionProofs` | `LocksAreInOrder`, `NoDeadlock`, `ConnectionsStayApart`, `FragmentationIsBounded` | `LocksInOrder`, `NoLockCycle`, `ConnectionsApart`, `BoundedFragmentation` |
| `StatusRefinementProofs` | `RegistryImplemented` | `ImplementsRegistry` |
| `StatusHttpProofs` | `HttpInvariant`, `HttpTypeInvariant`, `ListAnswersAreTrue`, `DocumentedFormsServed`, `ClientResultsAreTrue` | `HttpInv`, `HttpTypeOK`, `ListAnswerIsTrue`, `DocumentedForms`, `ResultsAreTrue` |
| `StatusMessagingProofs` | `MessagingInvariant`, `EntriesAreHeldOnce`, `VerdictsAreTrue`, `FetchedListsAreTrue`, `MessagingTypeInvariant`, `PromiseImplemented`, `PromiseKept` | `MessagingInv`, `HeldEntries`, `VerdictIsTrue`, `ListAnswerIsTrue`, `MessagingTypeOK`, `ImplementsPromise`, `KeepsPromise` |
| `StatusProcessProofs` | `ProcessInvariant`, `HandlersFindSchema`, `MainNeverReturns` | `ProcessInv`, `HandlersHaveSchema`, `NeverReturns` |

### The arguments

**Entries and revocations.** `UniqueEntries` is not inductive: it needs to be known
that the index which a transaction is about to return is still the counter of its
row when it commits. `StoreInv` says so. Locks are exclusive (`LocksExclusive`); a
transaction that took an entry holds the lock of its row, and the row it read is
the committed one, apart from its own change (`TakenOK`, `RevocationOK`); a list that
was inserted and not committed has an id no other transaction and no row has
(`IdsFresh`, `InsertedOK`). Therefore a commit of one worker changes neither the
row of another one's lock nor the truth of what the other knows about it, which
is the lemma each commit step cites. For the second line of `UniqueEntries`, all
returned entries lie below the counter, so that the counter itself is new.
`RowsConsistent` is needed because the index is computed from `len(List)*8` and
`capacity - next_index`: only if the capacity is the bit count of the row's own
bytes is that the counter.

For revocations, only the two commits write rows (`OnlyCommitsWrite`). By
`StoreInv` an allocation commits the bytes that are in the row now, and a
revocation those bytes with one entry set; with `RevokeSetsOneEntry` and
`NegativeRevokeIsLost` the bits stay equal to the committed revocations, once it
is known that revocations are only of committed lists (`RevokedLists`), so that a
new list starts with none.

**Deadlock.** A worker that waits for a row in `lock` waits for the least candidate it
has left, and every lock it holds is of a list it passed over, with a smaller id;
workers that wait elsewhere hold nothing (`LocksInOrder`). In a set of workers that
wait for one another only, take the one whose row has the greatest id: the holder
of that row is in the set and waits for a greater one. The greatest exists because
ids are below `nextListId` (`GreatestElement`; the set of workers may be infinite).

**Fragmentation.** That a group has at most `MaxConns` open lists says nothing about
who opened them, and is not inductive. `ConnectionsApart` gives each transaction a
connection of its own, and each open list the one that its INSERT ran on. Two open
lists of a group were inserted on different connections: a transaction inserts only
when it saw, or waited for, no open list, so that one it missed was inserted by
another transaction that ran at the same time (`Missed`), on another connection. The
assignment is a bound existential, not a variable: a new transaction finds a free
connection because fewer than `MaxConns` are used. The bound then is the pigeonhole
principle (`FS_Injection`).

**Registry.** Lists are the committed rows, so that only a commit can be a step. The
bits of `WithEntry` are those of the row, and a revocation is
one entry more (`EntryIsRevoked`); the caller of a COMMIT learns of it or gets an error.

**HTTP.** `ListAnswerIsTrue` needs the time between reading and answering: `Read` says
of a handler waiting for the signer, and of an answer on its way, that its bits
contain what was known when the request was sent (`since`) and are contained in what
is revoked now. The first inclusion is established when the row is read, because
known revocations are revoked (`known \subseteq Revocations`); the second is kept
because revocations stay. Each step is shown to touch its own exchange only, and all
others are stable while lists, groups and knowledge grow. `AnswerOK` ties the body to
the value that was read through the encoder that was chosen, from which
`DocumentedForms` and `ResultsAreTrue` follow by what the encoders write.

**Messaging.** The replies on their way that give an entry, and the accepted ones,
are of distinct, taken entries of the group that was asked for (`ReplyOK`,
`CreationInv`): a new one is distinct because the registry hands out what was not
taken, an error gives none, and a job that holds an entry waits for no reply. For verdicts, a
verification's event names a list of this service or of a publisher; while its fetch
is under way, what the handler of its request has read shows its entry if that was
revoked when the event was sent (`Shows`; a `FetchOK` that spoke of `since` would not
do, since a verification learns of the status from nobody); the body it has read shows
revoked entries only (`FetchedOK`). The steps of the HTTP handlers are taken over from
`StatusHttpProofs`, whose lemmas do not say who takes a step.

**Promise.** The known entries are mapped by the URLs of their lists, the verifications
by their events. `Hold` needs that two URLs with the same path are of one list;
`Learn` needs that known entries are revoked (`KnownRevoked`, with the hypothesis
above); `AnswerRevoked` and `AnswerValid` need `FetchedOK`; a step of the store or of the
registry is `Revoke` because revoked entries stay (`RevokedGrows`); the end of
verifications, one or all of them, is `Abandon`.

**Processes.** `NeverReturns` is not inductive: `ReplyEnds` returns from main when the
counter is at one. `StartedServers` adds that the counter is two as long as the
subscription runs, because the HTTP server can leave the process only by a panic;
and that servers run in the "wait" stage only, which is entered by a migration that
succeeded, so that pool and schema are there whatever earlier starts did.

### What is only model-checked

The liveness properties `EveryCallReturns`, `EveryExchangeEnds`, `OnlyOthersDelay` and
`Recovers`, which rest on fairness and are beyond the prover; and the five properties
that the code violates.

## 6. Abstractions

* Data: names, keys, DIDs and namespaces are one value per group (`Signers`);
  dates are naturals; a token is its list and its subject. Signatures,
  base64 and JSON are left out; the compression codec is kept, since readers
  choose one.
* Statements of PostgreSQL are atomic except the locking SELECT, which is its
  snapshot followed by one step per row. The multiple statements of `CacheList`
  are separate steps, each committed on its own.
* `BeginTx` waits for the pool only in `StatusStore`; the single-statement reads
  of `StatusHttp` do not hold connections across other steps.
* goa's encoders and its mux are external: which of them an `Accept` header selects
  when it names one media type, which values each can write, and that the mux
  matches paths as they are, is modelled from how `goa.go` and `server.go` use them. A
  proxy that maps other paths to the service is not modelled. That the NATS library
  does not recover a panic of a handler is assumed: nothing under `src/` does.
* The signer and NATS are external: the signer accepts, refuses or is silent; NATS
  loses, delays and reorders. A request the client repeats is a new message.
* In `StatusProcess` the database and the broker can be reached or not; the
  migration takes effect or not, and fails only in an outage. Requests are not in
  that model: what they do is in the other ones, where a dying process is
  `ProcessDies`.
* Lists published elsewhere are the entries that are revoked in them, in a form and
  a codec; they change by one more entry at a time.

## 7. Not modelled

* Loading the configuration, and the logger: a process that fails there has not
  taken its first step. The defaults of `config.go` that no code reads have nothing
  to model. A negative `LISTSIZEINBYTES` makes the first creation panic: sizes are
  naturals in the models.
* `GetStatusList`, `CreateTableForTenantIdIfNotExists`, `preferredContentType`: no
  caller. The typed errors of the generated server: the service returns none, so
  that every error is a 500 of goa's own.
* The dirty flag that the migration library may leave behind, which makes each
  later start fail: its code is not in the repository.
* Status lists of other services with more than one bit per entry: the code reads
  them as lists of single bits; the models have one bit per entry only.
* `design/` generates code and is run by nothing; `mock/` are test doubles of services
  that are external here; `example/` sends one message; `deployment/` has no code.

## 8. Plan

Done: the bit list, the store, the HTTP, client, messaging and process models with
their runs, the registry and the promise with their refinements, and proofs of every
safety property and refinement of the passing runs. Left, in this order:

1. That `StatusHttp` and `StatusMessaging` use the store as it is: their steps on it as
   steps of `StatusRegistry`, as a theorem; so far this holds by their definition
   over its actions.
2. Lemmas about `Representation`: which representations a reader decodes to the list
   that was written, as the positive side of `own_list_decodes`.
3. Decomposing the liveness arguments: the action properties behind `EveryCallReturns`
   (what only the worker itself can undo), which can be proved without fairness.
