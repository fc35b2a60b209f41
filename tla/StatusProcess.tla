----------------------------- MODULE StatusProcess -----------------------------
(***************************************************************************)
(* The life of the replicas of the service: main.go, database.New,         *)
(* StartMessaging and StartGoa.  A replica connects to the database,       *)
(* brings its schema up to date, and runs two servers that share the pool; *)
(* main waits for both.  Whatever goes wrong before, or in one of them,    *)
(* ends the process, and the orchestrator starts it again.                 *)
(*                                                                         *)
(* What the environment does to the replicas are faults: outages of the    *)
(* database and of the broker, killed processes, a port that is taken,     *)
(* and NATS subscriptions that end.  Their number is bounded.              *)
(***************************************************************************)
EXTENDS Naturals, FiniteSets

CONSTANTS
  Replicas,   \* the processes the deployment asks for
  MaxFaults   \* bound on the faults

ASSUME ProcessAssumption == MaxFaults \in Nat

VARIABLES
  main,      \* where main of each replica is
  pool,      \* the replicas whose pool is open
  http,      \* the goroutine of StartGoa
  events,    \* the goroutine of StartMessaging
  wg,        \* the counter of the wait group
  end,       \* how the last process of each replica ended
  schema,    \* whether table status_lists exists: "none" or "current"
  up,        \* which of the services they depend on can be reached
  faults     \* the number of faults so far

process == <<main, pool, http, events, wg, end>>
vars == <<process, schema, up, faults>>

Services == {"database", "broker"}
Main == {"down", "connect", "migrate", "wait"}
Http == {"off", "starting", "serving"}
Events == {"off", "starting", "replying", "ended"}

-------------------------------------------------------------------------------
(* The process ends, and with it its goroutines and its pool.              *)
Exit(r, how) ==
  /\ main' = [main EXCEPT ![r] = "down"]
  /\ pool' = pool \ {r}
  /\ http' = [http EXCEPT ![r] = "off"]
  /\ events' = [events EXCEPT ![r] = "off"]
  /\ wg' = [wg EXCEPT ![r] = 0]
  /\ end' = [end EXCEPT ![r] = how]

Fault == faults < MaxFaults /\ faults' = faults + 1

-------------------------------------------------------------------------------
(* main, up to wg.Wait().                                                  *)

(* The orchestrator starts a process; its configuration loads.             *)
Start(r) ==
  /\ main[r] = "down"
  /\ main' = [main EXCEPT ![r] = "connect"]
  /\ UNCHANGED <<pool, http, events, wg, end, schema, up, faults>>

Connect(r) ==
  /\ main[r] = "connect" /\ "database" \in up
  /\ pool' = pool \cup {r}
  /\ main' = [main EXCEPT ![r] = "migrate"]
  /\ UNCHANGED <<http, events, wg, end, schema, up, faults>>

(* ConnectRetry gives up after a minute: os.Exit(1).                       *)
ConnectFails(r) ==
  /\ main[r] = "connect" /\ "database" \notin up
  /\ Exit(r, "failed")
  /\ UNCHANGED <<schema, up, faults>>

(* Fault: one server is counted.                                           *)
ServersOfOne(r) ==
  /\ wg' = [wg EXCEPT ![r] = 1]
  /\ http' = [http EXCEPT ![r] = "starting"]
  /\ events' = [events EXCEPT ![r] = "starting"]
  /\ main' = [main EXCEPT ![r] = "wait"]
  /\ UNCHANGED <<pool, end>>

(* wg.Add(2), and the two goroutines.                                      *)
Servers(r) ==
  /\ wg' = [wg EXCEPT ![r] = 2]
  /\ http' = [http EXCEPT ![r] = "starting"]
  /\ events' = [events EXCEPT ![r] = "starting"]
  /\ main' = [main EXCEPT ![r] = "wait"]
  /\ UNCHANGED <<pool, end>>

Migrate(r) ==
  /\ main[r] = "migrate" /\ "database" \in up
  /\ schema' = "current"
  /\ Servers(r)
  /\ UNCHANGED <<up, faults>>

(* Fault: the error of the migration is logged.                            *)
MigrationErrorLogged(r) ==
  /\ main[r] = "migrate" /\ "database" \notin up
  /\ Servers(r)
  /\ UNCHANGED <<schema, up, faults>>

(* The pool is closed, and main ends in log.Fatalf; the connection may     *)
(* have been lost after the migration took effect.                         *)
MigrateFails(r) ==
  /\ main[r] = "migrate" /\ "database" \notin up
  /\ Exit(r, "failed")
  /\ schema' \in {schema, "current"}
  /\ UNCHANGED <<up, faults>>

-------------------------------------------------------------------------------
(* StartMessaging.                                                         *)

Subscribe(r) ==
  /\ events[r] = "starting" /\ "broker" \in up
  /\ events' = [events EXCEPT ![r] = "replying"]
  /\ UNCHANGED <<main, pool, http, wg, end, schema, up, faults>>

(* Fault: the goroutine returns instead of panicking.                      *)
SubscribeGivesUp(r) ==
  /\ events[r] = "starting" /\ "broker" \notin up
  /\ events' = [events EXCEPT ![r] = "off"]
  /\ UNCHANGED <<main, pool, http, wg, end, schema, up, faults>>

(* cloudeventprovider.New returns an error: panic.                         *)
SubscribeFails(r) ==
  /\ events[r] = "starting" /\ "broker" \notin up
  /\ Exit(r, "panicked")
  /\ UNCHANGED <<schema, up, faults>>

(* ReplyCtx returns an error ...                                           *)
ReplyFails(r) ==
  /\ events[r] = "replying" /\ Fault
  /\ Exit(r, "panicked")
  /\ UNCHANGED <<schema, up>>

(* ... or none: group.Done(), and main returns if that was the last one.   *)
ReplyEnds(r) ==
  /\ events[r] = "replying" /\ Fault
  /\ IF wg[r] = 1 THEN Exit(r, "returned")
     ELSE /\ events' = [events EXCEPT ![r] = "ended"]
          /\ wg' = [wg EXCEPT ![r] = @ - 1]
          /\ UNCHANGED <<main, pool, http, end>>
  /\ UNCHANGED <<schema, up>>

-------------------------------------------------------------------------------
(* StartGoa.  ListenAndServe returns only with an error: panic.            *)

Listen(r) ==
  /\ http[r] = "starting"
  /\ http' = [http EXCEPT ![r] = "serving"]
  /\ UNCHANGED <<main, pool, events, wg, end, schema, up, faults>>

ListenFails(r) ==
  /\ http[r] # "off" /\ Fault
  /\ Exit(r, "panicked")
  /\ UNCHANGED <<schema, up>>

-------------------------------------------------------------------------------
(* The environment.                                                        *)

(* A panic of a NATS handler, the orchestrator, a rolling update.          *)
Kill(r) ==
  /\ main[r] # "down" /\ Fault
  /\ Exit(r, "killed")
  /\ UNCHANGED <<schema, up>>

Outage(s) ==
  /\ s \in up /\ Fault
  /\ up' = up \ {s}
  /\ UNCHANGED <<process, schema>>

OutageEnds(s) ==
  /\ s \in Services \ up
  /\ up' = up \cup {s}
  /\ UNCHANGED <<process, schema, faults>>

-------------------------------------------------------------------------------
(* Nothing runs yet.                                                       *)
Init ==
  /\ main = [r \in Replicas |-> "down"]
  /\ pool = {}
  /\ http = [r \in Replicas |-> "off"]
  /\ events = [r \in Replicas |-> "off"]
  /\ wg = [r \in Replicas |-> 0]
  /\ end = [r \in Replicas |-> "killed"]
  /\ schema = "none"
  /\ up \in SUBSET Services
  /\ faults = 0

RunMain(r) ==
  Start(r) \/ Connect(r) \/ ConnectFails(r) \/ Migrate(r) \/ MigrateFails(r)

RunMessaging(r) == Subscribe(r) \/ SubscribeFails(r)

Environment ==
  \/ \E r \in Replicas : ReplyFails(r) \/ ReplyEnds(r) \/ ListenFails(r) \/ Kill(r)
  \/ \E s \in Services : Outage(s) \/ OutageEnds(s)

Next ==
  \/ \E r \in Replicas : RunMain(r) \/ RunMessaging(r) \/ Listen(r)
  \/ Environment

Spec == Init /\ [][Next]_vars

(* The goroutines run on, the orchestrator starts what is down, and each   *)
(* outage ends.                                                            *)
Fairness ==
  /\ \A r \in Replicas :
       WF_vars(RunMain(r)) /\ WF_vars(RunMessaging(r)) /\ WF_vars(Listen(r))
  /\ \A s \in Services : WF_vars(OutageEnds(s))

FairSpec == Spec /\ Fairness

-------------------------------------------------------------------------------
(* What an operator may rely on.                                           *)

ProcessTypeOK ==
  /\ main \in [Replicas -> Main]
  /\ http \in [Replicas -> Http] /\ events \in [Replicas -> Events]
  /\ wg \in [Replicas -> 0 .. 2]
  /\ end \in [Replicas -> {"failed", "panicked", "killed", "returned"}]
  /\ pool \subseteq Replicas
  /\ schema \in {"none", "current"} /\ up \subseteq Services
  /\ faults \in 0 .. MaxFaults

(* A handler of either server finds an open pool and table status_lists,   *)
(* whichever of the start-up steps failed and was repeated.                *)
HandlersHaveSchema ==
  \A r \in Replicas :
    http[r] = "serving" \/ events[r] = "replying" => r \in pool /\ schema = "current"

(* main never returns: the HTTP server ends in a panic only, so no replica *)
(* exits with status 0, which an orchestrator may take for finished work,  *)
(* and db.Close is never called while a handler runs.                      *)
NeverReturns == \A r \in Replicas : end[r] # "returned"

(* Both servers are started together, after main has opened the pool and   *)
(* migrated, and the wait group counts those that have not ended.          *)
StartedServers ==
  \A r \in Replicas :
    /\ main[r] \in {"migrate", "wait"} => r \in pool
    /\ main[r] # "wait" => http[r] = "off" /\ events[r] = "off"
    /\ main[r] = "wait" => /\ http[r] # "off" /\ events[r] # "off"
                          /\ schema = "current"
                          /\ wg[r] = IF events[r] = "ended" THEN 1 ELSE 2

ProcessInv == ProcessTypeOK /\ StartedServers /\ NeverReturns

(* After any outages and crashes each replica serves HTTP and handles      *)
(* events again; but not if its subscription ended without an error: that  *)
(* leaves a process that serves HTTP only.                                 *)
Recovers ==
  \A r \in Replicas :
    []<>(http[r] = "serving" /\ events[r] \in {"replying", "ended"})

===============================================================================
