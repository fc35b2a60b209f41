-------------------------- MODULE StatusProcessProofs --------------------------
(***************************************************************************)
(* The safety of the life of the replicas, for any number of replicas,     *)
(* outages and crashes.                                                    *)
(***************************************************************************)
EXTENDS StatusProcess, TLAPS

LEMMA InitInv == Init => ProcessInv
BY ProcessAssumption
   DEF Init, ProcessInv, ProcessTypeOK, StartedServers, NeverReturns, Main, Http, Events

(* A process that ends leaves nothing behind, and the others as they are.  *)
LEMMA ExitKeepsInv ==
  ASSUME ProcessInv, NEW r \in Replicas, NEW how \in {"failed", "panicked", "killed"},
         Exit(r, how), schema' \in {schema, "current"}, up' \subseteq Services,
         faults' \in 0 .. MaxFaults
  PROVE  ProcessInv'
BY DEF Exit, ProcessInv, ProcessTypeOK, StartedServers, NeverReturns, Main, Http, Events

LEMMA FaultCounts == ProcessInv /\ Fault => faults' \in 0 .. MaxFaults
BY ProcessAssumption DEF ProcessInv, ProcessTypeOK, Fault

(* No step of main, of a server or of the environment breaks the           *)
(* invariant.                                                              *)
LEMMA StepKeepsInv == ProcessInv /\ [Next]_vars => ProcessInv'
<1>. SUFFICES ASSUME ProcessInv, [Next]_vars PROVE ProcessInv'
  OBVIOUS
<1>. USE DEF ProcessInv, ProcessTypeOK, StartedServers, NeverReturns, Main, Http, Events
<1>1. ASSUME NEW r \in Replicas, Start(r) PROVE ProcessInv'
  BY <1>1 DEF Start
<1>2. ASSUME NEW r \in Replicas, Connect(r) PROVE ProcessInv'
  BY <1>2 DEF Connect
<1>3. ASSUME NEW r \in Replicas, ConnectFails(r) \/ MigrateFails(r) \/ SubscribeFails(r)
      PROVE  ProcessInv'
  BY <1>3, ExitKeepsInv DEF ConnectFails, MigrateFails, SubscribeFails
<1>4. ASSUME NEW r \in Replicas, Migrate(r) PROVE ProcessInv'
  BY <1>4 DEF Migrate, Servers
<1>5. ASSUME NEW r \in Replicas, Subscribe(r) PROVE ProcessInv'
  BY <1>5 DEF Subscribe
<1>6. ASSUME NEW r \in Replicas, Listen(r) PROVE ProcessInv'
  BY <1>6 DEF Listen
<1>7. ASSUME NEW r \in Replicas, ReplyFails(r) \/ ListenFails(r) \/ Kill(r)
      PROVE  ProcessInv'
  BY <1>7, ExitKeepsInv, FaultCounts DEF ReplyFails, ListenFails, Kill
<1>8. ASSUME NEW r \in Replicas, ReplyEnds(r) PROVE ProcessInv'
  <2>1. wg[r] = 2
    BY <1>8 DEF ReplyEnds
  <2>2. faults' \in 0 .. MaxFaults
    BY <1>8, FaultCounts DEF ReplyEnds
  <2>. QED  BY <1>8, <2>1, <2>2 DEF ReplyEnds
<1>9. ASSUME NEW s \in Services, Outage(s) \/ OutageEnds(s) PROVE ProcessInv'
  <2>1. faults' \in 0 .. MaxFaults
    BY <1>9, FaultCounts DEF Outage, OutageEnds
  <2>. QED
    BY <1>9, <2>1 DEF Outage, OutageEnds, process
<1>10. CASE UNCHANGED vars
  BY <1>10 DEF vars, process
<1>. QED
  BY <1>1, <1>2, <1>3, <1>4, <1>5, <1>6, <1>7, <1>8, <1>9, <1>10
     DEF Next, RunMain, RunMessaging, Environment

THEOREM ProcessInvariant == Spec => []ProcessInv
BY InitInv, StepKeepsInv, PTL DEF Spec

(* Every handler of a replica, of either server, runs with an open pool    *)
(* and after a migration that took effect.                                 *)
THEOREM HandlersFindSchema == Spec => []HandlersHaveSchema
<1>1. ProcessInv => HandlersHaveSchema
  BY DEF ProcessInv, StartedServers, HandlersHaveSchema
<1>. QED  BY <1>1, ProcessInvariant, PTL

(* The wait group never reaches zero.                                      *)
THEOREM MainNeverReturns == Spec => []NeverReturns
<1>1. ProcessInv => NeverReturns
  BY DEF ProcessInv
<1>. QED  BY <1>1, ProcessInvariant, PTL

===============================================================================
