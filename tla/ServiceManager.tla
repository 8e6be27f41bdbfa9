--------------------------- MODULE ServiceManager ---------------------------
(***************************************************************************)
(* The service requests of abb: abb/endpoints.go serves each one on its own *)
(* goroutine, abb/services.go reads and writes the table `services` and     *)
(* calls the Docker API of the cluster.  No lock and no transaction spans   *)
(* two of those calls, so every call is a step of its own.                  *)
(***************************************************************************)
EXTENDS Naturals, FiniteSets

CONSTANTS
    Requests,     \* the requests; the row a create request inserts has its id
    Seed,         \* id of the row that is in the table at the start
    Names,        \* names of services
    NoRow,        \* no such row in the table
    NoSvc,        \* no such service in the swarm
    MaxInFlight,  \* how many requests are served at a time
    MaxFaults,    \* how many calls fail and how often the process dies
    CanMove       \* whether a client saves a row under a new name or cluster

Ids == Requests \cup {Seed}

(* A row; its specification is known by the number of the save that wrote   *)
(* it (updated_at), `here` is whether cluster_id is the requests' cluster.  *)
Row == [name : Names, here : BOOLEAN, spec : Nat]

(* What ServiceGetByID returns of a row. *)
Snapshot == [id : Ids, name : Names, spec : Nat]

(* A swarm service; force is its ForceUpdate counter, networks whether it   *)
(* is attached to the networks its row names.                               *)
Service == [id : Nat, version : Nat, force : Nat, spec : Nat, networks : BOOLEAN]

Ops == {"create", "save", "stop", "delete", "redeploy", "get"}

Calls == {"Insert", "FindOne", "ServiceList", "TaskList", "Update", "Lists",
          "Inspect", "ServiceCreate", "ServiceUpdate", "ServiceRemove",
          "Delete", "Log", "LogFailure"}

Answers == {"200", "refused", "not_found", "failed", "lost"}

(* op, the operation; key, the service_id of its URL; again, whether the    *)
(* manager reads the row a second time; svc, the row it read last; seen,    *)
(* the specification its endpoint read; listed, the id ServiceList gave;    *)
(* old, the service Redeploy inspected; networks and refs, see Lists.       *)
Locals == [op : Ops, key : Ids \cup Names, again : BOOLEAN,
           svc : Snapshot \cup {NoRow}, seen : Nat, listed : Nat,
           old : Service \cup {NoSvc}, networks : BOOLEAN, refs : BOOLEAN]

(* An audit event: action, TargetID and state. *)
Events == [action : Ops, target : Ids \cup Names, state : {"SUCCESS", "FAILED"}]

ASSUME IdsAssumption ==
    /\ Seed \notin Requests
    /\ Ids \cap Names = {}
ASSUME NullAssumption ==
    /\ NoRow \notin Row \cup Snapshot
    /\ NoSvc \notin Service
ASSUME BoundsAssumption ==
    /\ MaxInFlight \in Nat /\ MaxFaults \in Nat /\ CanMove \in BOOLEAN

VARIABLES
    rows,     \* the table services: id -> row or NoRow
    saves,    \* how many times a row was written
    saved,    \* history: the <<name, spec>> ever written for this cluster
    swarm,    \* name -> service or NoSvc
    index,    \* the swarm's write counter, which numbers ids and versions
    running,  \* the ids of the services that have a running task
    audit,    \* the audit events
    faults,   \* failed calls and crashes so far
    pc,       \* the call each request makes next, or its answer
    loc       \* the locals of each request

dbVars    == <<rows, saves, saved>>
swarmVars == <<swarm, index, running>>
vars      == <<dbVars, swarmVars, audit, faults, pc, loc>>

Blank == [op |-> "get", key |-> Seed, again |-> FALSE, svc |-> NoRow,
          seen |-> 0, listed |-> 0, old |-> NoSvc, networks |-> FALSE, refs |-> FALSE]

Init ==
    /\ \E n \in Names :
        /\ rows = [i \in Ids |->
              IF i = Seed THEN [name |-> n, here |-> TRUE, spec |-> 1] ELSE NoRow]
        /\ saved = {<<n, 1>>}
        /\ \/ swarm = [m \in Names |-> NoSvc]
           \/ swarm = [m \in Names |->
                 IF m = n THEN [id |-> 1, version |-> 1, force |-> 0, spec |-> 1,
                                networks |-> TRUE]
                          ELSE NoSvc]
    /\ saves = 1 /\ index = 1 /\ running = {}
    /\ audit = {} /\ faults = 0
    /\ pc = [r \in Requests |-> "idle"]
    /\ loc = [r \in Requests |-> Blank]

-----------------------------------------------------------------------------
(* Parts of the steps *)

Fault == faults < MaxFaults /\ faults' = faults + 1

Active == {r \in Requests : pc[r] \in Calls}

Goto(r, call) == pc' = [pc EXCEPT ![r] = call]

(* The response is sent and the locals are gone. *)
Answer(r, answer) ==
    /\ Goto(r, answer)
    /\ loc' = [loc EXCEPT ![r] = Blank]

(* The call fails before it has any effect, and the request with it. *)
Fails(r) ==
    /\ Fault /\ Answer(r, "failed")
    /\ UNCHANGED <<dbVars, swarmVars, audit>>

(* The effect of a write, and whether its caller learns of it: the write may *)
(* be done although the call returns an error.                               *)
Outcome(r, call) ==
    \/ Goto(r, call) /\ UNCHANGED <<faults, loc>>
    \/ Fault /\ Answer(r, "failed")

(* Slips the runs must catch, each next to the definition it would change:  *)
(* a save that inserts the row it does not find; a second read that forgets *)
(* the cluster; a delete that takes the row before the service; a redeploy  *)
(* of the inspected specification, or with a counter that starts again, or  *)
(* with networks that are not listed; an event with the call for its state. *)
AffectedAlways(i) == i \in Ids
MatchesAnyCluster(k) == {i \in Ids : rows[i] # NoRow /\ (i = k \/ rows[i].name = k)}

(* UPDATE ... WHERE id changes a row only if it is still there. *)
Affected(i) == rows[i] # NoRow

(* The row of the cluster with the id k, or else with the name k. *)
Matches(k) ==
    {i \in Ids : rows[i] # NoRow /\ rows[i].here /\ (i = k \/ rows[i].name = k)}

NameTaken(n, i) == \E j \in Ids \ {i} : rows[j] # NoRow /\ rows[j].name = n

(* Insert and Update write the whole row. *)
Write(i, n, here) ==
    /\ saves' = saves + 1
    /\ rows' = [rows EXCEPT ![i] = [name |-> n, here |-> here, spec |-> saves + 1]]
    /\ saved' = IF here THEN saved \cup {<<n, saves + 1>>} ELSE saved

(* The row a save request writes: the name and cluster_id of its body.      *)
Bodies(n) == IF CanMove THEN Names \X BOOLEAN ELSE {<<n, TRUE>>}

-----------------------------------------------------------------------------
(* ServiceGetByID, called by an endpoint and (again) by the manager *)

Start(r) ==
    /\ pc[r] = "idle"
    /\ Cardinality(Active) < MaxInFlight
    /\ \E op \in Ops, key \in Ids \cup Names :
          /\ loc' = [loc EXCEPT ![r].op = op, ![r].key = key]
          /\ Goto(r, IF op = "create" THEN "Insert" ELSE "FindOne")
    /\ UNCHANGED <<dbVars, swarmVars, audit, faults>>

(* DAO Find logs a failed SELECT and returns no rows, so a fault reads as   *)
(* "not found"; the manager's second read then dereferences nil.            *)
FindOne(r) ==
    /\ pc[r] = "FindOne"
    /\ \/ \E i \in Matches(loc[r].key) :
             /\ loc' = [loc EXCEPT
                   ![r].svc = [id |-> i, name |-> rows[i].name, spec |-> rows[i].spec],
                   ![r].seen = IF loc[r].again THEN @ ELSE rows[i].spec]
             /\ Goto(r, "ServiceList")
             /\ UNCHANGED faults
       \/ /\ \/ Matches(loc[r].key) = {} /\ UNCHANGED faults
             \/ Fault
          /\ Answer(r, IF loc[r].again THEN "failed" ELSE "not_found")
    /\ UNCHANGED <<dbVars, swarmVars, audit>>

(* deploymentStatusList: NodeList and ServiceList, then TaskList; an error  *)
(* of any of them panics.                                                   *)
ServiceList(r) ==
    /\ pc[r] = "ServiceList"
    /\ \/ /\ loc' = [loc EXCEPT ![r].listed =
                IF swarm[loc[r].svc.name] = NoSvc THEN 0
                                                  ELSE swarm[loc[r].svc.name].id]
          /\ Goto(r, "TaskList")
          /\ UNCHANGED <<dbVars, swarmVars, audit, faults>>
       \/ Fails(r)

(* AvailableReplicas > 0: the listed service has a running task. *)
Available(r) == loc[r].listed \in running

(* The check of ServiceDelete; the other operations ignore the status. *)
MayProceed(r) == loc[r].op = "delete" => ~Available(r)

NextCallRowFirst(r) ==
    IF loc[r].again
    THEN CASE loc[r].op = "redeploy" -> "Inspect"
           [] loc[r].op = "delete" -> "Delete"
           [] OTHER -> "ServiceRemove"
    ELSE CASE loc[r].op = "save" -> "Update"
           [] loc[r].op = "redeploy" -> "Lists"
           [] OTHER -> "FindOne"

(* What the endpoint does with the row, and what the manager does with it.  *)
NextCall(r) ==
    IF loc[r].again
    THEN IF loc[r].op = "redeploy" THEN "Inspect" ELSE "ServiceRemove"
    ELSE CASE loc[r].op = "save" -> "Update"
           [] loc[r].op = "redeploy" -> "Lists"
           [] OTHER -> "FindOne"

TaskList(r) ==
    /\ pc[r] = "TaskList"
    /\ \/ /\ \/ /\ loc[r].op = "get"
                /\ Answer(r, "200")
             \/ /\ loc[r].op # "get"
                /\ ~loc[r].again \/ MayProceed(r)
                /\ Goto(r, NextCall(r))
                /\ loc' = [loc EXCEPT ![r].again = loc[r].op # "redeploy" \/ @,
                                      ![r].listed = 0]
             \/ /\ loc[r].again /\ ~MayProceed(r)
                /\ Answer(r, "refused")
          /\ UNCHANGED <<dbVars, swarmVars, audit, faults>>
       \/ Fails(r)

-----------------------------------------------------------------------------
(* serviceCreateEndpoint, serviceUpdateEndpoint *)

Insert(r) ==
    /\ pc[r] = "Insert"
    /\ \/ \E n \in Names : \E body \in Bodies(n) :
             \/ /\ ~NameTaken(body[1], r)
                /\ Write(r, body[1], body[2])
                /\ \/ /\ Goto(r, "Log")
                      /\ loc' = [loc EXCEPT ![r].svc =
                            [id |-> r, name |-> body[1], spec |-> saves + 1]]
                      /\ UNCHANGED faults
                   \/ Fault /\ Answer(r, "failed")
                /\ UNCHANGED <<swarmVars, audit>>
             \/ /\ NameTaken(body[1], r)
                /\ Answer(r, "refused")
                /\ UNCHANGED <<dbVars, swarmVars, audit, faults>>
       \/ Fails(r)

Update(r) ==
    /\ pc[r] = "Update"
    /\ \/ \E body \in Bodies(loc[r].svc.name) :
             \/ /\ Affected(loc[r].svc.id)
                /\ ~NameTaken(body[1], loc[r].svc.id)
                /\ Write(loc[r].svc.id, body[1], body[2])
                /\ Outcome(r, "Log")
             \/ /\ ~Affected(loc[r].svc.id)
                /\ Goto(r, "Log")
                /\ UNCHANGED <<dbVars, faults, loc>>
             \/ /\ Affected(loc[r].svc.id)
                /\ NameTaken(body[1], loc[r].svc.id)
                /\ Answer(r, "failed")
                /\ UNCHANGED <<dbVars, faults>>
          /\ UNCHANGED <<swarmVars, audit>>
       \/ Fails(r)

-----------------------------------------------------------------------------
(* Redeploy *)

(* NetworkList, ConfigList and SecretList.  Their errors are overwritten, so *)
(* a list that failed reads like one that lacks what the row names.  A      *)
(* network that is not listed is left out of the specification, a secret or *)
(* config that is not stays in it without an id.  networks: every network   *)
(* is listed; refs: every secret and config is.                             *)
Lists(r) ==
    /\ pc[r] = "Lists"
    /\ \E networks, refs \in BOOLEAN :
          loc' = [loc EXCEPT ![r].networks = networks, ![r].refs = refs, ![r].again = TRUE]
    /\ Goto(r, "FindOne")
    /\ UNCHANGED <<dbVars, swarmVars, audit, faults>>

Inspect(r) ==
    /\ pc[r] = "Inspect"
    /\ \/ /\ loc' = [loc EXCEPT ![r].old = swarm[loc[r].svc.name]]
          /\ Goto(r, IF swarm[loc[r].svc.name] = NoSvc THEN "ServiceCreate"
                                                       ELSE "ServiceUpdate")
          /\ UNCHANGED <<dbVars, swarmVars, audit, faults>>
       \/ Fails(r)

DeployedOldSpec(r, id, force) ==
    [id |-> id, version |-> index + 1, force |-> force,
     spec |-> IF loc[r].old = NoSvc THEN loc[r].svc.spec ELSE loc[r].old.spec,
     networks |-> loc[r].networks]
DeployedForceReset(r, id, force) ==
    [id |-> id, version |-> index + 1, force |-> 0, spec |-> loc[r].svc.spec,
     networks |-> loc[r].networks]
DeployedAllNetworks(r, id, force) ==
    [id |-> id, version |-> index + 1, force |-> force, spec |-> loc[r].svc.spec,
     networks |-> TRUE]

(* The service as newDockerServiceSpec makes it of the row and the lists.   *)
Deployed(r, id, force) ==
    [id |-> id, version |-> index + 1, force |-> force, spec |-> loc[r].svc.spec,
     networks |-> loc[r].networks]

Deploy(r, service) ==
    /\ index' = index + 1
    /\ swarm' = [swarm EXCEPT ![loc[r].svc.name] = service]

(* The swarm refuses a name in use and a secret or config without an id; a  *)
(* service without networks it accepts.                                     *)
CreateAccepted(r) == swarm[loc[r].svc.name] = NoSvc /\ loc[r].refs

ServiceCreate(r) ==
    /\ pc[r] = "ServiceCreate"
    /\ \/ /\ CreateAccepted(r)
          /\ Deploy(r, Deployed(r, index + 1, 0))
          /\ Outcome(r, "Log")
          /\ UNCHANGED <<dbVars, running, audit>>
       \/ /\ ~CreateAccepted(r)
          /\ Answer(r, "failed")
          /\ UNCHANGED <<dbVars, swarmVars, audit, faults>>
       \/ Fails(r)

(* The swarm refuses an update that does not name the current version. *)
UpdateAccepted(r) ==
    /\ swarm[loc[r].svc.name] # NoSvc
    /\ swarm[loc[r].svc.name].id = loc[r].old.id
    /\ swarm[loc[r].svc.name].version = loc[r].old.version
    /\ loc[r].refs

ServiceUpdate(r) ==
    /\ pc[r] = "ServiceUpdate"
    /\ \/ /\ UpdateAccepted(r)
          /\ Deploy(r, Deployed(r, loc[r].old.id, loc[r].old.force + 1))
          /\ Outcome(r, "Log")
          /\ UNCHANGED <<dbVars, running, audit>>
       \/ /\ ~UpdateAccepted(r)
          /\ Answer(r, "failed")
          /\ UNCHANGED <<dbVars, swarmVars, audit, faults>>
       \/ Fails(r)

-----------------------------------------------------------------------------
(* ServiceStop, ServiceDelete *)

(* The next call after ServiceRemove; serviceStopEndpoint audits an error.  *)
AfterRemove(r) == IF loc[r].op = "delete" THEN "Delete" ELSE "Log"

ServiceRemove(r) ==
    /\ pc[r] = "ServiceRemove"
    /\ \/ /\ swarm[loc[r].svc.name] # NoSvc
          /\ swarm' = [swarm EXCEPT ![loc[r].svc.name] = NoSvc]
          /\ running' = running \ {swarm[loc[r].svc.name].id}
          /\ \/ Goto(r, AfterRemove(r)) /\ UNCHANGED <<faults, loc>>
             \/ /\ Fault
                /\ \/ loc[r].op = "delete" /\ Answer(r, "failed")
                   \/ loc[r].op = "stop" /\ Goto(r, "LogFailure") /\ UNCHANGED loc
          /\ UNCHANGED <<dbVars, index, audit>>
       \/ /\ swarm[loc[r].svc.name] = NoSvc
          /\ Goto(r, IF loc[r].op = "delete" THEN "Delete" ELSE "LogFailure")
          /\ UNCHANGED <<dbVars, swarmVars, audit, faults, loc>>
       \/ loc[r].op = "delete" /\ Fails(r)
       \/ /\ loc[r].op = "stop" /\ Fault
          /\ Goto(r, "LogFailure")
          /\ UNCHANGED <<dbVars, swarmVars, audit, loc>>

Delete(r) ==
    /\ pc[r] = "Delete"
    /\ \/ /\ rows' = [rows EXCEPT ![loc[r].svc.id] = NoRow]
          /\ Outcome(r, "Log")
          /\ UNCHANGED <<saves, saved, swarmVars, audit>>
       \/ Fails(r)

-----------------------------------------------------------------------------
(* The audit event, and the answer; an error of audit.Log is ignored *)

EventCall(r, state) ==
    [action |-> loc[r].op,
     target |-> IF loc[r].op = "create" THEN loc[r].svc.name ELSE loc[r].key,
     state  |-> pc[r]]

Event(r, state) ==
    [action |-> loc[r].op,
     target |-> IF loc[r].op = "create" THEN loc[r].svc.name ELSE loc[r].key,
     state  |-> state]

Log(r) ==
    /\ pc[r] \in {"Log", "LogFailure"}
    /\ \/ /\ audit' = audit \cup {Event(r, IF pc[r] = "Log" THEN "SUCCESS" ELSE "FAILED")}
          /\ UNCHANGED faults
       \/ Fault /\ UNCHANGED audit
    /\ Answer(r, IF pc[r] = "Log" THEN "200" ELSE "failed")
    /\ UNCHANGED <<dbVars, swarmVars>>

-----------------------------------------------------------------------------
(* The process dies and is started again: every request in flight is lost.  *)
Crash ==
    /\ Active # {} /\ Fault
    /\ pc' = [r \in Requests |-> IF r \in Active THEN "lost" ELSE pc[r]]
    /\ loc' = [r \in Requests |-> IF r \in Active THEN Blank ELSE loc[r]]
    /\ UNCHANGED <<dbVars, swarmVars, audit>>

(* The swarm starts the tasks of a service, or its last one ends. *)
TasksChange(n) ==
    /\ swarm[n] # NoSvc
    /\ running' \in {running \cup {swarm[n].id}, running \ {swarm[n].id}}
    /\ UNCHANGED <<dbVars, swarm, index, audit, faults, pc, loc>>

Next ==
    \/ \E r \in Requests :
          \/ Start(r) \/ FindOne(r) \/ ServiceList(r) \/ TaskList(r)
          \/ Insert(r) \/ Update(r)
          \/ Lists(r) \/ Inspect(r) \/ ServiceCreate(r) \/ ServiceUpdate(r)
          \/ ServiceRemove(r) \/ Delete(r) \/ Log(r)
    \/ Crash
    \/ \E n \in Names : TasksChange(n)

Spec == Init /\ [][Next]_vars

-----------------------------------------------------------------------------
(* Properties *)

(* Type invariant: the shapes of the table, of the swarm and of the locals. *)
TypeOK ==
    /\ rows \in [Ids -> Row \cup {NoRow}]
    /\ saves \in Nat /\ saved \in SUBSET (Names \X Nat)
    /\ swarm \in [Names -> Service \cup {NoSvc}]
    /\ index \in Nat /\ running \in SUBSET Nat /\ faults \in Nat
    /\ audit \in SUBSET Events
    /\ pc \in [Requests -> {"idle"} \cup Calls \cup Answers]
    /\ loc \in [Requests -> Locals]

D == INSTANCE Deployment WITH deployed <- swarm

(* Whatever the overlap, the failures and the crashes, the swarm changes as *)
(* if every redeploy were one step: it runs a specification saved under that *)
(* name, perhaps without its networks (services.go:86-96), and each redeploy *)
(* of a running service that the swarm takes raises ForceUpdate by one, so  *)
(* none is swallowed (Redeploy passes the version it inspected, 507-509).   *)
ImplementsDeployment == D!Spec

(* A row whose deletion is audited as done stays deleted: a save that found *)
(* the row before and writes it after the deletion does not bring it back.  *)
DeletedStayDeleted ==
    \A e \in audit :
        e.action = "delete" /\ e.state = "SUCCESS" /\ e.target \in Ids
            => rows[e.target] = NoRow

(* A redeploy never deploys a specification older than the one its endpoint *)
(* found when the request came in, although the manager reads it again and  *)
(* the row may be saved, renamed or replaced between the two reads.         *)
DeploysNotOlder ==
    [][\A r \in Requests :
          pc[r] \in {"ServiceCreate", "ServiceUpdate"} /\ pc'[r] # pc[r] /\ swarm' # swarm
              => swarm'[loc[r].svc.name].spec >= loc[r].seen]_vars

(* Served one at a time and without renames, requests leave no service in   *)
(* the swarm that has no row, even if calls fail and the process dies:      *)
(* ServiceDelete removes the service before it deletes the row.             *)
NoOrphans ==
    \A n \in Names :
        swarm[n] # NoSvc => \E i \in Ids : rows[i] # NoRow /\ rows[i].name = n

(* Served one at a time, a redeploy that is about to be audited as SUCCESS  *)
(* runs what the row holds, all of its secrets and configs found, and       *)
(* attached to its networks just if they were listed: a list that fails     *)
(* takes them off a service that had them (services.go:86-96 and 471).      *)
RedeployRunsLatest ==
    \A r \in Requests :
        pc[r] = "Log" /\ loc[r].op = "redeploy"
            => /\ rows[loc[r].svc.id] # NoRow
               /\ swarm[loc[r].svc.name] # NoSvc
               /\ swarm[loc[r].svc.name].spec = rows[loc[r].svc.id].spec
               /\ swarm[loc[r].svc.name].networks = loc[r].networks
               /\ loc[r].refs

R == INSTANCE Registry WITH deployed <- swarm

(* Served one at a time and without renames, the table and the swarm change *)
(* together: however the calls of a request fail and wherever the process   *)
(* dies between two of them, what is left is what whole steps of a registry *)
(* leave (ServiceDelete, services.go:517-545, is a stop and then a removal).*)
ImplementsRegistry == R!RegistrySpec

(* What makes ImplementsDeployment and DeletedStayDeleted inductive.  A row *)
(* and the row a request holds were saved under their name; a version names *)
(* one state of one service, so an inspected service whose version is still *)
(* current is still the current one; the row of a delete that got that far  *)
(* is gone; and the id of a row to come is in no row, request or event.     *)
HoldsRow == {"ServiceList", "TaskList", "Update", "Lists", "Inspect",
             "ServiceCreate", "ServiceUpdate", "ServiceRemove", "Delete"}

SavedRows ==
    /\ \A p \in saved : p[2] \in 1..saves
    /\ \A i \in Ids : rows[i] # NoRow /\ rows[i].here
          => <<rows[i].name, rows[i].spec>> \in saved
    /\ \A r \in Requests : pc[r] \in HoldsRow \cup {"Log", "LogFailure"}
          => loc[r].svc # NoRow
    /\ \A r \in Requests : pc[r] \in HoldsRow
          => <<loc[r].svc.name, loc[r].svc.spec>> \in saved

VersionLock ==
    /\ \A n \in Names : swarm[n] # NoSvc => swarm[n].version <= index
    /\ \A r \in Requests : pc[r] = "ServiceUpdate"
          => /\ loc[r].old # NoSvc
             /\ loc[r].old.version <= index
             /\ \/ swarm[loc[r].svc.name] = NoSvc
                \/ swarm[loc[r].svc.name].version # loc[r].old.version
                \/ swarm[loc[r].svc.name] = loc[r].old

DeletedRows ==
    \A r \in Requests : loc[r].op = "delete"
        => /\ pc[r] \notin {"Insert", "Update", "Lists", "Inspect", "ServiceCreate", "ServiceUpdate"}
           /\ loc[r].key \in Ids
                => /\ loc[r].svc # NoRow => loc[r].svc.id = loc[r].key
                   /\ pc[r] = "Log" => rows[loc[r].key] = NoRow

FreshIds ==
    \A r \in Requests : pc[r] \in {"idle", "Insert"}
        => /\ rows[r] = NoRow /\ loc[r].svc = NoRow
           /\ \A q \in Requests : loc[q].svc # NoRow => loc[q].svc.id # r
           /\ \A e \in audit : ~(e.action = "delete" /\ e.state = "SUCCESS" /\ e.target = r)

Inductive ==
    TypeOK /\ SavedRows /\ VersionLock /\ DeletedRows /\ FreshIds /\ DeletedStayDeleted

(* What makes DeploysNotOlder inductive.  A name is in one row, so a row    *)
(* that has come to match a request's key since its endpoint read it was    *)
(* written since, and is newer than what the endpoint saw.                  *)
Sees(l) ==
    /\ l.seen <= saves
    /\ l.svc # NoRow => l.seen <= l.svc.spec
    /\ \A i \in Ids :
          rows[i] # NoRow /\ (i = l.key \/ rows[i].name = l.key) => l.seen <= rows[i].spec

NamesUnique ==
    /\ \A i \in Ids : rows[i] # NoRow => rows[i].spec <= saves
    /\ \A i, j \in Ids :
          rows[i] # NoRow /\ rows[j] # NoRow /\ rows[i].name = rows[j].name => i = j

NewestSeen ==
    NamesUnique /\ \A r \in Requests : Sees(loc[r]) /\ (pc[r] = "idle" => loc[r].seen = 0)

(* services.go:526 "ensure the service is stop": ServiceDelete removes no   *)
(* service that has a running task.                                         *)
DeleteOnlyStopped ==
    [][\A r \in Requests :
          pc[r] = "ServiceRemove" /\ loc[r].op = "delete" /\ swarm' # swarm /\ pc'[r] # pc[r]
              => swarm[loc[r].svc.name].id \notin running]_vars

(* services.go:146 "secretID and SecretName are mandatory, we have invalid  *)
(* references without them" (and 175 for configs): a specification sent to  *)
(* the swarm has the id of every secret and config it names.                *)
ReferencesHaveIds ==
    \A r \in Requests : pc[r] \in {"ServiceCreate", "ServiceUpdate"} => loc[r].refs
=============================================================================
