--------------------------- MODULE ClusterRequests ---------------------------
(***************************************************************************)
(* The requests under /v1/clusters (abb/endpoints.go) that look their       *)
(* cluster up and then work on its swarm or on its health checks: each is a *)
(* goroutine that makes one call of the database or of Docker after the     *)
(* other, while other requests and other users of the swarm make theirs.    *)
(* Swarms of different clusters share nothing, so the swarm of one, Home,   *)
(* stands for all; the tables are shared.  What the requests on services do *)
(* to the table `services` and to the swarm is module ServiceManager; here  *)
(* services and tasks change as the swarm likes.                            *)
(***************************************************************************)
EXTENDS Naturals, FiniteSets

CONSTANTS
    Requests,    \* the requests, each served once
    Clusters,    \* the names of clusters; the index of names is unique
    Home,        \* the cluster whose swarm is modelled
    Zero, Nil,   \* the cluster without fields, and no cluster
    Nodes, Tasks, Configs,  \* what the swarm of Home may hold
    MaxTries,    \* how often a look-up is tried: 10
    MaxFaults,   \* how many calls fail and how often the process dies
    MaxChanges   \* how often others change the swarm

ASSUME NamesAssumption == Home \in Clusters /\ Zero \notin Clusters /\ Nil \notin Clusters /\ Zero # Nil
ASSUME BoundsAssumption == MaxTries \in Nat \ {0} /\ MaxFaults \in Nat /\ MaxChanges \in Nat
ASSUME SwarmAssumption == IsFiniteSet(Tasks) /\ Nodes # {}

CheckOps == {"checkCreate", "checkList"}
Ops == CheckOps \cup {"clusterCreate", "nodeUpdate", "serviceList", "taskList",
                      "raw", "logs", "configCreate", "configDelete", "view"}

(* A node's version grows with every change of it; spec is the version its  *)
(* specification was written at, and up says that its state is not "down",  *)
(* which is what the code calls ready or active.  A task of service 0 does not exist, nor   *)
(* does service 0.                                                          *)
NodeStates == [version : Nat, spec : Nat, up : BOOLEAN]
TaskStates == [service : Nat, node : Nodes, running : BOOLEAN, shutdown : BOOLEAN]
Services   == [id : Nat, global : BOOLEAN, replicas : Nat]

(* A row of the table healthcheck; for the properties, the cluster its      *)
(* request asked for and the bad connections it met.                        *)
Checks == [by : Requests, cluster : Clusters \cup {Zero},
           asked : Clusters, tries : 0..MaxTries]

(* An audit event of a creation. *)
Events == [by : Requests, op : {"clusterCreate", "checkCreate"}, asked : Clusters]

Statuses == [service : Nat, available : SUBSET Tasks, replicas : Nat]

Locals == [op : Ops, asked : Clusters, tries : 0..MaxTries,
           cluster : Clusters \cup {Zero, Nil}, node : Nodes, inspected : NodeStates,
           ready : SUBSET Nodes, svc : Services, status : Statuses,
           checks : SUBSET Checks]

LookUp == {"Prepare", "Get"}
DockerCalls == {"NodeInspect", "NodeUpdate", "Refresh", "NodeList", "ServiceList",
                "TaskList", "ServiceInspect", "ServiceLogs", "ConfigCreate",
                "ConfigRemove", "Inspect"}
Calls == LookUp \cup DockerCalls \cup
         {"InsertCluster", "InsertCheck", "FindChecks", "Find", "Log", "Respond"}
Answers == {"answered", "refused", "failed", "lost"}

VARIABLES
    clusters,  \* the names in the table clusters
    checks,    \* the table healthcheck
    nodes, service, tasks, configs,  \* the swarm of Home
    ids,       \* the id of the last service made
    events,    \* the audit log of creations
    pc,        \* the call each request makes next, or its answer
    loc,       \* the locals of each request
    faults, changes,  \* failed calls and crashes, and changes by others, so far
    hist       \* history: what became of each request's view of the swarm

(* made, the version of the specification its update wrote, over, the one   *)
(* it replaced, and based, the one it had inspected; steady and seen, the   *)
(* tasks up ever since it listed the nodes and at some time since.          *)
Histories == [made : Nat, over : Nat, based : Nat,
              steady : SUBSET (Tasks \X Nat), seen : SUBSET (Tasks \X Nat)]

db     == <<clusters, checks, events>>
swarm  == <<nodes, service, tasks, configs, ids>>
vars   == <<db, swarm, pc, loc, faults, changes, hist>>

NoService == [id |-> 0, global |-> FALSE, replicas |-> 0]
NoStatus  == [service |-> 0, available |-> {}, replicas |-> 0]
NoHistory == [made |-> 0, over |-> 0, based |-> 0, steady |-> {}, seen |-> {}]

Blank(n) == [op |-> "view", asked |-> Home, tries |-> 0, cluster |-> Nil, node |-> n,
             inspected |-> [version |-> 0, spec |-> 0, up |-> FALSE],
             ready |-> {}, svc |-> NoService, status |-> NoStatus, checks |-> {}]

(* The tables of a set-up abb, and a swarm that runs one service.           *)
Init ==
    /\ clusters \in {{}, {Home}} /\ checks = {} /\ events = {}
    /\ nodes = [n \in Nodes |-> [version |-> 1, spec |-> 1, up |-> TRUE]]
    /\ \E global \in BOOLEAN :
          service = [id |-> 1, global |-> global, replicas |-> 1]
    /\ \E place \in [Tasks -> Nodes] :
          tasks = [t \in Tasks |-> [service |-> 1, node |-> place[t],
                                    running |-> TRUE, shutdown |-> FALSE]]
    /\ configs = {} /\ ids = 1
    /\ pc = [r \in Requests |-> "idle"]
    /\ \E n \in Nodes : loc = [r \in Requests |-> Blank(n)]
    /\ faults = 0 /\ changes = 0
    /\ hist = [r \in Requests |-> NoHistory]

-----------------------------------------------------------------------------
(* Parts of the steps *)

Fault == faults < MaxFaults /\ faults' = faults + 1

Active == {r \in Requests : pc[r] \in Calls}

Goto(r, call) == pc' = [pc EXCEPT ![r] = call]

Set(r, locals) == loc' = [loc EXCEPT ![r] = locals]

(* The response is sent and the locals are gone. *)
Answer(r, answer) ==
    /\ Goto(r, answer)
    /\ Set(r, Blank(loc[r].node))
    /\ hist' = [hist EXCEPT ![r] = NoHistory]

(* A write is done, and its caller may not learn of it.                     *)
Outcome(r, call) ==
    \/ Goto(r, call) /\ UNCHANGED <<faults, loc, hist>>
    \/ Fault /\ Answer(r, "failed")

(* A call that changes nothing and stores what it returns in the locals.    *)
Reads(r, locals, call) ==
    /\ Set(r, locals) /\ Goto(r, call)
    /\ UNCHANGED <<db, swarm, faults, changes, hist>>

Refuses(r, answer) ==
    /\ Answer(r, answer)
    /\ UNCHANGED <<db, swarm, faults, changes>>

(* Slips the runs must catch: a loop that counts twice, that gives up at    *)
(* once or turns once too often; a client made of a cluster without a host; *)
(* an update sent with the version of the moment; tasks counted by the      *)
(* state they should have; an audit in place of the work.                   *)
NextTryTwice(i) == i + 2
TryAgainNever(i) == FALSE
TryAgainOnceMore(i) == i <= MaxTries
ProceedsAlways(op, c) == c # Nil
VersionNow(r) == nodes[loc[r].node].version
CountedWanted(ready, id) ==
    {t \in Tasks : tasks[t].service = id /\ ~tasks[t].shutdown /\ tasks[t].node \in ready}
FirstLogged ==
    [clusterCreate |-> "Log", checkCreate |-> "Log", checkList |-> "FindChecks",
     nodeUpdate |-> "NodeInspect", serviceList |-> "Find", taskList |-> "NodeList",
     raw |-> "Find", logs |-> "Find", configCreate |-> "ConfigCreate",
     configDelete |-> "ConfigRemove", view |-> "Inspect"]

(* The call after the look-up; creating a cluster needs none.               *)
First ==
    [clusterCreate |-> "InsertCluster", checkCreate |-> "InsertCheck",
     checkList |-> "FindChecks", nodeUpdate |-> "NodeInspect",
     serviceList |-> "Find", taskList |-> "NodeList", raw |-> "Find",
     logs |-> "Find", configCreate |-> "ConfigCreate",
     configDelete |-> "ConfigRemove", view |-> "Inspect"]

Start(r) ==
    /\ pc[r] = "idle"
    /\ \E op \in Ops, c \in Clusters, n \in Nodes :
          /\ op \notin CheckOps \cup {"clusterCreate"} => c = Home
          /\ op # "nodeUpdate" => n = loc[r].node
          /\ Set(r, [loc[r] EXCEPT !.op = op, !.asked = c, !.node = n])
          /\ Goto(r, IF op = "clusterCreate" THEN First[op] ELSE "Prepare")
    /\ UNCHANGED <<db, swarm, faults, changes, hist>>

(* A call that fails, or a body that cannot be read, ends the request.      *)
CallFails(r) ==
    /\ pc[r] \in Calls \ {"Log", "Respond"}
    /\ Fault /\ Answer(r, "failed")
    /\ UNCHANGED <<db, swarm, changes>>

-----------------------------------------------------------------------------
(* The look-up *)

Prepare(r) ==
    /\ pc[r] = "Prepare"
    /\ Goto(r, "Get")
    /\ UNCHANGED <<db, swarm, loc, faults, changes, hist>>

(* The loop of the look-up. *)
NextTry(i) == i + 1
TryAgain(i) == i < MaxTries

(* A cluster without a host makes no client, but its id does for a table.   *)
Proceeds(op, c) == c \in Clusters \/ (c = Zero /\ op \in CheckOps)

(* What an endpoint does with the cluster it is given after i bad           *)
(* connections.  Some check that there is one, others dereference nil.      *)
Found(r, c, i) ==
    \/ /\ Proceeds(loc[r].op, c)
       /\ Set(r, [loc[r] EXCEPT !.cluster = c, !.tries = IF c = Zero THEN i ELSE 0])
       /\ Goto(r, First[loc[r].op]) /\ UNCHANGED hist
    \/ /\ c = Nil /\ loc[r].op \in CheckOps \cup {"serviceList"}
       /\ Answer(r, "refused")
    \/ /\ ~Proceeds(loc[r].op, c) /\ (c = Nil => loc[r].op \notin CheckOps \cup {"serviceList"})
       /\ Answer(r, "failed")
    \/ /\ loc[r].op = "view" \* configs, without the permission
       /\ Answer(r, "refused")

(* One turn of the loop of ClusterByName: the row, no row, or a connection  *)
(* that is bad, which leaves the cluster without fields at the last turn.   *)
Get(r) ==
    /\ pc[r] = "Get"
    /\ \/ loc[r].asked \in clusters /\ Found(r, loc[r].asked, loc[r].tries)
       \/ loc[r].asked \notin clusters /\ Found(r, Nil, loc[r].tries)
       \/ /\ TryAgain(NextTry(loc[r].tries))
          /\ Set(r, [loc[r] EXCEPT !.tries = NextTry(@)])
          /\ UNCHANGED <<pc, hist>>
       \/ /\ ~TryAgain(NextTry(loc[r].tries))
          /\ Found(r, Zero, NextTry(loc[r].tries))
    /\ UNCHANGED <<db, swarm, faults, changes>>

-----------------------------------------------------------------------------
(* The tables *)

InsertCluster(r) ==
    /\ pc[r] = "InsertCluster"
    /\ \/ /\ loc[r].asked \notin clusters
          /\ clusters' = clusters \cup {loc[r].asked}
          /\ Outcome(r, "Log")
          /\ UNCHANGED <<checks, events, swarm, changes>>
       \/ loc[r].asked \in clusters /\ Refuses(r, "failed")

(* The row, or a name that is taken. *)
InsertCheck(r) ==
    /\ pc[r] = "InsertCheck"
    /\ \/ /\ checks' = checks \cup {[by |-> r, cluster |-> loc[r].cluster,
                                     asked |-> loc[r].asked, tries |-> loc[r].tries]}
          /\ Outcome(r, "Log")
          /\ UNCHANGED <<clusters, events, swarm, changes>>
       \/ Refuses(r, "refused")

(* An empty cluster id is no condition of the query; a query that fails     *)
(* reads as no rows.                                                        *)
FindChecks(r) ==
    /\ pc[r] = "FindChecks"
    /\ \/ Reads(r, [loc[r] EXCEPT !.checks =
                      {row \in checks : loc[r].cluster \in {Zero, row.cluster}}], "Respond")
       \/ /\ Fault /\ Goto(r, "Respond")
          /\ UNCHANGED <<db, swarm, loc, changes, hist>>

(* The audit of a creation. *)
Log(r) ==
    /\ pc[r] = "Log"
    /\ events' = events \cup {[by |-> r, op |-> loc[r].op, asked |-> loc[r].asked]}
    /\ Goto(r, "Respond")
    /\ UNCHANGED <<clusters, checks, swarm, loc, faults, changes, hist>>

(* Rows of services, or none, or a query that fails and reads as none: a    *)
(* list is empty then, the logs are, and a raw service is not found.        *)
AfterFind == [serviceList |-> "NodeList", raw |-> "ServiceInspect", logs |-> "ServiceLogs"]

Find(r) ==
    /\ pc[r] = "Find"
    /\ \/ Reads(r, loc[r], AfterFind[loc[r].op])
       \/ loc[r].op \in {"serviceList", "logs"} /\ Reads(r, loc[r], "Respond")
       \/ loc[r].op = "raw" /\ Refuses(r, "refused")

-----------------------------------------------------------------------------
(* The status of the services, and the tasks *)

(* The tasks that run on a node that is ready, each with its service.       *)
Up == {<<t, tasks[t].service>> : t \in {u \in Tasks : tasks[u].running /\ nodes[tasks[u].node].up}}

NodeList(r) ==
    /\ pc[r] = "NodeList"
    /\ Set(r, [loc[r] EXCEPT !.ready = {n \in Nodes : nodes[n].up}])
    /\ Goto(r, IF loc[r].op = "taskList" THEN "TaskList" ELSE "ServiceList")
    /\ hist' = [hist EXCEPT ![r].steady = Up, ![r].seen = Up]
    /\ UNCHANGED <<db, swarm, faults, changes>>

ServiceList(r) ==
    /\ pc[r] = "ServiceList"
    /\ Reads(r, [loc[r] EXCEPT !.svc = service], "TaskList")

(* getServicesStatus: the replicas that are available, and the number there *)
(* should be, by the specification or, of a global service, by the tasks    *)
(* that are not to shut down.                                               *)
Counted(ready, id) ==
    {t \in Tasks : tasks[t].service = id /\ tasks[t].running /\ tasks[t].node \in ready}

Replicas(svc) ==
    IF svc.global
    THEN Cardinality({t \in Tasks : tasks[t].service = svc.id /\ ~tasks[t].shutdown})
    ELSE svc.replicas

Status(ready, svc) ==
    IF svc.id = 0 THEN NoStatus
    ELSE [service |-> svc.id, available |-> Counted(ready, svc.id), replicas |-> Replicas(svc)]

(* For the tasks themselves the swarm may not find the service asked for.   *)
TaskList(r) ==
    /\ pc[r] = "TaskList"
    /\ \/ /\ loc[r].op = "serviceList"
          /\ Reads(r, [loc[r] EXCEPT !.status = Status(loc[r].ready, loc[r].svc)], "Respond")
       \/ loc[r].op = "taskList" /\ Reads(r, loc[r], "Respond")
       \/ loc[r].op = "taskList" /\ Refuses(r, "refused")

ServiceInspect(r) ==
    /\ pc[r] = "ServiceInspect"
    /\ \/ service.id # 0 /\ Reads(r, loc[r], "Respond")
       \/ service.id = 0 /\ Refuses(r, "refused")

ServiceLogs(r) ==
    /\ pc[r] = "ServiceLogs"
    /\ \/ service.id # 0 /\ Reads(r, loc[r], "Respond")
       \/ service.id = 0 /\ Refuses(r, "failed")

-----------------------------------------------------------------------------
(* Nodes and configs *)

NodeInspect(r) ==
    /\ pc[r] = "NodeInspect"
    /\ Reads(r, [loc[r] EXCEPT !.inspected = nodes[loc[r].node]], "NodeUpdate")

(* The version sent with an update. *)
Version(r) == loc[r].inspected.version

(* The specification of the body, sent with the version that was inspected; *)
(* the swarm refuses it when the node has another one by now.               *)
NodeUpdate(r) ==
    LET n == loc[r].node
        made == nodes[n].version + 1
    IN  /\ pc[r] = "NodeUpdate"
        /\ \/ /\ Version(r) = nodes[n].version
              /\ nodes' = [nodes EXCEPT ![n].version = made, ![n].spec = made]
              /\ \/ /\ Goto(r, "Refresh") /\ UNCHANGED <<loc, faults>>
                    /\ hist' = [hist EXCEPT ![r].made = made, ![r].over = nodes[n].spec,
                                            ![r].based = loc[r].inspected.spec]
                 \/ Fault /\ Answer(r, "failed")
              /\ UNCHANGED <<db, service, tasks, configs, ids, changes>>
           \/ Version(r) # nodes[n].version /\ Refuses(r, "failed")

Refresh(r) ==
    /\ pc[r] = "Refresh"
    /\ Reads(r, [loc[r] EXCEPT !.inspected = nodes[loc[r].node]], "Respond")

(* The swarm refuses a name that is taken, and to remove what is in use.    *)
ConfigCreate(r) ==
    /\ pc[r] = "ConfigCreate"
    /\ \/ /\ \E k \in Configs \ configs : configs' = configs \cup {k}
          /\ Outcome(r, "Respond")
          /\ UNCHANGED <<db, nodes, service, tasks, ids, changes>>
       \/ configs # {} /\ Refuses(r, "failed")

ConfigRemove(r) ==
    /\ pc[r] = "ConfigRemove"
    /\ \/ /\ \E k \in configs : configs' = configs \ {k}
          /\ Outcome(r, "Respond")
          /\ UNCHANGED <<db, nodes, service, tasks, ids, changes>>
       \/ Refuses(r, "failed")

(* Nodes, a node, networks, configs or a config are read and answered.      *)
Inspect(r) ==
    /\ pc[r] = "Inspect"
    /\ Reads(r, loc[r], "Respond")

Respond(r) ==
    /\ pc[r] = "Respond"
    /\ Refuses(r, "answered")

(* The process dies and is started again. *)
Crash ==
    /\ Active # {} /\ Fault
    /\ pc' = [r \in Requests |-> IF r \in Active THEN "lost" ELSE pc[r]]
    /\ loc' = [r \in Requests |-> Blank(loc[r].node)]
    /\ hist' = [r \in Requests |-> NoHistory]
    /\ UNCHANGED <<db, swarm, changes>>

-----------------------------------------------------------------------------
(* The swarm and its other users *)

(* A step of theirs; the requests that count tasks watch it.                *)
Others ==
    /\ changes < MaxChanges /\ changes' = changes + 1
    /\ hist' = [r \in Requests |->
          IF pc[r] \in {"ServiceList", "TaskList"}
          THEN [hist[r] EXCEPT !.steady = @ \cap Up', !.seen = @ \cup Up']
          ELSE hist[r]]
    /\ UNCHANGED <<db, configs, pc, loc, faults>>

(* A node goes down or comes back; its tasks keep the state last reported.  *)
NodeTurns(n) ==
    /\ nodes' = [nodes EXCEPT ![n].version = @ + 1, ![n].up = ~@]
    /\ UNCHANGED <<service, tasks, ids>> /\ Others

(* Another user of the swarm updates a node. *)
NodeSet(n) ==
    /\ nodes' = [nodes EXCEPT ![n].version = @ + 1, ![n].spec = nodes[n].version + 1]
    /\ UNCHANGED <<service, tasks, ids>> /\ Others

(* A task stops, is to shut down, or one starts on a node that is ready.    *)
TaskTurns(t) ==
    /\ tasks[t].service # 0
    /\ \/ tasks[t].running /\ tasks' = [tasks EXCEPT ![t].running = FALSE]
       \/ ~tasks[t].shutdown /\ tasks' = [tasks EXCEPT ![t].shutdown = TRUE]
       \/ /\ ~tasks[t].running /\ ~tasks[t].shutdown /\ nodes[tasks[t].node].up
          /\ tasks' = [tasks EXCEPT ![t].running = TRUE]
    /\ UNCHANGED <<nodes, service, ids>> /\ Others

ServiceGone ==
    /\ service.id # 0
    /\ service' = NoService
    /\ tasks' = [t \in Tasks |-> [tasks[t] EXCEPT !.service = 0, !.running = FALSE]]
    /\ UNCHANGED <<nodes, ids>> /\ Others

ServiceMade ==
    /\ service.id = 0
    /\ ids' = ids + 1
    /\ \E global \in BOOLEAN :
          service' = [id |-> ids + 1, global |-> global, replicas |-> 1]
    /\ tasks' = [t \in Tasks |-> [tasks[t] EXCEPT !.service = ids + 1, !.shutdown = FALSE]]
    /\ UNCHANGED nodes /\ Others

Next ==
    \/ \E r \in Requests :
          \/ Start(r) \/ CallFails(r) \/ Prepare(r) \/ Get(r)
          \/ InsertCluster(r) \/ InsertCheck(r) \/ FindChecks(r) \/ Log(r) \/ Find(r)
          \/ NodeList(r) \/ ServiceList(r) \/ TaskList(r)
          \/ ServiceInspect(r) \/ ServiceLogs(r)
          \/ NodeInspect(r) \/ NodeUpdate(r) \/ Refresh(r)
          \/ ConfigCreate(r) \/ ConfigRemove(r) \/ Inspect(r) \/ Respond(r)
    \/ Crash
    \/ \E n \in Nodes : NodeTurns(n) \/ NodeSet(n)
    \/ \E t \in Tasks : TaskTurns(t)
    \/ ServiceGone \/ ServiceMade

Spec == Init /\ [][Next]_vars

-----------------------------------------------------------------------------
(* Properties *)

(* Type invariant: the tables, the swarm and the locals of the requests.    *)
TypeOK ==
    /\ clusters \subseteq Clusters /\ checks \subseteq Checks /\ events \subseteq Events
    /\ nodes \in [Nodes -> NodeStates] /\ service \in Services
    /\ tasks \in [Tasks -> TaskStates] /\ configs \subseteq Configs /\ ids \in Nat
    /\ pc \in [Requests -> {"idle"} \cup Calls \cup Answers]
    /\ loc \in [Requests -> Locals] /\ hist \in [Requests -> Histories]
    /\ faults \in Nat /\ changes \in Nat

(* A health check belongs to the cluster of its request, which exists, and  *)
(* a list shows the checks of its cluster only, except when ten connections *)
(* in a row were bad (clusters.go:154-169): the cluster without an id is    *)
(* then stored, and as a filter it is none (health_check.go:95).            *)
ChecksPlaced ==
    /\ \A row \in checks :
          \/ row.cluster = row.asked /\ row.asked \in clusters
          \/ row.cluster = Zero /\ row.tries = MaxTries
    /\ \A r \in Requests :
          pc[r] = "Respond" /\ loc[r].op = "checkList" =>
              \/ \A row \in loc[r].checks : row.cluster = loc[r].asked
              \/ loc[r].tries = MaxTries

(* No call is made of Docker for a request whose cluster was not found or   *)
(* whose look-up gave up: endpoints that do not check stop at NewClient     *)
(* (services.go:208).                                                       *)
DockerOnFound ==
    \A r \in Requests :
        pc[r] \in DockerCalls => loc[r].cluster = Home /\ Home \in clusters

(* A node update that was accepted replaced the very specification that its *)
(* request inspected, whatever other requests and users of the swarm did in *)
(* between, and its answer does not show an older one than it wrote         *)
(* (endpoints.go:658-674).                                                  *)
NodeUpdatesKept ==
    \A r \in Requests :
        hist[r].made # 0 =>
            /\ hist[r].over = hist[r].based /\ hist[r].over < hist[r].made
            /\ pc[r] = "Respond" => loc[r].inspected.spec >= hist[r].made

(* A status is put together from three lists read one after the other       *)
(* (services.go:414-438), yet a replica is only called available if it ran  *)
(* on a ready node at some time meanwhile, and one that did so all the time *)
(* is not missed.                                                           *)
StatusBracketed ==
    \A r \in Requests :
        LET status == loc[r].status IN
        pc[r] = "Respond" /\ status.service # 0 =>
            /\ \A t \in status.available : <<t, status.service>> \in hist[r].seen
            /\ \A t \in Tasks : <<t, status.service>> \in hist[r].steady => t \in status.available

(* Only creations that were made are in the audit log, and a creation that  *)
(* is answered is in it (endpoints.go:156, 465).                            *)
AuditExact ==
    /\ \A e \in events :
          /\ e.op = "clusterCreate" => e.asked \in clusters
          /\ e.op = "checkCreate" => \E row \in checks : row.by = e.by
    /\ \A r \in Requests :
          pc[r] = "Respond" /\ loc[r].op \in {"checkCreate", "clusterCreate"} =>
              \E e \in events : e.by = r

(* How many calls a request that makes the call c next still makes at most, *)
(* when its look-up was tried a number of times.                            *)
Rank ==
    [Prepare |-> 6, Get |-> 5, Find |-> 5, NodeList |-> 4, NodeInspect |-> 4,
     ServiceList |-> 3, NodeUpdate |-> 3, InsertCluster |-> 3, InsertCheck |-> 3,
     TaskList |-> 2, Refresh |-> 2, ServiceInspect |-> 2, ServiceLogs |-> 2,
     ConfigCreate |-> 2, ConfigRemove |-> 2, Inspect |-> 2, FindChecks |-> 2,
     Log |-> 2, Respond |-> 1]

CallsLeft(c, tries) == IF c \in LookUp THEN Rank[c] + MaxTries - tries ELSE Rank[c]

(* Whatever the database and Docker answer, and whatever others do, no call *)
(* brings a request back to where it was: each one ends it or leaves it     *)
(* fewer calls, at most ten tries and five more after Prepare               *)
(* (clusters.go:154-169).                                                   *)
EachCallCounts ==
    [][\A r \in Active :
          \/ pc'[r] = pc[r] /\ loc'[r] = loc[r]
          \/ pc'[r] \in Answers
          \/ CallsLeft(pc'[r], loc'[r].tries) < CallsLeft(pc[r], loc[r].tries)]_vars
=============================================================================
