------------------------ MODULE ClusterRequestsProofs ------------------------
(***************************************************************************)
(* Proofs, for every number of requests, clusters, nodes and tasks and for  *)
(* every bound of the loop of the look-up, faults and changes.              *)
(***************************************************************************)
EXTENDS ClusterRequests, FiniteSetTheorems, TLAPS

USE NamesAssumption, BoundsAssumption, SwarmAssumption

-----------------------------------------------------------------------------
(* Steps of a request *)

(* Request r goes to c with the locals l and the history h.                 *)
Moves(r, c, l, h) ==
    /\ pc' = [pc EXCEPT ![r] = c]
    /\ loc' = [loc EXCEPT ![r] = l]
    /\ hist' = [hist EXCEPT ![r] = h]

LEMMA BlankType == ASSUME NEW n \in Nodes PROVE Blank(n) \in Locals
  BY DEF Blank, Locals, Ops, CheckOps, NodeStates, NoService, NoStatus, Services, Statuses

LEMMA NoHistoryType == NoHistory \in Histories
  BY DEF NoHistory, Histories

(* Where a step of a request may lead, and with which types.                *)
LEMMA MovesType ==
  ASSUME TypeOK, NEW r \in Requests, NEW c \in {"idle"} \cup Calls \cup Answers,
         NEW l \in Locals, NEW h \in Histories, Moves(r, c, l, h)
  PROVE  /\ pc' \in [Requests -> {"idle"} \cup Calls \cup Answers]
         /\ loc' \in [Requests -> Locals] /\ hist' \in [Requests -> Histories]
         /\ pc'[r] = c /\ loc'[r] = l /\ hist'[r] = h
         /\ \A q \in Requests \ {r} : pc'[q] = pc[q] /\ loc'[q] = loc[q] /\ hist'[q] = hist[q]
  BY DEF TypeOK, Moves

LEMMA Types ==
  ASSUME TypeOK, NEW r \in Requests
  PROVE  /\ loc[r] \in Locals /\ hist[r] \in Histories
         /\ loc = [loc EXCEPT ![r] = loc[r]] /\ hist = [hist EXCEPT ![r] = hist[r]]
         /\ pc = [pc EXCEPT ![r] = pc[r]]
         /\ loc[r].op \in Ops /\ loc[r].asked \in Clusters /\ loc[r].tries \in 0..MaxTries
         /\ loc[r].cluster \in Clusters \cup {Zero, Nil} /\ loc[r].node \in Nodes
         /\ loc[r].inspected \in NodeStates /\ loc[r].ready \subseteq Nodes
         /\ loc[r].svc \in Services /\ loc[r].status \in Statuses /\ loc[r].checks \subseteq Checks
<1>1. loc[r] \in Locals
  BY DEF TypeOK
<1>. QED  BY <1>1 DEF TypeOK, Locals

(* The end of a request. *)
LEMMA AnswerMoves ==
  ASSUME NEW r \in Requests, NEW a, Answer(r, a)
  PROVE  Moves(r, a, Blank(loc[r].node), NoHistory)
  BY DEF Answer, Moves, Goto, Set

(* What each step of a request does to it.                                  *)
LEMMA StartMoves ==
  ASSUME TypeOK, NEW r \in Requests, Start(r)
  PROVE  \E op \in Ops, c \in Clusters, n \in Nodes :
            /\ op \notin CheckOps \cup {"clusterCreate"} => c = Home
            /\ Moves(r, IF op = "clusterCreate" THEN First[op] ELSE "Prepare",
                     [loc[r] EXCEPT !.op = op, !.asked = c, !.node = n], hist[r])
<1>1. hist' = [hist EXCEPT ![r] = hist[r]]
  BY Types DEF Start
<1>. QED  BY <1>1 DEF Start, Moves, Goto, Set

LEMMA ReadsMoves ==
  ASSUME TypeOK, NEW r \in Requests, NEW l, NEW c, Reads(r, l, c)
  PROVE  Moves(r, c, l, hist[r]) /\ UNCHANGED <<db, swarm, faults, changes>>
<1>1. hist' = [hist EXCEPT ![r] = hist[r]]
  BY Types DEF Reads
<1>. QED  BY <1>1 DEF Reads, Moves, Goto, Set

LEMMA EndsMoves ==
  ASSUME TypeOK, NEW r \in Requests, NEW a, Refuses(r, a)
  PROVE  /\ Moves(r, a, Blank(loc[r].node), NoHistory)
         /\ UNCHANGED <<db, swarm, faults, changes>>
  BY AnswerMoves DEF Refuses

Ends(r) == \E a \in Answers : Moves(r, a, Blank(loc[r].node), NoHistory)

Stays(r, c) == Moves(r, c, loc[r], hist[r])

LEMMA OutcomeMoves ==
  ASSUME TypeOK, NEW r \in Requests, NEW c, Outcome(r, c)
  PROVE  Stays(r, c) \/ Ends(r)
<1>1. CASE Goto(r, c) /\ UNCHANGED <<faults, loc, hist>>
  <2>1. loc' = [loc EXCEPT ![r] = loc[r]] /\ hist' = [hist EXCEPT ![r] = hist[r]]
    BY <1>1, Types
  <2>. QED  BY <1>1, <2>1 DEF Stays, Moves, Goto
<1>2. CASE Answer(r, "failed")
  BY <1>2, AnswerMoves DEF Ends, Answers
<1>. QED  BY <1>1, <1>2 DEF Outcome

(* The steps of a request that leave the swarm alone.                       *)
LEMMA GetMoves ==
  ASSUME TypeOK, NEW r \in Requests, Get(r)
  PROVE  /\ UNCHANGED <<db, swarm, faults, changes>>
         /\ \/ Ends(r)
            \/ /\ TryAgain(NextTry(loc[r].tries))
               /\ Moves(r, "Get", [loc[r] EXCEPT !.tries = NextTry(@)], hist[r])
            \/ \E c \in Clusters \cup {Zero} :
                  /\ Moves(r, First[loc[r].op],
                           [loc[r] EXCEPT !.cluster = c,
                              !.tries = IF c = Zero THEN NextTry(loc[r].tries) ELSE 0], hist[r])
                  /\ Proceeds(loc[r].op, c)
                  /\ \/ c = loc[r].asked /\ c \in clusters
                     \/ c = Zero /\ ~TryAgain(NextTry(loc[r].tries))
<1>0. UNCHANGED <<db, swarm, faults, changes>>
  BY DEF Get
<1>1. ASSUME NEW c \in Clusters \cup {Zero, Nil}, NEW i, Found(r, c, i)
      PROVE  \/ Ends(r)
             \/ /\ Proceeds(loc[r].op, c) /\ c # Nil
                /\ Moves(r, First[loc[r].op],
                         [loc[r] EXCEPT !.cluster = c, !.tries = IF c = Zero THEN i ELSE 0], hist[r])
  <2>1. CASE \E a \in {"refused", "failed"} : Answer(r, a)
    BY <2>1, AnswerMoves DEF Ends, Answers
  <2>2. CASE /\ Proceeds(loc[r].op, c)
             /\ Set(r, [loc[r] EXCEPT !.cluster = c, !.tries = IF c = Zero THEN i ELSE 0])
             /\ Goto(r, First[loc[r].op]) /\ UNCHANGED hist
    <3>1. hist' = [hist EXCEPT ![r] = hist[r]]
      BY <2>2, Types
    <3>. QED  BY <2>2, <3>1 DEF Moves, Goto, Set, Proceeds
  <2>. QED  BY <1>1, <2>1, <2>2 DEF Found
<1>2. CASE loc[r].asked \in clusters /\ Found(r, loc[r].asked, loc[r].tries)
  <2>1. loc[r].asked \in Clusters /\ loc[r].asked # Zero
    BY Types
  <2>2. \/ Ends(r)
        \/ /\ Proceeds(loc[r].op, loc[r].asked)
           /\ Moves(r, First[loc[r].op],
                    [loc[r] EXCEPT !.cluster = loc[r].asked,
                       !.tries = IF loc[r].asked = Zero THEN loc[r].tries ELSE 0], hist[r])
    BY <1>1, <1>2, <2>1
  <2>. QED  BY <1>0, <1>2, <2>1, <2>2
<1>3. CASE Found(r, Nil, loc[r].tries)
  BY <1>0, <1>1, <1>3
<1>4. CASE /\ TryAgain(NextTry(loc[r].tries))
           /\ Set(r, [loc[r] EXCEPT !.tries = NextTry(@)])
           /\ UNCHANGED <<pc, hist>> /\ pc[r] = "Get"
  <2>1. hist' = [hist EXCEPT ![r] = hist[r]] /\ pc' = [pc EXCEPT ![r] = "Get"]
    BY <1>4, Types
  <2>. QED  BY <1>0, <1>4, <2>1 DEF Moves, Set
<1>5. CASE ~TryAgain(NextTry(loc[r].tries)) /\ Found(r, Zero, NextTry(loc[r].tries))
  BY <1>0, <1>1, <1>5
<1>. QED  BY <1>2, <1>3, <1>4, <1>5 DEF Get

LEMMA NodeListMoves ==
  ASSUME TypeOK, NEW r \in Requests, NodeList(r)
  PROVE  Moves(r, IF loc[r].op = "taskList" THEN "TaskList" ELSE "ServiceList",
               [loc[r] EXCEPT !.ready = {n \in Nodes : nodes[n].up}],
               [hist[r] EXCEPT !.steady = Up, !.seen = Up])
<1>1. hist' = [hist EXCEPT ![r] = [hist[r] EXCEPT !.steady = Up, !.seen = Up]]
  BY DEF NodeList, TypeOK
<1>. QED  BY <1>1 DEF NodeList, Moves, Goto, Set

-----------------------------------------------------------------------------
(* Types *)

Shared ==
    /\ clusters \subseteq Clusters /\ checks \subseteq Checks /\ events \subseteq Events
    /\ nodes \in [Nodes -> NodeStates] /\ service \in Services
    /\ tasks \in [Tasks -> TaskStates] /\ configs \subseteq Configs /\ ids \in Nat
    /\ faults \in Nat /\ changes \in Nat

LEMMA InitType == Init => TypeOK
<1>. SUFFICES ASSUME Init PROVE TypeOK
  OBVIOUS
<1>1. /\ clusters \subseteq Clusters /\ checks \subseteq Checks /\ events \subseteq Events
      /\ nodes \in [Nodes -> NodeStates] /\ service \in Services
  BY DEF Init, NodeStates, Services
<1>2. tasks \in [Tasks -> TaskStates] /\ configs \subseteq Configs /\ ids \in Nat
  BY DEF Init, TaskStates
<1>3. /\ pc \in [Requests -> {"idle"} \cup Calls \cup Answers]
      /\ faults \in Nat /\ changes \in Nat
  BY DEF Init
<1>4. loc \in [Requests -> Locals] /\ hist \in [Requests -> Histories]
  BY BlankType, NoHistoryType DEF Init
<1>. QED  BY <1>1, <1>2, <1>3, <1>4 DEF TypeOK

LEMMA MovesTypeOK ==
  ASSUME TypeOK, NEW r \in Requests, NEW c \in {"idle"} \cup Calls \cup Answers,
         NEW l \in Locals, NEW h \in Histories, Moves(r, c, l, h), Shared'
  PROVE  TypeOK'
  BY MovesType DEF TypeOK, Shared

LEMMA EndsTypeOK ==
  ASSUME TypeOK, NEW r \in Requests, Ends(r), Shared' PROVE TypeOK'
  BY Types, BlankType, NoHistoryType, MovesTypeOK DEF Ends

LEMMA StaysTypeOK ==
  ASSUME TypeOK, NEW r \in Requests, NEW c \in Calls, Stays(r, c), Shared' PROVE TypeOK'
  BY Types, MovesTypeOK DEF Stays

LEMMA FaultType == TypeOK /\ (Fault \/ UNCHANGED faults) => faults' \in Nat
  BY DEF TypeOK, Fault

(* Reads and answers change none of the shared state.                       *)
LEMMA SameShared ==
  ASSUME TypeOK, UNCHANGED <<db, swarm, changes>>, faults' \in Nat PROVE Shared'
  BY DEF TypeOK, Shared, db, swarm

LEMMA FirstType == \A op \in Ops : First[op] \in Calls
<1>. SUFFICES ASSUME NEW op \in Ops PROVE First[op] \in Calls
  OBVIOUS
<1>. QED  BY DEF First, Ops, CheckOps, Calls, DockerCalls

(* The loop of a look-up has turns left. *)
TurnsLeft == \A r \in Requests : pc[r] \in LookUp \cup {"idle"} => loc[r].tries < MaxTries

LEMMA LookupType ==
  ASSUME TypeOK, TurnsLeft, NEW r \in Requests,
         Start(r) \/ CallFails(r) \/ Prepare(r) \/ Get(r)
  PROVE  TypeOK'
<1>1. CASE Start(r)
  <2>1. Shared'
    BY <1>1, SameShared DEF Start, TypeOK
  <2>2. PICK op \in Ops, c \in Clusters, n \in Nodes :
          Moves(r, IF op = "clusterCreate" THEN First[op] ELSE "Prepare",
                [loc[r] EXCEPT !.op = op, !.asked = c, !.node = n], hist[r])
    BY <1>1, StartMoves
  <2>3. [loc[r] EXCEPT !.op = op, !.asked = c, !.node = n] \in Locals
    BY Types DEF Locals
  <2>4. (IF op = "clusterCreate" THEN First[op] ELSE "Prepare") \in Calls
    BY FirstType DEF Calls, LookUp
  <2>. QED  BY <2>1, <2>2, <2>3, <2>4, Types, MovesTypeOK
<1>2. CASE CallFails(r)
  <2>1. Shared' /\ Ends(r)
    BY <1>2, SameShared, FaultType, AnswerMoves DEF CallFails, Ends, Answers
  <2>. QED  BY <2>1, EndsTypeOK
<1>3. CASE Prepare(r)
  <2>1. Shared'
    BY <1>3, SameShared DEF Prepare, TypeOK
  <2>2. Stays(r, "Get")
    BY <1>3, Types DEF Prepare, Stays, Moves, Goto
  <2>. QED  BY <2>1, <2>2, StaysTypeOK DEF Calls, LookUp
<1>4. CASE Get(r)
  <2>1. Shared'
    BY <1>4, SameShared DEF Get, TypeOK
  <2>2. CASE Ends(r)
    BY <2>1, <2>2, EndsTypeOK
  <2>3. CASE /\ TryAgain(NextTry(loc[r].tries))
             /\ Moves(r, "Get", [loc[r] EXCEPT !.tries = NextTry(@)], hist[r])
    <3>1. [loc[r] EXCEPT !.tries = NextTry(@)] \in Locals
      BY <2>3, Types DEF TryAgain, NextTry, Locals
    <3>. QED  BY <2>1, <2>3, <3>1, Types, MovesTypeOK DEF Calls, LookUp
  <2>4. ASSUME NEW c \in Clusters \cup {Zero},
               Moves(r, First[loc[r].op],
                     [loc[r] EXCEPT !.cluster = c,
                        !.tries = IF c = Zero THEN NextTry(loc[r].tries) ELSE 0], hist[r]),
               c \in clusters \/ ~TryAgain(NextTry(loc[r].tries)),
               loc[r].tries < MaxTries
        PROVE  TypeOK'
    <3>1. (IF c = Zero THEN NextTry(loc[r].tries) ELSE 0) \in 0..MaxTries
      BY <2>4, Types DEF NextTry
    <3>2. [loc[r] EXCEPT !.cluster = c,
             !.tries = IF c = Zero THEN NextTry(loc[r].tries) ELSE 0] \in Locals
      BY <3>1, Types DEF Locals
    <3>. QED  BY <2>1, <2>4, <3>2, Types, FirstType, MovesTypeOK
  <2>5. loc[r].tries < MaxTries
    BY <1>4 DEF Get, TurnsLeft, LookUp
  <2>. QED  BY <1>4, <2>2, <2>3, <2>4, <2>5, GetMoves
<1>. QED  BY <1>1, <1>2, <1>3, <1>4

LEMMA ReadsType ==
  ASSUME TypeOK, NEW r \in Requests, NEW l \in Locals, NEW c \in Calls, Reads(r, l, c)
  PROVE  TypeOK'
<1>1. Shared'
  BY SameShared DEF Reads, TypeOK
<1>. QED  BY <1>1, ReadsMoves, Types, MovesTypeOK

LEMMA RefusesType ==
  ASSUME TypeOK, NEW r \in Requests, NEW a \in Answers, Refuses(r, a) PROVE TypeOK'
<1>1. Shared'
  BY SameShared DEF Refuses, TypeOK
<1>. QED  BY <1>1, EndsMoves, EndsTypeOK DEF Ends

LEMMA OutcomeType ==
  ASSUME TypeOK, NEW r \in Requests, NEW c \in Calls, Outcome(r, c),
         Shared' \/ (faults' \in Nat => Shared')
  PROVE  TypeOK'
<1>1. faults' \in Nat
  BY FaultType DEF Outcome
<1>. QED  BY <1>1, OutcomeMoves, StaysTypeOK, EndsTypeOK

LEMMA TablesType ==
  ASSUME TypeOK, NEW r \in Requests,
         InsertCluster(r) \/ InsertCheck(r) \/ FindChecks(r) \/ Log(r) \/ Find(r),
         pc[r] \in {"InsertCheck", "FindChecks"} => loc[r].cluster # Nil,
         pc[r] = "Log" => loc[r].op \in {"clusterCreate", "checkCreate"},
         pc[r] = "Find" => loc[r].op \in {"serviceList", "raw", "logs"}
  PROVE  TypeOK'
<1>0. {"failed", "refused", "answered"} \subseteq Answers
      /\ {"Log", "Respond", "NodeList", "ServiceInspect", "ServiceLogs"} \subseteq Calls
  BY DEF Answers, Calls, DockerCalls
<1>1. CASE InsertCluster(r)
  <2>1. CASE Refuses(r, "failed")
    BY <1>0, <2>1, RefusesType
  <2>2. CASE /\ clusters' = clusters \cup {loc[r].asked} /\ Outcome(r, "Log")
             /\ UNCHANGED <<checks, events, swarm, changes>>
    <3>1. faults' \in Nat => Shared'
      BY <2>2, Types DEF Shared, TypeOK, swarm
    <3>. QED  BY <1>0, <2>2, <3>1, OutcomeType
  <2>. QED  BY <1>1, <2>1, <2>2 DEF InsertCluster
<1>2. CASE InsertCheck(r)
  <2>1. CASE Refuses(r, "refused")
    BY <1>0, <2>1, RefusesType
  <2>2. CASE /\ checks' = checks \cup {[by |-> r, cluster |-> loc[r].cluster,
                                        asked |-> loc[r].asked, tries |-> loc[r].tries]}
             /\ Outcome(r, "Log") /\ UNCHANGED <<clusters, events, swarm, changes>>
    <3>1. [by |-> r, cluster |-> loc[r].cluster, asked |-> loc[r].asked,
           tries |-> loc[r].tries] \in Checks
      BY <1>2, Types DEF Checks, InsertCheck
    <3>2. faults' \in Nat => Shared'
      BY <2>2, <3>1 DEF Shared, TypeOK, swarm
    <3>. QED  BY <1>0, <2>2, <3>2, OutcomeType
  <2>. QED  BY <1>2, <2>1, <2>2 DEF InsertCheck
<1>3. CASE FindChecks(r)
  <2>. DEFINE l == [loc[r] EXCEPT !.checks = {row \in checks : loc[r].cluster \in {Zero, row.cluster}}]
  <2>1. CASE Reads(r, l, "Respond")
    <3>1. l \in Locals
      BY Types DEF Locals, TypeOK
    <3>. HIDE DEF l
    <3>. QED  BY <1>0, <2>1, <3>1, ReadsType
  <2>2. CASE Fault /\ Goto(r, "Respond") /\ UNCHANGED <<db, swarm, loc, changes, hist>>
    <3>1. Shared' /\ Stays(r, "Respond")
      BY <2>2, SameShared, FaultType, Types DEF Stays, Moves, Goto
    <3>. QED  BY <1>0, <3>1, StaysTypeOK
  <2>. QED  BY <1>3, <2>1, <2>2 DEF FindChecks
<1>4. CASE Log(r)
  <2>1. [by |-> r, op |-> loc[r].op, asked |-> loc[r].asked] \in Events
    BY <1>4, Types DEF Log, Events
  <2>2. Shared'
    BY <1>4, <2>1 DEF Log, Shared, TypeOK, swarm
  <2>3. Stays(r, "Respond")
    BY <1>4, Types DEF Log, Stays, Moves, Goto
  <2>. QED  BY <1>0, <2>2, <2>3, StaysTypeOK
<1>5. CASE Find(r)
  <2>1. AfterFind[loc[r].op] \in {"NodeList", "ServiceInspect", "ServiceLogs"}
    BY <1>5 DEF Find, AfterFind
  <2>2. \/ \E c \in {"NodeList", "ServiceInspect", "ServiceLogs", "Respond"} : Reads(r, loc[r], c)
        \/ Refuses(r, "refused")
    BY <1>5, <2>1 DEF Find
  <2>. QED  BY <1>0, <2>2, Types, ReadsType, RefusesType
<1>. QED  BY <1>1, <1>2, <1>3, <1>4, <1>5

LEMMA UpType == TypeOK => Up \subseteq Tasks \X Nat
  BY DEF TypeOK, Up, TaskStates

LEMMA StatusType ==
  ASSUME TypeOK, NEW ready \in SUBSET Nodes, NEW svc \in Services
  PROVE  Status(ready, svc) \in Statuses
<1>. DEFINE wanted == {t \in Tasks : tasks[t].service = svc.id /\ ~tasks[t].shutdown}
<1>1. Cardinality(wanted) \in Nat
  BY FS_Subset, FS_CardinalityType
<1>2. Replicas(svc) \in Nat
  BY <1>1 DEF Replicas, Services
<1>3. Counted(ready, svc.id) \in SUBSET Tasks
  BY DEF Counted
<1>4. [service |-> svc.id, available |-> Counted(ready, svc.id), replicas |-> Replicas(svc)] \in Statuses
  BY <1>2, <1>3 DEF Statuses, Services
<1>5. NoStatus \in Statuses
  BY DEF NoStatus, Statuses
<1>. QED  BY <1>4, <1>5 DEF Status

LEMMA SwarmReadsType ==
  ASSUME TypeOK, NEW r \in Requests,
         \/ NodeList(r) \/ ServiceList(r) \/ TaskList(r) \/ ServiceInspect(r)
         \/ ServiceLogs(r) \/ NodeInspect(r) \/ Refresh(r) \/ Inspect(r) \/ Respond(r)
  PROVE  TypeOK'
<1>0. {"failed", "refused", "answered"} \subseteq Answers
      /\ {"TaskList", "ServiceList", "Respond", "NodeUpdate"} \subseteq Calls
  BY DEF Answers, Calls, DockerCalls
<1>1. CASE NodeList(r)
  <2>1. Shared'
    BY <1>1, SameShared DEF NodeList, TypeOK
  <2>2. [loc[r] EXCEPT !.ready = {n \in Nodes : nodes[n].up}] \in Locals
    BY Types DEF Locals
  <2>3. [hist[r] EXCEPT !.steady = Up, !.seen = Up] \in Histories
    BY UpType, Types DEF Histories
  <2>. QED  BY <1>0, <1>1, <2>1, <2>2, <2>3, NodeListMoves, MovesTypeOK
<1>2. CASE ServiceList(r)
  <2>. DEFINE l == [loc[r] EXCEPT !.svc = service]
  <2>1. l \in Locals
    BY Types DEF Locals, TypeOK
  <2>2. Reads(r, l, "TaskList")
    BY <1>2 DEF ServiceList
  <2>. HIDE DEF l
  <2>. QED  BY <1>0, <2>1, <2>2, ReadsType
<1>3. CASE TaskList(r)
  <2>. DEFINE l == [loc[r] EXCEPT !.status = Status(loc[r].ready, loc[r].svc)]
  <2>1. l \in Locals
    BY Types, StatusType DEF Locals
  <2>2. \/ Reads(r, l, "Respond") \/ Reads(r, loc[r], "Respond") \/ Refuses(r, "refused")
    BY <1>3 DEF TaskList
  <2>. HIDE DEF l
  <2>. QED  BY <1>0, <2>1, <2>2, Types, ReadsType, RefusesType
<1>4. CASE ServiceInspect(r) \/ ServiceLogs(r) \/ Inspect(r) \/ Respond(r)
  <2>1. \/ Reads(r, loc[r], "Respond") \/ Refuses(r, "refused")
        \/ Refuses(r, "failed") \/ Refuses(r, "answered")
    BY <1>4 DEF ServiceInspect, ServiceLogs, Inspect, Respond
  <2>. QED  BY <1>0, <2>1, Types, ReadsType, RefusesType
<1>5. CASE NodeInspect(r) \/ Refresh(r)
  <2>. DEFINE l == [loc[r] EXCEPT !.inspected = nodes[loc[r].node]]
  <2>1. l \in Locals
    BY Types DEF Locals, TypeOK
  <2>2. Reads(r, l, "NodeUpdate") \/ Reads(r, l, "Respond")
    BY <1>5 DEF NodeInspect, Refresh
  <2>. HIDE DEF l
  <2>. QED  BY <1>0, <2>1, <2>2, ReadsType
<1>. QED  BY <1>1, <1>2, <1>3, <1>4, <1>5

(* An update that is accepted, and one that is refused.                     *)
LEMMA NodeUpdateMoves ==
  ASSUME TypeOK, NEW r \in Requests, NodeUpdate(r), NEW n, n = loc[r].node
  PROVE  \/ Refuses(r, "failed")
         \/ /\ nodes[n].version = loc[r].inspected.version
            /\ nodes' = [nodes EXCEPT ![n].version = nodes[n].version + 1,
                                      ![n].spec = nodes[n].version + 1]
            /\ UNCHANGED <<db, service, tasks, configs, ids, changes>>
            /\ \/ Ends(r) /\ Fault
               \/ /\ Moves(r, "Refresh", loc[r],
                           [hist[r] EXCEPT !.made = nodes[n].version + 1, !.over = nodes[n].spec,
                                           !.based = loc[r].inspected.spec])
                  /\ UNCHANGED faults
<1>1. CASE Refuses(r, "failed")
  BY <1>1
<1>2. CASE ~Refuses(r, "failed")
  <2>. DEFINE h == [hist[r] EXCEPT !.made = nodes[n].version + 1, !.over = nodes[n].spec,
                                   !.based = loc[r].inspected.spec]
  <2>1. /\ nodes[n].version = loc[r].inspected.version
        /\ nodes' = [nodes EXCEPT ![n].version = nodes[n].version + 1,
                                  ![n].spec = nodes[n].version + 1]
        /\ UNCHANGED <<db, service, tasks, configs, ids, changes>>
    BY <1>2 DEF NodeUpdate, Version
  <2>2. CASE Fault /\ Answer(r, "failed")
    BY <2>1, <2>2, AnswerMoves DEF Ends, Answers
  <2>3. CASE /\ Goto(r, "Refresh") /\ UNCHANGED <<loc, faults>>
             /\ hist' = [hist EXCEPT ![r].made = nodes[n].version + 1, ![r].over = nodes[n].spec,
                                     ![r].based = loc[r].inspected.spec]
    <3>1. hist' = [hist EXCEPT ![r] = h]
      BY <2>3 DEF TypeOK
    <3>2. loc' = [loc EXCEPT ![r] = loc[r]]
      BY <2>3, Types
    <3>. QED  BY <2>1, <2>3, <3>1, <3>2 DEF Moves, Goto
  <2>. QED  BY <1>2, <2>1, <2>2, <2>3 DEF NodeUpdate
<1>. QED  BY <1>1, <1>2

LEMMA WritesType ==
  ASSUME TypeOK, NEW r \in Requests, NodeUpdate(r) \/ ConfigCreate(r) \/ ConfigRemove(r)
  PROVE  TypeOK'
<1>0. "failed" \in Answers /\ {"Refresh", "Respond"} \subseteq Calls
  BY DEF Answers, Calls, DockerCalls
<1>1. CASE NodeUpdate(r)
  <2>. DEFINE n == loc[r].node
              h == [hist[r] EXCEPT !.made = nodes[n].version + 1, !.over = nodes[n].spec,
                                   !.based = loc[r].inspected.spec]
  <2>1. CASE Refuses(r, "failed")
    BY <1>0, <2>1, RefusesType
  <2>2. CASE /\ nodes' = [nodes EXCEPT ![n].version = nodes[n].version + 1,
                                       ![n].spec = nodes[n].version + 1]
             /\ UNCHANGED <<db, service, tasks, configs, ids, changes>>
             /\ \/ Ends(r) /\ Fault
                \/ Moves(r, "Refresh", loc[r], h) /\ UNCHANGED faults
    <3>1. n \in Nodes /\ nodes[n].version \in Nat /\ nodes[n].spec \in Nat
          /\ loc[r].inspected.spec \in Nat
      BY Types DEF TypeOK, NodeStates
    <3>2. nodes' \in [Nodes -> NodeStates]
      BY <2>2, <3>1 DEF TypeOK, NodeStates
    <3>3. faults' \in Nat
      BY <2>2, FaultType
    <3>4. Shared'
      BY <2>2, <3>2, <3>3 DEF Shared, TypeOK, db
    <3>5. h \in Histories
      <4>1. hist[r] \in Histories /\ nodes[n].version + 1 \in Nat
        BY <3>1, Types
      <4>. HIDE DEF n
      <4>. QED  BY <3>1, <4>1 DEF Histories
    <3>. HIDE DEF h
    <3>. QED  BY <1>0, <2>2, <3>4, <3>5, Types, EndsTypeOK, MovesTypeOK
  <2>. QED  BY <1>1, <2>1, <2>2, NodeUpdateMoves
<1>2. CASE ConfigCreate(r) \/ ConfigRemove(r)
  <2>1. CASE Refuses(r, "failed")
    BY <1>0, <2>1, RefusesType
  <2>2. CASE /\ configs' \subseteq Configs /\ Outcome(r, "Respond")
             /\ UNCHANGED <<db, nodes, service, tasks, ids, changes>>
    <3>1. faults' \in Nat => Shared'
      BY <2>2 DEF Shared, TypeOK, db
    <3>. QED  BY <1>0, <2>2, <3>1, OutcomeType
  <2>. QED  BY <1>2, <2>1, <2>2 DEF ConfigCreate, ConfigRemove, TypeOK
<1>. QED  BY <1>1, <1>2

(* The steps of the others, and a crash.                                    *)
OthersNext ==
    \/ \E n \in Nodes : NodeTurns(n) \/ NodeSet(n)
    \/ \E t \in Tasks : TaskTurns(t)
    \/ ServiceGone \/ ServiceMade

LEMMA TaskParts ==
  ASSUME NEW u \in TaskStates, NEW i \in Nat
  PROVE  /\ [u EXCEPT !.running = FALSE] \in TaskStates
         /\ [u EXCEPT !.running = TRUE] \in TaskStates
         /\ [u EXCEPT !.shutdown = TRUE] \in TaskStates
         /\ [u EXCEPT !.service = 0, !.running = FALSE] \in TaskStates
         /\ [u EXCEPT !.service = i, !.shutdown = FALSE] \in TaskStates
  BY DEF TaskStates

LEMMA NodeParts ==
  ASSUME NEW s \in NodeStates
  PROVE  /\ [s EXCEPT !.version = s.version + 1, !.up = ~s.up] \in NodeStates
         /\ [s EXCEPT !.version = s.version + 1, !.spec = s.version + 1] \in NodeStates
<1>1. s.version + 1 \in Nat /\ (~s.up) \in BOOLEAN
  BY DEF NodeStates
<1>. QED  BY <1>1, Zenon DEF NodeStates

(* What a step of the others does to a node or a task.                      *)
LEMMA NodeChanges ==
  ASSUME TypeOK, NEW n \in Nodes
  PROVE  /\ NodeTurns(n) => nodes' = [nodes EXCEPT ![n] =
                [nodes[n] EXCEPT !.version = nodes[n].version + 1, !.up = ~nodes[n].up]]
         /\ NodeSet(n) => nodes' = [nodes EXCEPT ![n] =
                [nodes[n] EXCEPT !.version = nodes[n].version + 1, !.spec = nodes[n].version + 1]]
  BY DEF NodeTurns, NodeSet, TypeOK

LEMMA TaskChanges ==
  ASSUME TypeOK, NEW t \in Tasks, TaskTurns(t)
  PROVE  \/ tasks' = [tasks EXCEPT ![t] = [tasks[t] EXCEPT !.running = FALSE]]
         \/ tasks' = [tasks EXCEPT ![t] = [tasks[t] EXCEPT !.shutdown = TRUE]]
         \/ /\ nodes[tasks[t].node].up
            /\ tasks' = [tasks EXCEPT ![t] = [tasks[t] EXCEPT !.running = TRUE]]
<1>1. /\ [tasks EXCEPT ![t].running = FALSE]
           = [tasks EXCEPT ![t] = [tasks[t] EXCEPT !.running = FALSE]]
      /\ [tasks EXCEPT ![t].running = TRUE]
           = [tasks EXCEPT ![t] = [tasks[t] EXCEPT !.running = TRUE]]
      /\ [tasks EXCEPT ![t].shutdown = TRUE]
           = [tasks EXCEPT ![t] = [tasks[t] EXCEPT !.shutdown = TRUE]]
  BY DEF TypeOK
<1>2. \/ tasks' = [tasks EXCEPT ![t].running = FALSE]
      \/ tasks' = [tasks EXCEPT ![t].shutdown = TRUE]
      \/ nodes[tasks[t].node].up /\ tasks' = [tasks EXCEPT ![t].running = TRUE]
  BY Zenon DEF TaskTurns
<1>. QED  BY <1>1, <1>2, Zenon

LEMMA OthersSwarmType ==
  ASSUME TypeOK, OthersNext
  PROVE  /\ nodes' \in [Nodes -> NodeStates] /\ service' \in Services
         /\ tasks' \in [Tasks -> TaskStates] /\ ids' \in Nat /\ Others
<1>0. /\ nodes \in [Nodes -> NodeStates] /\ service \in Services
      /\ tasks \in [Tasks -> TaskStates] /\ ids \in Nat
  BY DEF TypeOK
<1>1. ASSUME NEW n \in Nodes, NodeTurns(n) \/ NodeSet(n)
      PROVE  nodes' \in [Nodes -> NodeStates]
  <2>1. PICK s \in NodeStates : nodes' = [nodes EXCEPT ![n] = s]
    <3>1. nodes[n] \in NodeStates
      BY <1>0
    <3>. QED  BY <1>1, <3>1, NodeParts, NodeChanges, Zenon
  <2>. QED  BY <1>0, <2>1
<1>2. ASSUME NEW t \in Tasks, TaskTurns(t) PROVE tasks' \in [Tasks -> TaskStates]
  <2>1. PICK u \in TaskStates : tasks' = [tasks EXCEPT ![t] = u]
    <3>1. tasks[t] \in TaskStates
      BY <1>0
    <3>. QED  BY <1>0, <1>2, <3>1, TaskParts, TaskChanges, Zenon
  <2>. QED  BY <1>0, <2>1
<1>3. ASSUME ServiceGone
      PROVE  tasks' \in [Tasks -> TaskStates] /\ service' \in Services
  <2>1. \A t \in Tasks : [tasks[t] EXCEPT !.service = 0, !.running = FALSE] \in TaskStates
    BY <1>0, TaskParts
  <2>2. tasks' = [t \in Tasks |-> [tasks[t] EXCEPT !.service = 0, !.running = FALSE]]
        /\ service' = NoService
    BY <1>3 DEF ServiceGone
  <2>3. tasks' \in [Tasks -> TaskStates]
    BY <2>1, <2>2, Zenon
  <2>4. NoService \in Services
    BY DEF NoService, Services
  <2>. QED  BY <2>2, <2>3, <2>4
<1>4. ASSUME ServiceMade
      PROVE  tasks' \in [Tasks -> TaskStates] /\ service' \in Services /\ ids' \in Nat
  <2>4. ids + 1 \in Nat /\ 1 \in Nat
    BY <1>0
  <2>1. \A t \in Tasks : [tasks[t] EXCEPT !.service = ids + 1, !.shutdown = FALSE] \in TaskStates
    <3>1. \A t \in Tasks : tasks[t] \in TaskStates
      BY <1>0
    <3>. QED  BY <2>4, <3>1, TaskParts, Zenon
  <2>2. /\ tasks' = [t \in Tasks |-> [tasks[t] EXCEPT !.service = ids + 1, !.shutdown = FALSE]]
        /\ ids' = ids + 1
        /\ \E global \in BOOLEAN : service' = [id |-> ids + 1, global |-> global, replicas |-> 1]
    BY <1>4 DEF ServiceMade
  <2>3. tasks' \in [Tasks -> TaskStates]
    BY <2>1, <2>2, Zenon
  <2>5. \A i \in Nat : \A b \in BOOLEAN : [id |-> i, global |-> b, replicas |-> 1] \in Services
    BY DEF Services
  <2>6. service' \in Services
    BY <2>2, <2>4, <2>5, Zenon
  <2>. QED  BY <2>2, <2>3, <2>4, <2>6
<1>5. CASE \E n \in Nodes : NodeTurns(n) \/ NodeSet(n)
  BY <1>0, <1>1, <1>5 DEF NodeTurns, NodeSet
<1>6. CASE \E t \in Tasks : TaskTurns(t)
  BY <1>0, <1>2, <1>6 DEF TaskTurns
<1>7. CASE ServiceGone
  BY <1>0, <1>3, <1>7 DEF ServiceGone
<1>8. CASE ServiceMade
  BY <1>0, <1>4, <1>8 DEF ServiceMade
<1>. QED  BY <1>5, <1>6, <1>7, <1>8 DEF OthersNext

LEMMA OthersLeave ==
  Others => UNCHANGED <<db, configs, pc, loc, faults>> /\ changes' = changes + 1
  BY Zenon DEF Others

LEMMA OthersType == ASSUME TypeOK, OthersNext PROVE TypeOK'
<1>1. /\ nodes' \in [Nodes -> NodeStates] /\ service' \in Services
      /\ tasks' \in [Tasks -> TaskStates] /\ ids' \in Nat /\ Others
  BY OthersSwarmType
<1>2. Up' \subseteq Tasks \X Nat
  BY <1>1 DEF Up, TaskStates
<1>3. hist' \in [Requests -> Histories]
  <2>1. \A r \in Requests :
          [hist[r] EXCEPT !.steady = @ \cap Up', !.seen = @ \cup Up'] \in Histories
    BY <1>2 DEF TypeOK, Histories
  <2>. QED  BY <1>1, <2>1 DEF Others, TypeOK
<1>4. /\ clusters' \subseteq Clusters /\ checks' \subseteq Checks /\ events' \subseteq Events
      /\ configs' \subseteq Configs /\ faults' \in Nat /\ changes' \in Nat
  BY <1>1, OthersLeave DEF db, TypeOK
<1>5. pc' \in [Requests -> {"idle"} \cup Calls \cup Answers] /\ loc' \in [Requests -> Locals]
  BY <1>1, OthersLeave DEF TypeOK
<1>6. Shared'
  BY <1>1, <1>4 DEF Shared
<1>. QED  BY <1>3, <1>5, <1>6 DEF Shared, TypeOK

LEMMA CrashType == ASSUME TypeOK, Crash PROVE TypeOK'
<1>1. Shared'
  BY SameShared, FaultType DEF Crash
<1>2. pc' \in [Requests -> {"idle"} \cup Calls \cup Answers]
  BY DEF Crash, TypeOK, Answers
<1>3. loc' \in [Requests -> Locals] /\ hist' \in [Requests -> Histories]
  BY Types, BlankType, NoHistoryType DEF Crash
<1>. QED  BY <1>1, <1>2, <1>3 DEF TypeOK, Shared

-----------------------------------------------------------------------------
(* The look-up *)

Creations == {"clusterCreate", "checkCreate"}

Placed(row, cl) ==
    \/ row.cluster = row.asked /\ row.asked \in cl
    \/ row.cluster = Zero /\ row.tries = MaxTries

(* What the call c that a request makes next says of its locals l, when the *)
(* clusters are cl.                                                         *)
LookupFits(c, l, cl) ==
    /\ c \in LookUp \cup {"idle"} => l.tries < MaxTries
    /\ c \in LookUp => l.op # "clusterCreate" /\ (l.op \notin CheckOps => l.asked = Home)
    /\ c = "InsertCluster" => l.op = "clusterCreate"
    /\ c = "InsertCheck" => l.op = "checkCreate"
    /\ c = "FindChecks" => l.op = "checkList"
    /\ c = "Log" => l.op \in Creations
    /\ c = "Find" => l.op \in {"serviceList", "raw", "logs"}
    /\ c \in {"InsertCheck", "FindChecks"} => Placed(l, cl)
    /\ c \in DockerCalls \cup {"Find"} =>
          l.op \notin CheckOps \cup Creations /\ l.cluster = Home /\ Home \in cl
    /\ c = "Respond" /\ l.op = "checkList" =>
          (\A row \in l.checks : row.cluster = l.asked) \/ l.tries = MaxTries
    /\ c # "Respond" => l.checks = {}

LookupInv ==
    /\ \A r \in Requests : LookupFits(pc[r], loc[r], clusters)
    /\ \A row \in checks : Placed(row, clusters)

LEMMA FitsMore ==
  ASSUME NEW c, NEW l, NEW cl, NEW more, cl \subseteq more, LookupFits(c, l, cl)
  PROVE  LookupFits(c, l, more)
  BY DEF LookupFits, Placed

LEMMA MovesLookup ==
  ASSUME TypeOK, LookupInv, NEW r \in Requests, NEW c \in Calls \cup Answers,
         NEW l \in Locals, NEW h \in Histories, Moves(r, c, l, h),
         clusters \subseteq clusters', \A row \in checks' \ checks : Placed(row, clusters'),
         LookupFits(c, l, clusters')
  PROVE  LookupInv'
<1>1. ASSUME NEW q \in Requests PROVE LookupFits(pc'[q], loc'[q], clusters')
  <2>1. CASE q = r
    BY <2>1, MovesType
  <2>2. CASE q # r
    <3>1. pc'[q] = pc[q] /\ loc'[q] = loc[q]
      BY <2>2, MovesType
    <3>2. LookupFits(pc[q], loc[q], clusters')
      BY FitsMore DEF LookupInv
    <3>. QED  BY <3>1, <3>2
  <2>. QED  BY <2>1, <2>2
<1>2. \A row \in checks' : Placed(row, clusters')
  BY DEF LookupInv, Placed
<1>. QED  BY <1>1, <1>2 DEF LookupInv, LookupFits, Placed

LEMMA EndFits ==
  ASSUME NEW a \in Answers, NEW n \in Nodes, NEW cl PROVE LookupFits(a, Blank(n), cl)
  BY DEF Answers, LookupFits, Blank, LookUp, DockerCalls

LEMMA EndsLookup ==
  ASSUME TypeOK, LookupInv, NEW r \in Requests, Ends(r),
         clusters \subseteq clusters', \A row \in checks' \ checks : Placed(row, clusters')
  PROVE  LookupInv'
<1>1. PICK a \in Answers : Moves(r, a, Blank(loc[r].node), NoHistory)
  BY DEF Ends
<1>2. LookupFits(a, Blank(loc[r].node), clusters') /\ Blank(loc[r].node) \in Locals
  BY EndFits, Types, BlankType
<1>. QED  BY <1>1, <1>2, NoHistoryType, MovesLookup

LEMMA StaysLookup ==
  ASSUME TypeOK, LookupInv, NEW r \in Requests, NEW c \in Calls, Stays(r, c),
         clusters \subseteq clusters', \A row \in checks' \ checks : Placed(row, clusters'),
         LookupFits(c, loc[r], clusters')
  PROVE  LookupInv'
  BY Types, MovesLookup DEF Stays

(* A step of a request that leaves the tables alone.                        *)
LEMMA ReadsLookup ==
  ASSUME TypeOK, LookupInv, NEW r \in Requests, NEW l \in Locals, NEW c \in Calls,
         Reads(r, l, c), LookupFits(c, l, clusters)
  PROVE  LookupInv'
<1>1. clusters' = clusters /\ checks' = checks
  BY DEF Reads, db
<1>. QED  BY <1>1, ReadsMoves, Types, MovesLookup

LEMMA RefusesLookup ==
  ASSUME TypeOK, LookupInv, NEW r \in Requests, NEW a \in Answers, Refuses(r, a)
  PROVE  LookupInv'
<1>1. clusters' = clusters /\ checks' = checks
  BY DEF Refuses, db
<1>. QED  BY <1>1, EndsMoves, EndsLookup DEF Ends

LEMMA OutcomeLookup ==
  ASSUME TypeOK, LookupInv, NEW r \in Requests, NEW c \in Calls, Outcome(r, c),
         clusters \subseteq clusters', \A row \in checks' \ checks : Placed(row, clusters'),
         LookupFits(c, loc[r], clusters')
  PROVE  LookupInv'
  BY OutcomeMoves, StaysLookup, EndsLookup

(* A request that works on the swarm keeps its operation and its cluster.   *)
LEMMA DockerFits ==
  ASSUME LookupInv, NEW r \in Requests, pc[r] \in DockerCalls \cup {"Find"},
         NEW c \in DockerCalls \cup {"Respond"}, NEW l,
         l.op = loc[r].op, l.cluster = loc[r].cluster, l.checks = loc[r].checks
  PROVE  LookupFits(c, l, clusters)
  BY DEF LookupInv, LookupFits, DockerCalls, LookUp

LEMMA StartLookup ==
  ASSUME TypeOK, LookupInv, NEW r \in Requests, Start(r) PROVE LookupInv'
<1>1. pc[r] = "idle" /\ clusters' = clusters /\ checks' = checks
  BY DEF Start, db
<1>2. loc[r].tries < MaxTries /\ loc[r].checks = {}
  BY <1>1 DEF LookupInv, LookupFits
<1>3. PICK op \in Ops, k \in Clusters, n \in Nodes :
        /\ op \notin CheckOps \cup {"clusterCreate"} => k = Home
        /\ Moves(r, IF op = "clusterCreate" THEN First[op] ELSE "Prepare",
                 [loc[r] EXCEPT !.op = op, !.asked = k, !.node = n], hist[r])
  BY StartMoves
<1>. DEFINE l == [loc[r] EXCEPT !.op = op, !.asked = k, !.node = n]
            c == IF op = "clusterCreate" THEN First[op] ELSE "Prepare"
<1>4. /\ l \in Locals /\ l.op = op /\ l.asked = k /\ l.tries = loc[r].tries
      /\ l.checks = loc[r].checks
  BY Types DEF Locals
<1>5. (op = "clusterCreate" => c = "InsertCluster") /\ (op # "clusterCreate" => c = "Prepare")
  BY DEF First, Ops
<1>. HIDE DEF l, c
<1>6. LookupFits(c, l, clusters)
  BY <1>2, <1>3, <1>4, <1>5 DEF LookupFits, LookUp, DockerCalls
<1>7. c \in Calls
  BY <1>5 DEF Calls, LookUp
<1>8. Moves(r, c, l, hist[r])
  BY <1>3 DEF c, l
<1>. QED  BY <1>1, <1>4, <1>6, <1>7, <1>8, Types, MovesLookup

LEMMA GetLookup ==
  ASSUME TypeOK, LookupInv, NEW r \in Requests, Get(r) PROVE LookupInv'
<1>1. pc[r] = "Get" /\ clusters' = clusters /\ checks' = checks
  BY DEF Get, db
<1>2. /\ loc[r].tries < MaxTries /\ loc[r].checks = {}
      /\ loc[r].op # "clusterCreate" /\ (loc[r].op \notin CheckOps => loc[r].asked = Home)
  BY <1>1 DEF LookupInv, LookupFits, LookUp
<1>3. CASE Ends(r)
  BY <1>1, <1>3, EndsLookup
<1>4. CASE /\ TryAgain(NextTry(loc[r].tries))
           /\ Moves(r, "Get", [loc[r] EXCEPT !.tries = NextTry(@)], hist[r])
  <2>. DEFINE l == [loc[r] EXCEPT !.tries = NextTry(@)]
  <2>1. /\ l \in Locals /\ l.op = loc[r].op /\ l.asked = loc[r].asked
        /\ l.tries < MaxTries /\ l.checks = loc[r].checks
    BY <1>4, Types DEF TryAgain, NextTry, Locals
  <2>2. Moves(r, "Get", l, hist[r])
    BY <1>4
  <2>. HIDE DEF l
  <2>3. LookupFits("Get", l, clusters)
    BY <1>2, <2>1 DEF LookupFits, DockerCalls
  <2>. QED  BY <1>1, <2>1, <2>2, <2>3, Types, MovesLookup DEF Calls, LookUp
<1>5. ASSUME NEW k \in Clusters \cup {Zero}, Proceeds(loc[r].op, k),
             \/ k = loc[r].asked /\ k \in clusters
             \/ k = Zero /\ ~TryAgain(NextTry(loc[r].tries)),
             Moves(r, First[loc[r].op],
                   [loc[r] EXCEPT !.cluster = k,
                      !.tries = IF k = Zero THEN NextTry(loc[r].tries) ELSE 0], hist[r])
      PROVE  LookupInv'
  <2>. DEFINE i == IF k = Zero THEN NextTry(loc[r].tries) ELSE 0
              l == [loc[r] EXCEPT !.cluster = k, !.tries = i]
  <2>1. i \in 0..MaxTries /\ (k = Zero => i = MaxTries)
    BY <1>2, <1>5, Types DEF NextTry, TryAgain
  <2>2. Moves(r, First[loc[r].op], l, hist[r])
    BY <1>5
  <2>. HIDE DEF i
  <2>3. /\ l \in Locals /\ l.op = loc[r].op /\ l.asked = loc[r].asked
        /\ l.tries = i /\ l.checks = {} /\ l.cluster = k
    BY <1>2, <2>1, Types DEF Locals
  <2>. HIDE DEF l
  <2>4. l.asked \in Clusters
    BY <2>3, Types
  <2>5. Placed(l, clusters)
    BY <1>5, <2>1, <2>3 DEF Placed
  <2>6. l.op \notin CheckOps => l.cluster = Home /\ Home \in clusters
    BY <1>2, <1>5, <2>3 DEF Proceeds
  <2>7. l.op \in Ops \ {"clusterCreate"} /\ First[l.op] \in Calls
    BY <1>2, <2>3, Types, FirstType
  <2>8. LookupFits(First[l.op], l, clusters)
    <3>1. CASE l.op \in CheckOps
      <4>1. \/ l.op = "checkCreate" /\ First[l.op] = "InsertCheck"
            \/ l.op = "checkList" /\ First[l.op] = "FindChecks"
        BY <3>1, <2>7 DEF First, CheckOps
      <4>. QED  BY <2>3, <2>5, <4>1 DEF LookupFits, LookUp, DockerCalls
    <3>2. CASE l.op \notin CheckOps
      <4>1. /\ First[l.op] \in DockerCalls \cup {"Find"}
            /\ First[l.op] = "Find" => l.op \in {"serviceList", "raw", "logs"}
            /\ l.op \notin Creations
        BY <3>2, <2>7 DEF First, Ops, CheckOps, DockerCalls, Creations
      <4>. QED  BY <2>3, <2>6, <3>2, <4>1 DEF LookupFits, LookUp, DockerCalls
    <3>. QED  BY <3>1, <3>2
  <2>. QED  BY <1>1, <2>2, <2>3, <2>7, <2>8, Types, MovesLookup
<1>. QED  BY <1>3, <1>4, <1>5, GetMoves

LEMMA LookupStep ==
  ASSUME TypeOK, LookupInv, NEW r \in Requests,
         Start(r) \/ CallFails(r) \/ Prepare(r) \/ Get(r)
  PROVE  LookupInv'
<1>1. CASE CallFails(r)
  <2>1. Ends(r) /\ clusters' = clusters /\ checks' = checks
    BY <1>1, AnswerMoves DEF CallFails, Ends, Answers, db
  <2>. QED  BY <2>1, EndsLookup
<1>2. CASE Prepare(r)
  <2>1. Stays(r, "Get") /\ clusters' = clusters /\ checks' = checks
    BY <1>2, Types DEF Prepare, Stays, Moves, Goto, db
  <2>2. LookupFits("Get", loc[r], clusters)
    BY <1>2 DEF Prepare, LookupInv, LookupFits, LookUp, DockerCalls
  <2>. QED  BY <2>1, <2>2, StaysLookup DEF Calls, LookUp
<1>. QED  BY <1>1, <1>2, StartLookup, GetLookup

LEMMA TablesLookup ==
  ASSUME TypeOK, LookupInv, NEW r \in Requests,
         InsertCluster(r) \/ InsertCheck(r) \/ FindChecks(r) \/ Log(r)
  PROVE  LookupInv'
<1>0. {"failed", "refused"} \subseteq Answers /\ {"Log", "Respond"} \subseteq Calls
  BY DEF Answers, Calls
<1>1. CASE InsertCluster(r)
  <2>1. CASE Refuses(r, "failed")
    BY <1>0, <2>1, RefusesLookup
  <2>2. CASE /\ clusters' = clusters \cup {loc[r].asked} /\ Outcome(r, "Log")
             /\ UNCHANGED <<checks, events, swarm, changes>>
    <3>1. LookupFits("Log", loc[r], clusters')
      BY <1>1 DEF InsertCluster, LookupInv, LookupFits, LookUp, DockerCalls, Creations
    <3>. QED  BY <1>0, <2>2, <3>1, OutcomeLookup
  <2>. QED  BY <1>1, <2>1, <2>2 DEF InsertCluster
<1>2. CASE InsertCheck(r)
  <2>. DEFINE row == [by |-> r, cluster |-> loc[r].cluster,
                      asked |-> loc[r].asked, tries |-> loc[r].tries]
  <2>1. CASE Refuses(r, "refused")
    BY <1>0, <2>1, RefusesLookup
  <2>2. CASE /\ checks' = checks \cup {row} /\ Outcome(r, "Log")
             /\ UNCHANGED <<clusters, events, swarm, changes>>
    <3>1. LookupFits("Log", loc[r], clusters) /\ Placed(loc[r], clusters)
      BY <1>2 DEF InsertCheck, LookupInv, LookupFits, LookUp, DockerCalls, Creations
    <3>2. Placed(row, clusters)
      BY <3>1 DEF Placed
    <3>. HIDE DEF row
    <3>. QED  BY <1>0, <2>2, <3>1, <3>2, OutcomeLookup
  <2>. QED  BY <1>2, <2>1, <2>2 DEF InsertCheck
<1>3. CASE FindChecks(r)
  <2>. DEFINE l == [loc[r] EXCEPT !.checks = {row \in checks : loc[r].cluster \in {Zero, row.cluster}}]
  <2>0. /\ pc[r] = "FindChecks" /\ loc[r].op = "checkList"
        /\ loc[r].checks = {} /\ Placed(loc[r], clusters)
    BY <1>3 DEF FindChecks, LookupInv, LookupFits
  <2>1. CASE Reads(r, l, "Respond")
    <3>1. l \in Locals /\ l.op = "checkList" /\ l.asked = loc[r].asked /\ l.tries = loc[r].tries
          /\ \A row \in l.checks : loc[r].cluster \in {Zero, row.cluster}
      BY <2>0, Types DEF Locals, TypeOK
    <3>2. (\A row \in l.checks : row.cluster = l.asked) \/ l.tries = MaxTries
      BY <2>0, <3>1, Types DEF Placed
    <3>. HIDE DEF l
    <3>3. LookupFits("Respond", l, clusters)
      BY <3>1, <3>2 DEF LookupFits, LookUp, DockerCalls
    <3>. QED  BY <1>0, <2>1, <3>1, <3>3, ReadsLookup
  <2>2. CASE Fault /\ Goto(r, "Respond") /\ UNCHANGED <<db, swarm, loc, changes, hist>>
    <3>1. Stays(r, "Respond") /\ clusters' = clusters /\ checks' = checks
      BY <2>2, Types DEF Stays, Moves, Goto, db
    <3>2. LookupFits("Respond", loc[r], clusters)
      BY <2>0 DEF LookupFits, LookUp, DockerCalls
    <3>. QED  BY <1>0, <3>1, <3>2, StaysLookup
  <2>. QED  BY <1>3, <2>1, <2>2 DEF FindChecks
<1>4. CASE Log(r)
  <2>1. Stays(r, "Respond") /\ clusters' = clusters /\ checks' = checks
    BY <1>4, Types DEF Log, Stays, Moves, Goto
  <2>2. LookupFits("Respond", loc[r], clusters)
    BY <1>4 DEF Log, LookupInv, LookupFits, LookUp, DockerCalls, Creations
  <2>. QED  BY <1>0, <2>1, <2>2, StaysLookup
<1>. QED  BY <1>1, <1>2, <1>3, <1>4

(* A request that keeps its operation and cluster while it works on Docker. *)
LEMMA DockerMoves ==
  ASSUME TypeOK, LookupInv, NEW r \in Requests, pc[r] \in DockerCalls \cup {"Find"},
         NEW c \in DockerCalls \cup {"Respond"}, NEW l \in Locals, NEW h \in Histories,
         Moves(r, c, l, h), UNCHANGED db,
         l.op = loc[r].op, l.cluster = loc[r].cluster, l.checks = loc[r].checks
  PROVE  LookupInv'
<1>1. clusters' = clusters /\ checks' = checks /\ c \in Calls
  BY DEF db, Calls
<1>2. LookupFits(c, l, clusters')
  BY <1>1, DockerFits
<1>. QED  BY <1>1, <1>2, MovesLookup

LEMMA DockerReads ==
  ASSUME TypeOK, LookupInv, NEW r \in Requests, pc[r] \in DockerCalls \cup {"Find"},
         NEW c \in DockerCalls \cup {"Respond"}, NEW l \in Locals, Reads(r, l, c),
         l.op = loc[r].op, l.cluster = loc[r].cluster, l.checks = loc[r].checks
  PROVE  LookupInv'
  BY ReadsMoves, Types, DockerMoves

LEMMA SwarmLookup ==
  ASSUME TypeOK, LookupInv, NEW r \in Requests,
         \/ Find(r) \/ NodeList(r) \/ ServiceList(r) \/ TaskList(r) \/ ServiceInspect(r)
         \/ ServiceLogs(r) \/ NodeInspect(r) \/ Refresh(r) \/ Inspect(r) \/ Respond(r)
  PROVE  LookupInv'
<1>0. /\ {"failed", "refused", "answered"} \subseteq Answers
      /\ {"NodeList", "ServiceList", "TaskList", "ServiceInspect", "ServiceLogs",
          "NodeInspect", "NodeUpdate", "Refresh", "Inspect"} \subseteq DockerCalls
  BY DEF Answers, DockerCalls
<1>1. CASE Find(r)
  <2>1. AfterFind[loc[r].op] \in DockerCalls
    <3>1. loc[r].op \in {"serviceList", "raw", "logs"}
      BY <1>1 DEF Find, LookupInv, LookupFits
    <3>. QED  BY <1>0, <3>1 DEF AfterFind
  <2>2. \/ \E c \in DockerCalls \cup {"Respond"} : Reads(r, loc[r], c)
        \/ Refuses(r, "refused")
    BY <1>1, <2>1 DEF Find
  <2>. QED  BY <1>0, <1>1, <2>2, Types, DockerReads, RefusesLookup DEF Find
<1>2. CASE NodeList(r)
  <2>. DEFINE l == [loc[r] EXCEPT !.ready = {n \in Nodes : nodes[n].up}]
              h == [hist[r] EXCEPT !.steady = Up, !.seen = Up]
              c == IF loc[r].op = "taskList" THEN "TaskList" ELSE "ServiceList"
  <2>1. /\ l \in Locals /\ l.op = loc[r].op /\ l.cluster = loc[r].cluster
        /\ l.checks = loc[r].checks
    BY Types DEF Locals
  <2>2. h \in Histories /\ c \in DockerCalls \cup {"Respond"}
    BY <1>0, UpType, Types DEF Histories
  <2>3. Moves(r, c, l, h) /\ pc[r] = "NodeList" /\ UNCHANGED db
    BY <1>2, NodeListMoves DEF NodeList
  <2>. HIDE DEF l, h, c
  <2>. QED  BY <1>0, <2>1, <2>2, <2>3, DockerMoves
<1>3. CASE ServiceList(r)
  <2>. DEFINE l == [loc[r] EXCEPT !.svc = service]
  <2>1. /\ l \in Locals /\ l.op = loc[r].op /\ l.cluster = loc[r].cluster
        /\ l.checks = loc[r].checks
    BY Types DEF Locals, TypeOK
  <2>2. Reads(r, l, "TaskList") /\ pc[r] = "ServiceList"
    BY <1>3 DEF ServiceList
  <2>. HIDE DEF l
  <2>. QED  BY <1>0, <2>1, <2>2, DockerReads
<1>4. CASE TaskList(r)
  <2>. DEFINE l == [loc[r] EXCEPT !.status = Status(loc[r].ready, loc[r].svc)]
  <2>1. /\ l \in Locals /\ l.op = loc[r].op /\ l.cluster = loc[r].cluster
        /\ l.checks = loc[r].checks
    BY Types, StatusType DEF Locals
  <2>2. /\ Reads(r, l, "Respond") \/ Reads(r, loc[r], "Respond") \/ Refuses(r, "refused")
        /\ pc[r] = "TaskList"
    BY <1>4 DEF TaskList
  <2>. HIDE DEF l
  <2>. QED  BY <1>0, <2>1, <2>2, Types, DockerReads, RefusesLookup
<1>5. CASE ServiceInspect(r) \/ ServiceLogs(r) \/ Inspect(r)
  <2>1. /\ Reads(r, loc[r], "Respond") \/ Refuses(r, "refused") \/ Refuses(r, "failed")
        /\ pc[r] \in {"ServiceInspect", "ServiceLogs", "Inspect"}
    BY <1>5 DEF ServiceInspect, ServiceLogs, Inspect
  <2>. QED  BY <1>0, <2>1, Types, DockerReads, RefusesLookup
<1>6. CASE NodeInspect(r) \/ Refresh(r)
  <2>. DEFINE l == [loc[r] EXCEPT !.inspected = nodes[loc[r].node]]
  <2>1. /\ l \in Locals /\ l.op = loc[r].op /\ l.cluster = loc[r].cluster
        /\ l.checks = loc[r].checks
    BY Types DEF Locals, TypeOK
  <2>2. /\ Reads(r, l, "NodeUpdate") \/ Reads(r, l, "Respond")
        /\ pc[r] \in {"NodeInspect", "Refresh"}
    BY <1>6 DEF NodeInspect, Refresh
  <2>. HIDE DEF l
  <2>. QED  BY <1>0, <2>1, <2>2, DockerReads
<1>7. CASE Respond(r)
  BY <1>0, <1>7, RefusesLookup DEF Respond
<1>. QED  BY <1>1, <1>2, <1>3, <1>4, <1>5, <1>6, <1>7

LEMMA WritesLookup ==
  ASSUME TypeOK, LookupInv, NEW r \in Requests,
         NodeUpdate(r) \/ ConfigCreate(r) \/ ConfigRemove(r)
  PROVE  LookupInv'
<1>0. "failed" \in Answers /\ {"NodeUpdate", "Refresh", "ConfigCreate", "ConfigRemove"} \subseteq DockerCalls
  BY DEF Answers, DockerCalls
<1>1. CASE NodeUpdate(r)
  <2>. DEFINE n == loc[r].node
              h == [hist[r] EXCEPT !.made = nodes[n].version + 1, !.over = nodes[n].spec,
                                   !.based = loc[r].inspected.spec]
  <2>1. CASE Refuses(r, "failed")
    BY <1>0, <2>1, RefusesLookup
  <2>2. CASE Ends(r) /\ UNCHANGED db
    <3>1. clusters' = clusters /\ checks' = checks
      BY <2>2 DEF db
    <3>. QED  BY <2>2, <3>1, EndsLookup
  <2>3. CASE Moves(r, "Refresh", loc[r], h) /\ UNCHANGED db
    <3>1. n \in Nodes /\ nodes[n].version \in Nat /\ nodes[n].spec \in Nat
          /\ loc[r].inspected.spec \in Nat
      BY Types DEF TypeOK, NodeStates
    <3>2. h \in Histories
      <4>1. hist[r] \in Histories /\ nodes[n].version + 1 \in Nat
        BY <3>1, Types
      <4>. HIDE DEF n
      <4>. QED  BY <3>1, <4>1 DEF Histories
    <3>. HIDE DEF h
    <3>. QED  BY <1>0, <1>1, <2>3, <3>2, Types, DockerMoves DEF NodeUpdate
  <2>. QED  BY <1>1, <2>1, <2>2, <2>3, NodeUpdateMoves
<1>2. CASE ConfigCreate(r) \/ ConfigRemove(r)
  <2>1. CASE Refuses(r, "failed")
    BY <1>0, <2>1, RefusesLookup
  <2>2. CASE Outcome(r, "Respond") /\ UNCHANGED db
    <3>1. clusters' = clusters /\ checks' = checks /\ "Respond" \in Calls
      BY <2>2 DEF db, Calls
    <3>2. LookupFits("Respond", loc[r], clusters)
      BY <1>0, <1>2, DockerFits DEF ConfigCreate, ConfigRemove
    <3>. QED  BY <2>2, <3>1, <3>2, OutcomeLookup
  <2>. QED  BY <1>2, <2>1, <2>2 DEF ConfigCreate, ConfigRemove
<1>. QED  BY <1>1, <1>2

LEMMA OthersLookup == ASSUME TypeOK, LookupInv, OthersNext PROVE LookupInv'
<1>1. clusters' = clusters /\ checks' = checks /\ pc' = pc /\ loc' = loc
  BY OthersSwarmType, OthersLeave DEF db
<1>. QED  BY <1>1 DEF LookupInv

LEMMA CrashLookup == ASSUME TypeOK, LookupInv, Crash PROVE LookupInv'
<1>1. clusters' = clusters /\ checks' = checks
  BY DEF Crash, db
<1>2. ASSUME NEW r \in Requests PROVE LookupFits(pc'[r], loc'[r], clusters)
  <2>1. loc'[r] = Blank(loc[r].node) /\ loc[r].node \in Nodes
    BY Types DEF Crash
  <2>2. pc'[r] \in Answers \cup {"idle"}
    BY DEF Crash, Active, Answers, TypeOK
  <2>3. LookupFits("idle", Blank(loc[r].node), clusters)
    BY DEF LookupFits, Blank, LookUp, DockerCalls
  <2>. QED  BY <2>1, <2>2, <2>3, EndFits
<1>3. \A r \in Requests : LookupFits(pc'[r], loc'[r], clusters')
  BY <1>1, <1>2
<1>4. \A row \in checks' : Placed(row, clusters')
  BY <1>1 DEF LookupInv
<1>. QED  BY <1>3, <1>4 DEF LookupInv, LookupFits, Placed

LEMMA InitLookup == Init => LookupInv
<1>. SUFFICES ASSUME Init PROVE LookupInv
  OBVIOUS
<1>1. \A r \in Requests : pc[r] = "idle" /\ loc[r].tries = 0 /\ loc[r].checks = {}
  BY DEF Init, Blank
<1>. QED  BY <1>1 DEF Init, LookupInv, LookupFits, LookUp, DockerCalls

RequestNext ==
    \E r \in Requests :
       \/ Start(r) \/ CallFails(r) \/ Prepare(r) \/ Get(r)
       \/ InsertCluster(r) \/ InsertCheck(r) \/ FindChecks(r) \/ Log(r) \/ Find(r)
       \/ NodeList(r) \/ ServiceList(r) \/ TaskList(r)
       \/ ServiceInspect(r) \/ ServiceLogs(r)
       \/ NodeInspect(r) \/ NodeUpdate(r) \/ Refresh(r)
       \/ ConfigCreate(r) \/ ConfigRemove(r) \/ Inspect(r) \/ Respond(r)

LEMMA NextCases == Next <=> RequestNext \/ Crash \/ OthersNext
  BY Zenon DEF Next, RequestNext, OthersNext

LEMMA LookupTurns == LookupInv => TurnsLeft
  BY DEF LookupInv, LookupFits, TurnsLeft

LEMMA LookupInductive == TypeOK /\ LookupInv /\ [Next]_vars => TypeOK' /\ LookupInv'
<1>. SUFFICES ASSUME TypeOK, LookupInv, [Next]_vars PROVE TypeOK' /\ LookupInv'
  OBVIOUS
<1>1. CASE UNCHANGED vars
  <2>1. TypeOK'
    BY <1>1 DEF TypeOK, vars, db, swarm
  <2>2. clusters' = clusters /\ checks' = checks /\ pc' = pc /\ loc' = loc
    BY <1>1 DEF vars, db
  <2>3. LookupInv'
    BY <2>2 DEF LookupInv
  <2>. QED  BY <2>1, <2>3
<1>2. CASE OthersNext
  BY <1>2, OthersType, OthersLookup
<1>3. CASE Crash
  BY <1>3, CrashType, CrashLookup
<1>4. ASSUME NEW r \in Requests,
             Start(r) \/ CallFails(r) \/ Prepare(r) \/ Get(r)
      PROVE  TypeOK' /\ LookupInv'
  BY <1>4, LookupTurns, LookupType, LookupStep
<1>5. ASSUME NEW r \in Requests,
             InsertCluster(r) \/ InsertCheck(r) \/ FindChecks(r) \/ Log(r) \/ Find(r)
      PROVE  TypeOK' /\ LookupInv'
  <2>1. /\ pc[r] \in {"InsertCheck", "FindChecks"} => loc[r].cluster # Nil
        /\ pc[r] = "Log" => loc[r].op \in {"clusterCreate", "checkCreate"}
        /\ pc[r] = "Find" => loc[r].op \in {"serviceList", "raw", "logs"}
    BY Types DEF LookupInv, LookupFits, Placed, Creations
  <2>. QED  BY <1>5, <2>1, TablesType, TablesLookup, SwarmLookup
<1>6. ASSUME NEW r \in Requests,
             \/ NodeList(r) \/ ServiceList(r) \/ TaskList(r) \/ ServiceInspect(r)
             \/ ServiceLogs(r) \/ NodeInspect(r) \/ Refresh(r) \/ Inspect(r) \/ Respond(r)
      PROVE  TypeOK' /\ LookupInv'
  BY <1>6, SwarmReadsType, SwarmLookup
<1>7. ASSUME NEW r \in Requests, NodeUpdate(r) \/ ConfigCreate(r) \/ ConfigRemove(r)
      PROVE  TypeOK' /\ LookupInv'
  BY <1>7, WritesType, WritesLookup
<1>8. CASE RequestNext
  BY <1>4, <1>5, <1>6, <1>7, <1>8, Zenon DEF RequestNext
<1>. QED  BY <1>1, <1>2, <1>3, <1>8, NextCases

LEMMA LookupAlways == Spec => [](TypeOK /\ LookupInv)
<1>1. Init => TypeOK /\ LookupInv
  BY InitType, InitLookup
<1>. QED  BY <1>1, LookupInductive, PTL DEF Spec

(* The tables, the swarm and the locals of the requests keep their types.   *)
THEOREM TypeCorrect == Spec => []TypeOK
  BY LookupAlways, PTL

(* Whatever the bound of the loop, health checks belong to the cluster that *)
(* was asked for unless that many connections in a row were bad             *)
(* (clusters.go:154-169).                                                   *)
THEOREM ChecksPlacedAlways == Spec => []ChecksPlaced
<1>1. TypeOK /\ LookupInv => ChecksPlaced
  BY DEF LookupInv, LookupFits, Placed, ChecksPlaced
<1>. QED  BY <1>1, LookupAlways, PTL

(* Docker is only called for a cluster that was found (services.go:208).    *)
THEOREM DockerAfterLookup == Spec => []DockerOnFound
<1>1. TypeOK /\ LookupInv => DockerOnFound
  BY DEF LookupInv, LookupFits, DockerOnFound
<1>. QED  BY <1>1, LookupAlways, PTL

-----------------------------------------------------------------------------
(* The view of the swarm *)

Listing == {"ServiceList", "TaskList"}

(* What the call c that a request makes next says of its locals l and its   *)
(* history h, when the nodes are nd and the tasks tk: the version it        *)
(* inspected is of an old specification only if there is a newer version;   *)
(* what was up ever since it listed the nodes still runs on one of them,    *)
(* and what runs on one of them was seen.                                   *)
UpdateFits(c, l, h, nd) ==
    /\ c = "NodeUpdate" =>
          /\ l.inspected.version <= nd[l.node].version
          /\ l.inspected.version = nd[l.node].version => l.inspected.spec = nd[l.node].spec
    /\ h.made # 0 =>
          /\ c \in {"Refresh", "Respond"}
          /\ h.over = h.based /\ h.over < h.made /\ h.made <= nd[l.node].spec
          /\ c = "Respond" => l.inspected.spec >= h.made

StatusFits(c, l, h, tk) ==
    /\ c \in Listing =>
          /\ \A t \in Tasks, i \in Nat : <<t, i>> \in h.steady =>
                tk[t].service = i /\ tk[t].running /\ tk[t].node \in l.ready
          /\ \A t \in Tasks : tk[t].running /\ tk[t].node \in l.ready =>
                <<t, tk[t].service>> \in h.seen
    /\ c = "Respond" /\ l.status.service # 0 =>
          /\ \A t \in l.status.available : <<t, l.status.service>> \in h.seen
          /\ \A t \in Tasks : <<t, l.status.service>> \in h.steady => t \in l.status.available
    /\ c # "Respond" => l.status.service = 0

SpecsFit(nd) == \A n \in Nodes : nd[n].spec <= nd[n].version

TasksFit(id, tk) ==
    \A t \in Tasks : tk[t].service = id /\ (id = 0 => ~tk[t].running)

ViewInv ==
    /\ \A r \in Requests : UpdateFits(pc[r], loc[r], hist[r], nodes)
    /\ \A r \in Requests : StatusFits(pc[r], loc[r], hist[r], tasks)
    /\ SpecsFit(nodes) /\ TasksFit(service.id, tasks)

(* Nodes only change to a newer version. *)
Later(nd, next) ==
    \A n \in Nodes :
        /\ nd[n].version <= next[n].version /\ nd[n].spec <= next[n].spec
        /\ nd[n].version = next[n].version => nd[n].spec = next[n].spec

LEMMA UpdateFitsLater ==
  ASSUME NEW nd \in [Nodes -> NodeStates], NEW next \in [Nodes -> NodeStates], Later(nd, next),
         NEW c, NEW l \in Locals, NEW h \in Histories, UpdateFits(c, l, h, nd)
  PROVE  UpdateFits(c, l, h, next)
<1>. DEFINE n == l.node
<1>1. /\ n \in Nodes /\ l.inspected.version \in Nat /\ l.inspected.spec \in Nat
      /\ h.made \in Nat
  BY DEF Locals, NodeStates, Histories
<1>2. /\ nd[n].version \in Nat /\ nd[n].spec \in Nat
      /\ next[n].version \in Nat /\ next[n].spec \in Nat
      /\ nd[n].version <= next[n].version /\ nd[n].spec <= next[n].spec
      /\ nd[n].version = next[n].version => nd[n].spec = next[n].spec
  BY <1>1 DEF Later, NodeStates
<1>3. ASSUME c = "NodeUpdate"
      PROVE  /\ l.inspected.version <= next[n].version
             /\ l.inspected.version = next[n].version => l.inspected.spec = next[n].spec
  <2>1. /\ l.inspected.version <= nd[n].version
        /\ l.inspected.version = nd[n].version => l.inspected.spec = nd[n].spec
    BY <1>3 DEF UpdateFits
  <2>. QED  BY <1>1, <1>2, <2>1
<1>4. ASSUME h.made # 0
      PROVE  /\ c \in {"Refresh", "Respond"}
             /\ h.over = h.based /\ h.over < h.made /\ h.made <= next[n].spec
             /\ c = "Respond" => l.inspected.spec >= h.made
  <2>1. /\ c \in {"Refresh", "Respond"}
        /\ h.over = h.based /\ h.over < h.made /\ h.made <= nd[n].spec
        /\ c = "Respond" => l.inspected.spec >= h.made
    BY <1>4 DEF UpdateFits
  <2>. QED  BY <1>1, <1>2, <2>1
<1>. QED  BY <1>3, <1>4 DEF UpdateFits

(* A step of a request that leaves the tasks alone.                         *)
LEMMA MovesView ==
  ASSUME TypeOK, ViewInv, NEW r \in Requests, NEW c \in Calls \cup Answers,
         NEW l \in Locals, NEW h \in Histories, Moves(r, c, l, h),
         nodes' \in [Nodes -> NodeStates], Later(nodes, nodes'), SpecsFit(nodes'),
         UNCHANGED <<service, tasks>>,
         UpdateFits(c, l, h, nodes'), StatusFits(c, l, h, tasks)
  PROVE  ViewInv'
<1>1. ASSUME NEW q \in Requests
      PROVE  /\ UpdateFits(pc'[q], loc'[q], hist'[q], nodes')
             /\ StatusFits(pc'[q], loc'[q], hist'[q], tasks)
  <2>1. CASE q = r
    BY <2>1, MovesType
  <2>2. CASE q # r
    <3>1. pc'[q] = pc[q] /\ loc'[q] = loc[q] /\ hist'[q] = hist[q]
      BY <2>2, MovesType
    <3>2. UpdateFits(pc[q], loc[q], hist[q], nodes) /\ StatusFits(pc[q], loc[q], hist[q], tasks)
      BY DEF ViewInv
    <3>3. nodes \in [Nodes -> NodeStates]
      BY DEF TypeOK
    <3>4. UpdateFits(pc[q], loc[q], hist[q], nodes')
      BY <3>2, <3>3, Types, UpdateFitsLater
    <3>. QED  BY <3>1, <3>2, <3>4
  <2>. QED  BY <2>1, <2>2
<1>2. \A q \in Requests : StatusFits(pc'[q], loc'[q], hist'[q], tasks')
  BY <1>1
<1>3. TasksFit(service'.id, tasks')
  BY DEF ViewInv
<1>. QED  BY <1>1, <1>2, <1>3 DEF ViewInv, UpdateFits, StatusFits, SpecsFit, TasksFit

LEMMA SameLater ==
  ASSUME TypeOK, ViewInv, UNCHANGED nodes
  PROVE  Later(nodes, nodes') /\ SpecsFit(nodes') /\ nodes' \in [Nodes -> NodeStates]
<1>1. \A n \in Nodes : nodes[n].version \in Nat /\ nodes[n].spec \in Nat
  BY DEF TypeOK, NodeStates
<1>2. Later(nodes, nodes)
  BY <1>1 DEF Later
<1>3. SpecsFit(nodes) /\ nodes \in [Nodes -> NodeStates]
  BY DEF ViewInv, TypeOK
<1>. QED  BY <1>2, <1>3

(* A step that leaves the swarm alone.                                      *)
LEMMA QuietView ==
  ASSUME TypeOK, ViewInv, NEW r \in Requests, NEW c \in Calls \cup Answers,
         NEW l \in Locals, NEW h \in Histories, Moves(r, c, l, h),
         UNCHANGED <<nodes, service, tasks>>,
         UpdateFits(c, l, h, nodes), StatusFits(c, l, h, tasks)
  PROVE  ViewInv'
<1>1. nodes' = nodes
  OBVIOUS
<1>2. UpdateFits(c, l, h, nodes')
  BY <1>1
<1>. QED  BY <1>2, SameLater, MovesView

(* A request that has no view of the swarm.                                 *)
LEMMA PlainFits ==
  ASSUME NEW c, c \notin Listing \cup {"NodeUpdate"}, NEW l, l.status.service = 0,
         NEW h, h.made = 0, NEW nd, NEW tk
  PROVE  UpdateFits(c, l, h, nd) /\ StatusFits(c, l, h, tk)
  BY DEF UpdateFits, StatusFits

LEMMA PlainView ==
  ASSUME TypeOK, ViewInv, NEW r \in Requests, pc[r] \notin {"Refresh", "Respond"},
         NEW c \in (Calls \cup Answers) \ (Listing \cup {"NodeUpdate"}),
         NEW l \in Locals, l.status = loc[r].status, Moves(r, c, l, hist[r]),
         UNCHANGED <<nodes, service, tasks>>
  PROVE  ViewInv'
<1>1. hist[r].made = 0 /\ loc[r].status.service = 0
  BY DEF ViewInv, UpdateFits, StatusFits
<1>. QED  BY <1>1, PlainFits, QuietView, Types

LEMMA EndsView ==
  ASSUME TypeOK, ViewInv, NEW r \in Requests, Ends(r), UNCHANGED <<nodes, service, tasks>>
  PROVE  ViewInv'
<1>1. PICK a \in Answers : Moves(r, a, Blank(loc[r].node), NoHistory)
  BY DEF Ends
<1>2. a \notin Listing \cup {"NodeUpdate"}
  BY DEF Answers, Listing
<1>3. Blank(loc[r].node) \in Locals /\ Blank(loc[r].node).status.service = 0
  BY Types, BlankType DEF Blank, NoStatus
<1>4. NoHistory \in Histories /\ NoHistory.made = 0
  BY NoHistoryType DEF NoHistory
<1>5. /\ UpdateFits(a, Blank(loc[r].node), NoHistory, nodes)
      /\ StatusFits(a, Blank(loc[r].node), NoHistory, tasks)
  BY <1>2, <1>3, <1>4, PlainFits
<1>. QED  BY <1>1, <1>3, <1>4, <1>5, QuietView

LEMMA LookupView ==
  ASSUME TypeOK, LookupInv, ViewInv, NEW r \in Requests,
         Start(r) \/ CallFails(r) \/ Prepare(r) \/ Get(r)
  PROVE  ViewInv'
<1>0. /\ UNCHANGED <<nodes, service, tasks>>
      /\ Start(r) \/ Prepare(r) \/ Get(r) => pc[r] \notin {"Refresh", "Respond"}
  BY DEF Start, CallFails, Prepare, Get, swarm
<1>1. CASE Start(r)
  <2>1. PICK op \in Ops, k \in Clusters, n \in Nodes :
          /\ op \notin CheckOps \cup {"clusterCreate"} => k = Home
          /\ Moves(r, IF op = "clusterCreate" THEN First[op] ELSE "Prepare",
                   [loc[r] EXCEPT !.op = op, !.asked = k, !.node = n], hist[r])
    BY <1>1, StartMoves
  <2>. DEFINE l == [loc[r] EXCEPT !.op = op, !.asked = k, !.node = n]
              c == IF op = "clusterCreate" THEN First[op] ELSE "Prepare"
  <2>2. l \in Locals /\ l.status = loc[r].status
    BY Types DEF Locals
  <2>3. c \in {"InsertCluster", "Prepare"}
    BY DEF First, Ops
  <2>4. Moves(r, c, l, hist[r])
    BY <2>1
  <2>5. {"InsertCluster", "Prepare"} \subseteq (Calls \cup Answers) \ (Listing \cup {"NodeUpdate"})
    BY DEF Calls, LookUp, Listing
  <2>. HIDE DEF l, c
  <2>. QED  BY <1>0, <1>1, <2>2, <2>3, <2>4, <2>5, PlainView
<1>2. CASE CallFails(r)
  <2>1. Ends(r)
    BY <1>2, AnswerMoves DEF CallFails, Ends, Answers
  <2>. QED  BY <1>0, <2>1, EndsView
<1>3. CASE Prepare(r)
  <2>1. Moves(r, "Get", loc[r], hist[r])
    BY <1>3, Types DEF Prepare, Moves, Goto
  <2>. QED  BY <1>0, <1>3, <2>1, Types, PlainView DEF Calls, LookUp, Listing
<1>4. CASE Get(r)
  <2>1. CASE Ends(r)
    BY <1>0, <2>1, EndsView
  <2>2. CASE /\ TryAgain(NextTry(loc[r].tries))
             /\ Moves(r, "Get", [loc[r] EXCEPT !.tries = NextTry(@)], hist[r])
    <3>. DEFINE l == [loc[r] EXCEPT !.tries = NextTry(@)]
    <3>1. l \in Locals /\ l.status = loc[r].status
      BY <2>2, Types DEF TryAgain, NextTry, Locals
    <3>2. Moves(r, "Get", l, hist[r])
      BY <2>2
    <3>. HIDE DEF l
    <3>. QED  BY <1>0, <1>4, <3>1, <3>2, PlainView DEF Calls, LookUp, Listing
  <2>3. ASSUME NEW k \in Clusters \cup {Zero},
               Moves(r, First[loc[r].op],
                     [loc[r] EXCEPT !.cluster = k,
                        !.tries = IF k = Zero THEN NextTry(loc[r].tries) ELSE 0], hist[r])
        PROVE  ViewInv'
    <3>. DEFINE i == IF k = Zero THEN NextTry(loc[r].tries) ELSE 0
                l == [loc[r] EXCEPT !.cluster = k, !.tries = i]
    <3>1. i \in 0..MaxTries
      <4>1. loc[r].tries < MaxTries
        BY <1>4 DEF Get, LookupInv, LookupFits, LookUp
      <4>. QED  BY <4>1, Types DEF NextTry
    <3>2. Moves(r, First[loc[r].op], l, hist[r])
      BY <2>3
    <3>. HIDE DEF i
    <3>3. l \in Locals /\ l.status = loc[r].status
      BY <3>1, Types DEF Locals
    <3>. HIDE DEF l
    <3>4. pc[r] = "Get" /\ loc[r].op \in Ops
      BY <1>4, Types DEF Get
    <3>5. First[loc[r].op] \in Calls \ (Listing \cup {"NodeUpdate"})
      <4>1. \A op \in Ops : First[op] \notin Listing \cup {"NodeUpdate"} \/ op = "taskList"
        BY DEF First, Ops, CheckOps, Listing
      <4>2. First["taskList"] = "NodeList"
        BY DEF First
      <4>. QED  BY <3>4, <4>1, <4>2, FirstType DEF Listing
    <3>. QED  BY <1>0, <1>4, <3>2, <3>3, <3>5, PlainView
  <2>. QED  BY <1>4, <2>1, <2>2, <2>3, GetMoves
<1>. QED  BY <1>1, <1>2, <1>3, <1>4

LEMMA OutcomeView ==
  ASSUME TypeOK, ViewInv, NEW r \in Requests, pc[r] \notin {"Refresh", "Respond"},
         NEW c \in Calls \ (Listing \cup {"NodeUpdate"}), Outcome(r, c),
         UNCHANGED <<nodes, service, tasks>>
  PROVE  ViewInv'
  BY OutcomeMoves, EndsView, PlainView, Types DEF Stays

LEMMA ReadsView ==
  ASSUME TypeOK, ViewInv, NEW r \in Requests, NEW c \in Calls, NEW l \in Locals,
         Reads(r, l, c), UpdateFits(c, l, hist[r], nodes), StatusFits(c, l, hist[r], tasks)
  PROVE  ViewInv'
<1>1. UNCHANGED <<nodes, service, tasks>>
  BY DEF Reads, swarm
<1>. QED  BY <1>1, ReadsMoves, Types, QuietView

LEMMA PlainReads ==
  ASSUME TypeOK, ViewInv, NEW r \in Requests, pc[r] \notin {"Refresh", "Respond"},
         NEW c \in Calls \ (Listing \cup {"NodeUpdate"}), NEW l \in Locals,
         Reads(r, l, c), l.status = loc[r].status
  PROVE  ViewInv'
<1>1. UNCHANGED <<nodes, service, tasks>>
  BY DEF Reads, swarm
<1>. QED  BY <1>1, ReadsMoves, PlainView

LEMMA RefusesView ==
  ASSUME TypeOK, ViewInv, NEW r \in Requests, NEW a \in Answers, Refuses(r, a)
  PROVE  ViewInv'
<1>1. UNCHANGED <<nodes, service, tasks>>
  BY DEF Refuses, swarm
<1>. QED  BY <1>1, EndsMoves, EndsView DEF Ends

LEMMA TablesView ==
  ASSUME TypeOK, LookupInv, ViewInv, NEW r \in Requests,
         \/ InsertCluster(r) \/ InsertCheck(r) \/ FindChecks(r) \/ Log(r) \/ Find(r)
         \/ ServiceInspect(r) \/ ServiceLogs(r) \/ Inspect(r) \/ Respond(r)
         \/ ConfigCreate(r) \/ ConfigRemove(r)
  PROVE  ViewInv'
<1>0. /\ {"failed", "refused", "answered"} \subseteq Answers
      /\ {"Log", "Respond", "NodeList", "ServiceInspect", "ServiceLogs"}
            \subseteq Calls \ (Listing \cup {"NodeUpdate"})
  BY DEF Answers, Calls, DockerCalls, Listing
<1>1. CASE \E a \in {"failed", "refused", "answered"} : Refuses(r, a)
  BY <1>0, <1>1, RefusesView
<1>2. CASE InsertCluster(r) \/ InsertCheck(r) \/ ConfigCreate(r) \/ ConfigRemove(r)
  <2>1. \/ \E a \in {"failed", "refused", "answered"} : Refuses(r, a)
        \/ /\ Outcome(r, "Log") \/ Outcome(r, "Respond")
           /\ UNCHANGED <<nodes, service, tasks>> /\ pc[r] \notin {"Refresh", "Respond"}
    BY <1>2 DEF InsertCluster, InsertCheck, ConfigCreate, ConfigRemove, swarm
  <2>. QED  BY <1>0, <1>1, <2>1, OutcomeView
<1>3. CASE FindChecks(r)
  <2>. DEFINE l == [loc[r] EXCEPT !.checks = {row \in checks : loc[r].cluster \in {Zero, row.cluster}}]
  <2>1. l \in Locals /\ l.status = loc[r].status
    BY Types DEF Locals, TypeOK
  <2>2. pc[r] = "FindChecks"
    BY <1>3 DEF FindChecks
  <2>3. CASE Reads(r, l, "Respond")
    <3>. HIDE DEF l
    <3>. QED  BY <1>0, <2>1, <2>2, <2>3, PlainReads
  <2>4. CASE Fault /\ Goto(r, "Respond") /\ UNCHANGED <<db, swarm, loc, changes, hist>>
    <3>1. Moves(r, "Respond", loc[r], hist[r]) /\ UNCHANGED <<nodes, service, tasks>>
      BY <2>4, Types DEF Moves, Goto, swarm
    <3>. QED  BY <1>0, <2>2, <3>1, Types, PlainView
  <2>. QED  BY <1>3, <2>3, <2>4 DEF FindChecks
<1>4. CASE Log(r)
  <2>1. Moves(r, "Respond", loc[r], hist[r]) /\ UNCHANGED <<nodes, service, tasks>>
    BY <1>4, Types DEF Log, Moves, Goto, swarm
  <2>2. pc[r] = "Log"
    BY <1>4 DEF Log
  <2>. QED  BY <1>0, <2>1, <2>2, Types, PlainView
<1>5. CASE Find(r) \/ ServiceInspect(r) \/ ServiceLogs(r) \/ Inspect(r) \/ Respond(r)
  <2>1. pc[r] = "Find" => AfterFind[loc[r].op] \in {"NodeList", "ServiceInspect", "ServiceLogs"}
    <3>1. pc[r] = "Find" => loc[r].op \in {"serviceList", "raw", "logs"}
      BY DEF LookupInv, LookupFits
    <3>. QED  BY <3>1 DEF AfterFind
  <2>2. \/ \E a \in {"failed", "refused", "answered"} : Refuses(r, a)
        \/ /\ \E c \in {"NodeList", "ServiceInspect", "ServiceLogs", "Respond"} : Reads(r, loc[r], c)
           /\ pc[r] \notin {"Refresh", "Respond"}
    BY <1>5, <2>1 DEF Find, ServiceInspect, ServiceLogs, Inspect, Respond
  <2>. QED  BY <1>0, <1>1, <2>2, Types, PlainReads
<1>. QED  BY <1>2, <1>3, <1>4, <1>5

LEMMA UpIs ==
  ASSUME TypeOK
  PROVE  \A t, i : <<t, i>> \in Up <=>
            t \in Tasks /\ i = tasks[t].service /\ tasks[t].running /\ nodes[tasks[t].node].up
  BY DEF Up

LEMMA NodeListView ==
  ASSUME TypeOK, ViewInv, NEW r \in Requests, NodeList(r) PROVE ViewInv'
<1>. DEFINE l == [loc[r] EXCEPT !.ready = {n \in Nodes : nodes[n].up}]
            h == [hist[r] EXCEPT !.steady = Up, !.seen = Up]
            c == IF loc[r].op = "taskList" THEN "TaskList" ELSE "ServiceList"
<1>1. pc[r] = "NodeList" /\ UNCHANGED <<nodes, service, tasks>> /\ Moves(r, c, l, h)
  BY NodeListMoves DEF NodeList, swarm
<1>2. hist[r].made = 0 /\ loc[r].status.service = 0
  BY <1>1 DEF ViewInv, UpdateFits, StatusFits
<1>3. /\ l \in Locals /\ l.status = loc[r].status
      /\ \A n \in Nodes : n \in l.ready <=> nodes[n].up
  BY Types DEF Locals
<1>4. h \in Histories /\ h.made = hist[r].made /\ h.steady = Up /\ h.seen = Up
  BY UpType, Types DEF Histories
<1>5. c \in Listing /\ c # "Respond" /\ c # "NodeUpdate" /\ c \in Calls
  BY DEF Listing, Calls, DockerCalls
<1>. HIDE DEF l, h, c
<1>6. \A t \in Tasks : tasks[t].node \in Nodes
  BY DEF TypeOK, TaskStates
<1>7. StatusFits(c, l, h, tasks)
  BY <1>2, <1>3, <1>4, <1>5, <1>6, UpIs DEF StatusFits
<1>8. UpdateFits(c, l, h, nodes)
  BY <1>2, <1>4, <1>5 DEF UpdateFits
<1>. QED  BY <1>1, <1>3, <1>4, <1>5, <1>7, <1>8, QuietView

LEMMA ListingView ==
  ASSUME TypeOK, ViewInv, NEW r \in Requests, ServiceList(r) \/ TaskList(r) PROVE ViewInv'
<1>0. /\ pc[r] \in Listing /\ hist[r].made = 0 /\ loc[r].status.service = 0
      /\ StatusFits(pc[r], loc[r], hist[r], tasks)
  BY DEF ServiceList, TaskList, ViewInv, UpdateFits, StatusFits, Listing
<1>1. /\ \A t \in Tasks, i \in Nat : <<t, i>> \in hist[r].steady =>
            tasks[t].service = i /\ tasks[t].running /\ tasks[t].node \in loc[r].ready
      /\ \A t \in Tasks : tasks[t].running /\ tasks[t].node \in loc[r].ready =>
            <<t, tasks[t].service>> \in hist[r].seen
  BY <1>0 DEF StatusFits, Listing
<1>2. {"TaskList", "Respond"} \subseteq Calls /\ "refused" \in Answers
  BY DEF Calls, DockerCalls, Answers
<1>3. CASE ServiceList(r)
  <2>. DEFINE l == [loc[r] EXCEPT !.svc = service]
  <2>1. l \in Locals /\ l.status = loc[r].status /\ l.ready = loc[r].ready
    BY Types DEF Locals, TypeOK
  <2>2. Reads(r, l, "TaskList")
    BY <1>3 DEF ServiceList
  <2>. HIDE DEF l
  <2>3. StatusFits("TaskList", l, hist[r], tasks) /\ UpdateFits("TaskList", l, hist[r], nodes)
    BY <1>0, <1>1, <2>1 DEF StatusFits, UpdateFits
  <2>. QED  BY <1>2, <2>1, <2>2, <2>3, ReadsView
<1>4. CASE TaskList(r)
  <2>. DEFINE st == Status(loc[r].ready, loc[r].svc)
              l == [loc[r] EXCEPT !.status = st]
  <2>1. CASE Reads(r, l, "Respond")
    <3>1. st \in Statuses
      BY Types, StatusType
    <3>2. st.service # 0 =>
            /\ \A t \in st.available : <<t, st.service>> \in hist[r].seen
            /\ \A t \in Tasks : <<t, st.service>> \in hist[r].steady => t \in st.available
      <4>1. CASE loc[r].svc.id = 0
        BY <4>1 DEF Status, NoStatus
      <4>2. CASE loc[r].svc.id # 0
        <5>1. /\ st.service = loc[r].svc.id
              /\ st.available = Counted(loc[r].ready, loc[r].svc.id)
          BY <4>2 DEF Status
        <5>2. loc[r].svc.id \in Nat
          BY Types DEF Services
        <5>. HIDE DEF st
        <5>. QED  BY <1>1, <5>1, <5>2 DEF Counted
      <4>. QED  BY <4>1, <4>2
    <3>. HIDE DEF st
    <3>3. l \in Locals /\ l.status = st
      BY <3>1, Types DEF Locals
    <3>. HIDE DEF l
    <3>4. /\ StatusFits("Respond", l, hist[r], tasks)
          /\ UpdateFits("Respond", l, hist[r], nodes)
      BY <1>0, <3>2, <3>3 DEF StatusFits, UpdateFits, Listing
    <3>. QED  BY <1>2, <2>1, <3>3, <3>4, ReadsView
  <2>2. CASE Reads(r, loc[r], "Respond")
    <3>1. /\ StatusFits("Respond", loc[r], hist[r], tasks)
          /\ UpdateFits("Respond", loc[r], hist[r], nodes)
      BY <1>0 DEF StatusFits, UpdateFits, Listing
    <3>. QED  BY <1>2, <2>2, <3>1, Types, ReadsView
  <2>3. CASE Refuses(r, "refused")
    BY <1>2, <2>3, RefusesView
  <2>. QED  BY <1>4, <2>1, <2>2, <2>3 DEF TaskList
<1>. QED  BY <1>3, <1>4

LEMMA InspectView ==
  ASSUME TypeOK, ViewInv, NEW r \in Requests, NodeInspect(r) \/ Refresh(r) PROVE ViewInv'
<1>. DEFINE l == [loc[r] EXCEPT !.inspected = nodes[loc[r].node]]
<1>1. /\ l \in Locals /\ l.status = loc[r].status /\ l.node = loc[r].node
      /\ l.inspected = nodes[loc[r].node] /\ loc[r].node \in Nodes
  BY Types DEF Locals, TypeOK
<1>2. /\ nodes[loc[r].node].version \in Nat /\ nodes[loc[r].node].spec \in Nat
      /\ hist[r].made \in Nat
  BY <1>1, Types DEF TypeOK, NodeStates, Histories
<1>3. {"NodeUpdate", "Respond"} \subseteq Calls
  BY DEF Calls, DockerCalls
<1>4. CASE NodeInspect(r)
  <2>1. pc[r] = "NodeInspect" /\ Reads(r, l, "NodeUpdate")
    BY <1>4 DEF NodeInspect
  <2>. HIDE DEF l
  <2>2. hist[r].made = 0 /\ loc[r].status.service = 0
    BY <2>1 DEF ViewInv, UpdateFits, StatusFits
  <2>3. /\ UpdateFits("NodeUpdate", l, hist[r], nodes)
        /\ StatusFits("NodeUpdate", l, hist[r], tasks)
    BY <1>1, <1>2, <2>2 DEF UpdateFits, StatusFits, Listing
  <2>. QED  BY <1>1, <1>3, <2>1, <2>3, ReadsView
<1>5. CASE Refresh(r)
  <2>1. pc[r] = "Refresh" /\ Reads(r, l, "Respond")
    BY <1>5 DEF Refresh
  <2>. HIDE DEF l
  <2>2. /\ loc[r].status.service = 0
        /\ hist[r].made # 0 => /\ hist[r].over = hist[r].based /\ hist[r].over < hist[r].made
                               /\ hist[r].made <= nodes[loc[r].node].spec
    BY <2>1 DEF ViewInv, UpdateFits, StatusFits
  <2>3. /\ UpdateFits("Respond", l, hist[r], nodes)
        /\ StatusFits("Respond", l, hist[r], tasks)
    BY <1>1, <1>2, <2>2 DEF UpdateFits, StatusFits, Listing
  <2>. QED  BY <1>1, <1>3, <2>1, <2>3, ReadsView
<1>. QED  BY <1>4, <1>5

LEMMA NodeUpdateView ==
  ASSUME TypeOK, ViewInv, NEW r \in Requests, NodeUpdate(r) PROVE ViewInv'
<1>0. pc[r] = "NodeUpdate" /\ "failed" \in Answers /\ "Refresh" \in Calls
  BY DEF NodeUpdate, Answers, Calls, DockerCalls
<1>1. PICK n \in Nodes : n = loc[r].node
  BY Types
<1>2. /\ nodes[n] \in NodeStates /\ nodes[n].version \in Nat /\ nodes[n].spec \in Nat
      /\ nodes[n].spec <= nodes[n].version /\ loc[r].inspected.spec \in Nat
  BY Types DEF TypeOK, NodeStates, ViewInv, SpecsFit
<1>3. CASE Refuses(r, "failed")
  BY <1>0, <1>3, RefusesView
<1>4. CASE /\ nodes[n].version = loc[r].inspected.version
           /\ nodes' = [nodes EXCEPT ![n].version = nodes[n].version + 1,
                                     ![n].spec = nodes[n].version + 1]
           /\ UNCHANGED <<db, service, tasks, configs, ids, changes>>
  <2>. DEFINE made == nodes[n].version + 1
              h == [hist[r] EXCEPT !.made = made, !.over = nodes[n].spec,
                                   !.based = loc[r].inspected.spec]
  <2>1. /\ nodes' \in [Nodes -> NodeStates]
        /\ nodes'[n].version = made /\ nodes'[n].spec = made
        /\ \A m \in Nodes \ {n} : nodes'[m] = nodes[m]
    BY <1>2, <1>4 DEF TypeOK, NodeStates
  <2>2. \A m \in Nodes : nodes[m].version \in Nat /\ nodes[m].spec \in Nat
                        /\ nodes[m].spec <= nodes[m].version
    BY DEF TypeOK, NodeStates, ViewInv, SpecsFit
  <2>3. Later(nodes, nodes') /\ SpecsFit(nodes')
    BY <1>2, <2>1, <2>2 DEF Later, SpecsFit
  <2>4. loc[r].status.service = 0 /\ loc[r].inspected.spec = nodes[n].spec
    BY <1>0, <1>1, <1>4 DEF ViewInv, UpdateFits, StatusFits
  <2>5. /\ h \in Histories /\ h.made = made /\ h.over = nodes[n].spec
        /\ h.based = loc[r].inspected.spec
    <3>1. hist[r] \in Histories /\ made \in Nat
      BY <1>2, Types
    <3>. HIDE DEF made
    <3>. QED  BY <1>2, <3>1 DEF Histories
  <2>6. made \in Nat /\ nodes[n].spec < made /\ made # 0
    BY <1>2
  <2>7. CASE Moves(r, "Refresh", loc[r], h)
    <3>. HIDE DEF h, made
    <3>1. UpdateFits("Refresh", loc[r], h, nodes')
      BY <1>1, <2>1, <2>4, <2>5, <2>6 DEF UpdateFits
    <3>2. StatusFits("Refresh", loc[r], h, tasks)
      BY <2>4 DEF StatusFits, Listing
    <3>. QED  BY <1>0, <1>4, <2>1, <2>3, <2>5, <2>7, <3>1, <3>2, Types, MovesView
  <2>8. CASE Ends(r)
    <3>1. PICK a \in Answers : Moves(r, a, Blank(loc[r].node), NoHistory)
      BY <2>8 DEF Ends
    <3>2. Blank(loc[r].node) \in Locals /\ Blank(loc[r].node).status.service = 0
      BY Types, BlankType DEF Blank, NoStatus
    <3>3. NoHistory \in Histories /\ NoHistory.made = 0
      BY NoHistoryType DEF NoHistory
    <3>4. a \notin Listing \cup {"NodeUpdate"}
      BY DEF Answers, Listing
    <3>5. /\ UpdateFits(a, Blank(loc[r].node), NoHistory, nodes')
          /\ StatusFits(a, Blank(loc[r].node), NoHistory, tasks)
      BY <3>2, <3>3, <3>4 DEF UpdateFits, StatusFits
    <3>. QED  BY <1>4, <2>1, <2>3, <3>1, <3>2, <3>3, <3>5, MovesView
  <2>. QED  BY <1>0, <1>1, <1>3, <2>7, <2>8, NodeUpdateMoves
<1>. QED  BY <1>1, <1>3, <1>4, NodeUpdateMoves

(* What a step of the others does to the tasks: a task that runs after it   *)
(* ran before, for the same service, or is on a node that is ready.         *)
TasksTurn(tk, next, nd) ==
    \A t \in Tasks :
        /\ next[t].node = tk[t].node
        /\ next[t].running => \/ tk[t].running /\ next[t].service = tk[t].service
                             \/ nd[next[t].node].up

LEMMA OthersNodes ==
  ASSUME TypeOK, ViewInv, OthersNext PROVE Later(nodes, nodes') /\ SpecsFit(nodes')
<1>0. \A m \in Nodes : /\ nodes[m] \in NodeStates /\ nodes[m].version \in Nat
                       /\ nodes[m].spec \in Nat /\ nodes[m].spec <= nodes[m].version
  BY DEF TypeOK, NodeStates, ViewInv, SpecsFit
<1>1. ASSUME NEW n \in Nodes, NEW s,
             s \in {nodes[n].spec, nodes[n].version + 1}, NEW v, v = nodes[n].version + 1,
             nodes'[n].version = v, nodes'[n].spec = s,
             \A m \in Nodes \ {n} : nodes'[m] = nodes[m]
      PROVE  Later(nodes, nodes') /\ SpecsFit(nodes')
  BY <1>0, <1>1 DEF Later, SpecsFit
<1>2. ASSUME NEW n \in Nodes, NodeTurns(n) PROVE Later(nodes, nodes') /\ SpecsFit(nodes')
  <2>1. nodes' = [nodes EXCEPT ![n] =
            [nodes[n] EXCEPT !.version = nodes[n].version + 1, !.up = ~nodes[n].up]]
    BY <1>2, NodeChanges
  <2>2. nodes'[n] = [nodes[n] EXCEPT !.version = nodes[n].version + 1, !.up = ~nodes[n].up]
        /\ \A m \in Nodes \ {n} : nodes'[m] = nodes[m]
    BY <2>1 DEF TypeOK
  <2>3. nodes'[n].version = nodes[n].version + 1 /\ nodes'[n].spec = nodes[n].spec
    <3>1. nodes[n] \in NodeStates
      BY <1>0
    <3>. QED  BY <2>2, <3>1, Zenon DEF NodeStates
  <2>. QED  BY <1>1, <2>2, <2>3
<1>3. ASSUME NEW n \in Nodes, NodeSet(n) PROVE Later(nodes, nodes') /\ SpecsFit(nodes')
  <2>1. nodes' = [nodes EXCEPT ![n] =
            [nodes[n] EXCEPT !.version = nodes[n].version + 1, !.spec = nodes[n].version + 1]]
    BY <1>3, NodeChanges
  <2>2. nodes'[n] = [nodes[n] EXCEPT !.version = nodes[n].version + 1,
                                     !.spec = nodes[n].version + 1]
        /\ \A m \in Nodes \ {n} : nodes'[m] = nodes[m]
    BY <2>1 DEF TypeOK
  <2>3. nodes'[n].version = nodes[n].version + 1 /\ nodes'[n].spec = nodes[n].version + 1
    <3>1. nodes[n] \in NodeStates
      BY <1>0
    <3>. QED  BY <2>2, <3>1, Zenon DEF NodeStates
  <2>. QED  BY <1>1, <2>2, <2>3
<1>4. CASE UNCHANGED nodes
  BY <1>4, SameLater
<1>. QED  BY <1>2, <1>3, <1>4, Zenon DEF OthersNext, TaskTurns, ServiceGone, ServiceMade

LEMMA OthersTasks ==
  ASSUME TypeOK, ViewInv, OthersNext
  PROVE  TasksTurn(tasks, tasks', nodes') /\ TasksFit(service'.id, tasks')
<1>0. /\ \A t \in Tasks : tasks[t] \in TaskStates /\ tasks[t].service = service.id
      /\ service.id = 0 => \A t \in Tasks : ~tasks[t].running
  BY DEF TypeOK, ViewInv, TasksFit
<1>1. CASE UNCHANGED <<service, tasks>>
  <2>1. TasksTurn(tasks, tasks, nodes') /\ TasksFit(service.id, tasks)
    BY DEF TasksTurn, ViewInv
  <2>. QED  BY <1>1, <2>1
<1>2. ASSUME NEW t \in Tasks, TaskTurns(t)
      PROVE  TasksTurn(tasks, tasks', nodes') /\ TasksFit(service'.id, tasks')
  <2>1. tasks[t].service # 0 /\ UNCHANGED <<nodes, service>>
    BY <1>2, Zenon DEF TaskTurns
  <2>2. PICK u : /\ tasks' = [tasks EXCEPT ![t] = u]
                 /\ u.node = tasks[t].node /\ u.service = tasks[t].service
                 /\ u.running => tasks[t].running \/ nodes[u.node].up
    <3>1. /\ [tasks[t] EXCEPT !.running = FALSE].node = tasks[t].node
          /\ [tasks[t] EXCEPT !.running = FALSE].service = tasks[t].service
          /\ ~[tasks[t] EXCEPT !.running = FALSE].running
      BY <1>0 DEF TaskStates
    <3>2. /\ [tasks[t] EXCEPT !.running = TRUE].node = tasks[t].node
          /\ [tasks[t] EXCEPT !.running = TRUE].service = tasks[t].service
      BY <1>0 DEF TaskStates
    <3>3. /\ [tasks[t] EXCEPT !.shutdown = TRUE].node = tasks[t].node
          /\ [tasks[t] EXCEPT !.shutdown = TRUE].service = tasks[t].service
          /\ [tasks[t] EXCEPT !.shutdown = TRUE].running = tasks[t].running
      BY <1>0 DEF TaskStates
    <3>4. CASE tasks' = [tasks EXCEPT ![t] = [tasks[t] EXCEPT !.running = FALSE]]
      BY <3>1, <3>4, Zenon
    <3>5. CASE /\ nodes[tasks[t].node].up
               /\ tasks' = [tasks EXCEPT ![t] = [tasks[t] EXCEPT !.running = TRUE]]
      BY <3>2, <3>5, Zenon
    <3>6. CASE tasks' = [tasks EXCEPT ![t] = [tasks[t] EXCEPT !.shutdown = TRUE]]
      BY <3>3, <3>6, Zenon
    <3>. QED  BY <1>2, <3>4, <3>5, <3>6, TaskChanges, Zenon
  <2>3. tasks'[t] = u /\ \A q \in Tasks \ {t} : tasks'[q] = tasks[q]
    BY <2>2 DEF TypeOK
  <2>4. TasksTurn(tasks, tasks', nodes)
    BY <2>2, <2>3 DEF TasksTurn
  <2>5. service.id # 0
    BY <1>0, <2>1
  <2>6. TasksFit(service.id, tasks')
    BY <1>0, <2>2, <2>3, <2>5 DEF TasksFit
  <2>. QED  BY <2>1, <2>4, <2>6
<1>3. CASE ServiceGone
  <2>1. service' = NoService
        /\ tasks' = [t \in Tasks |-> [tasks[t] EXCEPT !.service = 0, !.running = FALSE]]
    BY <1>3, Zenon DEF ServiceGone
  <2>2. \A t \in Tasks : /\ [tasks[t] EXCEPT !.service = 0, !.running = FALSE].node = tasks[t].node
                         /\ [tasks[t] EXCEPT !.service = 0, !.running = FALSE].service = 0
                         /\ ~[tasks[t] EXCEPT !.service = 0, !.running = FALSE].running
    BY <1>0 DEF TaskStates
  <2>3. \A t \in Tasks : tasks'[t].node = tasks[t].node /\ tasks'[t].service = 0 /\ ~tasks'[t].running
    BY <2>1, <2>2, Zenon
  <2>4. service'.id = 0
    BY <2>1 DEF NoService
  <2>. QED  BY <2>3, <2>4 DEF TasksTurn, TasksFit
<1>4. CASE ServiceMade
  <2>1. /\ tasks' = [t \in Tasks |-> [tasks[t] EXCEPT !.service = ids + 1, !.shutdown = FALSE]]
        /\ service.id = 0
        /\ \E global \in BOOLEAN : service' = [id |-> ids + 1, global |-> global, replicas |-> 1]
    BY <1>4, Zenon DEF ServiceMade
  <2>2. \A t \in Tasks :
           /\ [tasks[t] EXCEPT !.service = ids + 1, !.shutdown = FALSE].node = tasks[t].node
           /\ [tasks[t] EXCEPT !.service = ids + 1, !.shutdown = FALSE].service = ids + 1
           /\ ~[tasks[t] EXCEPT !.service = ids + 1, !.shutdown = FALSE].running
    BY <1>0, <2>1 DEF TaskStates
  <2>3. \A t \in Tasks : /\ tasks'[t].node = tasks[t].node /\ tasks'[t].service = ids + 1
                         /\ ~tasks'[t].running
    BY <2>1, <2>2, Zenon
  <2>4. service'.id = ids + 1
    <3>1. PICK b \in BOOLEAN : service' = [id |-> ids + 1, global |-> b, replicas |-> 1]
      BY <2>1, Zenon
    <3>. QED  BY <3>1
  <2>5. ids + 1 # 0
    BY DEF TypeOK
  <2>. QED  BY <2>3, <2>4, <2>5 DEF TasksTurn, TasksFit
<1>. QED  BY <1>1, <1>2, <1>3, <1>4, Zenon DEF OthersNext, NodeTurns, NodeSet

LEMMA OthersView == ASSUME TypeOK, ViewInv, OthersNext PROVE ViewInv'
<1>1. /\ pc' = pc /\ loc' = loc /\ Others
      /\ nodes \in [Nodes -> NodeStates] /\ nodes' \in [Nodes -> NodeStates]
      /\ tasks' \in [Tasks -> TaskStates]
  BY OthersSwarmType, OthersLeave DEF TypeOK
<1>2. PICK up : up = Up'
  OBVIOUS
<1>3. hist' = [r \in Requests |->
          IF pc[r] \in Listing
          THEN [hist[r] EXCEPT !.steady = hist[r].steady \cap up, !.seen = hist[r].seen \cup up]
          ELSE hist[r]]
  BY <1>1, <1>2, Zenon DEF Others, Listing
<1>4. \A t, i : <<t, i>> \in up <=>
         t \in Tasks /\ i = tasks'[t].service /\ tasks'[t].running /\ nodes'[tasks'[t].node].up
  BY <1>2 DEF Up
<1>5. ASSUME NEW r \in Requests
      PROVE  /\ UpdateFits(pc'[r], loc'[r], hist'[r], nodes')
             /\ StatusFits(pc'[r], loc'[r], hist'[r], tasks')
  <2>0. UpdateFits(pc[r], loc[r], hist[r], nodes') /\ StatusFits(pc[r], loc[r], hist[r], tasks)
    <3>1. UpdateFits(pc[r], loc[r], hist[r], nodes) /\ StatusFits(pc[r], loc[r], hist[r], tasks)
      BY DEF ViewInv
    <3>2. loc[r] \in Locals /\ hist[r] \in Histories
      BY Types
    <3>. QED  BY <1>1, <3>1, <3>2, OthersNodes, UpdateFitsLater
  <2>1. CASE pc[r] \in Listing
    <3>1. hist'[r] = [hist[r] EXCEPT !.steady = hist[r].steady \cap up, !.seen = hist[r].seen \cup up]
      BY <1>3, <2>1
    <3>2. /\ hist'[r].made = hist[r].made /\ hist'[r].over = hist[r].over
          /\ hist'[r].based = hist[r].based
          /\ hist'[r].steady = hist[r].steady \cap up /\ hist'[r].seen = hist[r].seen \cup up
      BY <3>1, Types DEF Histories
    <3>3. UpdateFits(pc[r], loc[r], hist'[r], nodes')
      BY <2>0, <3>2 DEF UpdateFits
    <3>4. /\ \A t \in Tasks, i \in Nat : <<t, i>> \in hist[r].steady =>
                tasks[t].service = i /\ tasks[t].running /\ tasks[t].node \in loc[r].ready
          /\ \A t \in Tasks : tasks[t].running /\ tasks[t].node \in loc[r].ready =>
                <<t, tasks[t].service>> \in hist[r].seen
          /\ loc[r].status.service = 0
      BY <2>0, <2>1 DEF StatusFits, Listing
    <3>5. \A t \in Tasks :
            /\ tasks'[t].node = tasks[t].node
            /\ tasks'[t].running => \/ tasks[t].running /\ tasks'[t].service = tasks[t].service
                                   \/ nodes'[tasks'[t].node].up
      BY OthersTasks DEF TasksTurn
    <3>6. \A t \in Tasks, i \in Nat : <<t, i>> \in hist'[r].steady =>
             tasks'[t].service = i /\ tasks'[t].running /\ tasks'[t].node \in loc[r].ready
      BY <1>4, <3>2, <3>4, <3>5
    <3>7. \A t \in Tasks : tasks'[t].running /\ tasks'[t].node \in loc[r].ready =>
             <<t, tasks'[t].service>> \in hist'[r].seen
      BY <1>4, <3>2, <3>4, <3>5
    <3>8. StatusFits(pc[r], loc[r], hist'[r], tasks')
      BY <2>1, <3>4, <3>6, <3>7 DEF StatusFits, Listing
    <3>. QED  BY <1>1, <3>3, <3>8
  <2>2. CASE pc[r] \notin Listing
    <3>1. hist'[r] = hist[r]
      BY <1>3, <2>2
    <3>2. StatusFits(pc[r], loc[r], hist[r], tasks')
      BY <2>0, <2>2 DEF StatusFits
    <3>. QED  BY <1>1, <2>0, <3>1, <3>2
  <2>. QED  BY <2>1, <2>2
<1>. QED  BY <1>5, OthersNodes, OthersTasks DEF ViewInv, UpdateFits, StatusFits, SpecsFit, TasksFit

LEMMA CrashView == ASSUME TypeOK, ViewInv, Crash PROVE ViewInv'
<1>1. UNCHANGED <<nodes, service, tasks>>
  BY DEF Crash, swarm
<1>2. ASSUME NEW r \in Requests
      PROVE  /\ UpdateFits(pc'[r], loc'[r], hist'[r], nodes)
             /\ StatusFits(pc'[r], loc'[r], hist'[r], tasks)
  <2>1. loc'[r].status.service = 0 /\ hist'[r].made = 0
    BY DEF Crash, Blank, NoStatus, NoHistory
  <2>2. pc'[r] \notin Listing \cup {"NodeUpdate"}
    BY DEF Crash, Active, Calls, DockerCalls, Listing
  <2>. QED  BY <2>1, <2>2, PlainFits
<1>3. /\ \A r \in Requests : UpdateFits(pc'[r], loc'[r], hist'[r], nodes')
      /\ \A r \in Requests : StatusFits(pc'[r], loc'[r], hist'[r], tasks')
  BY <1>1, <1>2
<1>4. SpecsFit(nodes') /\ TasksFit(service'.id, tasks')
  BY <1>1 DEF ViewInv
<1>. QED  BY <1>3, <1>4 DEF ViewInv, UpdateFits, StatusFits, SpecsFit, TasksFit

LEMMA InitView == Init => ViewInv
<1>. SUFFICES ASSUME Init PROVE ViewInv
  OBVIOUS
<1>1. \A r \in Requests : /\ pc[r] = "idle" /\ loc[r].status.service = 0 /\ hist[r].made = 0
  BY DEF Init, Blank, NoStatus, NoHistory
<1>2. \A r \in Requests : /\ UpdateFits(pc[r], loc[r], hist[r], nodes)
                          /\ StatusFits(pc[r], loc[r], hist[r], tasks)
  BY <1>1, PlainFits DEF Listing
<1>3. SpecsFit(nodes)
  BY DEF Init, SpecsFit
<1>4. service.id = 1 /\ \A t \in Tasks : tasks[t].service = 1
  BY DEF Init
<1>. QED  BY <1>2, <1>3, <1>4 DEF ViewInv, TasksFit

LEMMA ViewInductive == TypeOK /\ LookupInv /\ ViewInv /\ [Next]_vars => ViewInv'
<1>. SUFFICES ASSUME TypeOK, LookupInv, ViewInv, [Next]_vars PROVE ViewInv'
  OBVIOUS
<1>1. CASE UNCHANGED vars
  BY <1>1 DEF ViewInv, vars, swarm
<1>2. CASE OthersNext
  BY <1>2, OthersView
<1>3. CASE Crash
  BY <1>3, CrashView
<1>4. ASSUME NEW r \in Requests, Start(r) \/ CallFails(r) \/ Prepare(r) \/ Get(r)
      PROVE  ViewInv'
  BY <1>4, LookupView
<1>5. ASSUME NEW r \in Requests,
             \/ InsertCluster(r) \/ InsertCheck(r) \/ FindChecks(r) \/ Log(r) \/ Find(r)
             \/ ServiceInspect(r) \/ ServiceLogs(r) \/ Inspect(r) \/ Respond(r)
             \/ ConfigCreate(r) \/ ConfigRemove(r)
      PROVE  ViewInv'
  BY <1>5, TablesView
<1>6. ASSUME NEW r \in Requests,
             \/ NodeList(r) \/ ServiceList(r) \/ TaskList(r)
             \/ NodeInspect(r) \/ Refresh(r) \/ NodeUpdate(r)
      PROVE  ViewInv'
  BY <1>6, NodeListView, ListingView, InspectView, NodeUpdateView
<1>7. CASE RequestNext
  BY <1>4, <1>5, <1>6, <1>7, Zenon DEF RequestNext
<1>. QED  BY <1>1, <1>2, <1>3, <1>7, NextCases

LEMMA ViewAlways == Spec => [](TypeOK /\ ViewInv)
<1>1. Init => TypeOK /\ LookupInv /\ ViewInv
  BY InitType, InitLookup, InitView
<1>2. TypeOK /\ LookupInv /\ ViewInv /\ [Next]_vars => TypeOK' /\ LookupInv' /\ ViewInv'
  BY LookupInductive, ViewInductive
<1>. QED  BY <1>1, <1>2, PTL DEF Spec

(* A node update that is accepted overwrites what its request inspected and *)
(* nothing newer, and answers with no older specification than its own, for *)
(* every number of other users of the swarm (endpoints.go:658-674).         *)
THEOREM UpdatesKept == Spec => []NodeUpdatesKept
<1>1. TypeOK /\ ViewInv => NodeUpdatesKept
  BY DEF ViewInv, UpdateFits, NodeUpdatesKept
<1>. QED  BY <1>1, ViewAlways, PTL

(* The status of a service lies between what was up all the while its three *)
(* lists were read and what was up at some time (services.go:414-438).      *)
THEOREM StatusBetween == Spec => []StatusBracketed
<1>1. TypeOK /\ ViewInv => StatusBracketed
  BY DEF ViewInv, StatusFits, StatusBracketed
<1>. QED  BY <1>1, ViewAlways, PTL

-----------------------------------------------------------------------------
(* The audit log *)

AuditFits(r, c, l, cl, ch, ev) ==
    /\ c = "Log" /\ l.op = "clusterCreate" => l.asked \in cl
    /\ c = "Log" /\ l.op = "checkCreate" => \E row \in ch : row.by = r
    /\ c = "Respond" /\ l.op \in Creations => \E e \in ev : e.by = r

Happened(e, cl, ch) ==
    /\ e.op = "clusterCreate" => e.asked \in cl
    /\ e.op = "checkCreate" => \E row \in ch : row.by = e.by

AuditInv ==
    /\ \A r \in Requests : AuditFits(r, pc[r], loc[r], clusters, checks, events)
    /\ \A e \in events : Happened(e, clusters, checks)

LEMMA MovesAudit ==
  ASSUME TypeOK, AuditInv, NEW r \in Requests, NEW c \in Calls \cup Answers,
         NEW l \in Locals, NEW h \in Histories, Moves(r, c, l, h),
         clusters \subseteq clusters', checks \subseteq checks', events \subseteq events',
         \A e \in events' \ events : Happened(e, clusters', checks'),
         AuditFits(r, c, l, clusters', checks', events')
  PROVE  AuditInv'
<1>1. ASSUME NEW q \in Requests
      PROVE  AuditFits(q, pc'[q], loc'[q], clusters', checks', events')
  <2>1. CASE q = r
    BY <2>1, MovesType
  <2>2. CASE q # r
    <3>1. pc'[q] = pc[q] /\ loc'[q] = loc[q]
      BY <2>2, MovesType
    <3>2. AuditFits(q, pc[q], loc[q], clusters, checks, events)
      BY DEF AuditInv
    <3>3. AuditFits(q, pc[q], loc[q], clusters', checks', events')
      BY <3>2 DEF AuditFits
    <3>. QED  BY <3>1, <3>3
  <2>. QED  BY <2>1, <2>2
<1>2. \A e \in events' : Happened(e, clusters', checks')
  BY DEF AuditInv, Happened
<1>. QED  BY <1>1, <1>2 DEF AuditInv, AuditFits, Happened

(* A step to a call that says nothing of the tables.                        *)
LEMMA QuietAudit ==
  ASSUME TypeOK, AuditInv, NEW r \in Requests, NEW c \in Calls \cup Answers,
         NEW l \in Locals, NEW h \in Histories, Moves(r, c, l, h),
         clusters \subseteq clusters', checks \subseteq checks', UNCHANGED events,
         c # "Log", c = "Respond" => l.op \notin Creations
  PROVE  AuditInv'
<1>1. AuditFits(r, c, l, clusters', checks', events')
  BY DEF AuditFits
<1>. QED  BY <1>1, MovesAudit

LEMMA EndsAudit ==
  ASSUME TypeOK, AuditInv, NEW r \in Requests, Ends(r),
         clusters \subseteq clusters', checks \subseteq checks', UNCHANGED events
  PROVE  AuditInv'
<1>1. PICK a \in Answers : Moves(r, a, Blank(loc[r].node), NoHistory)
  BY DEF Ends
<1>2. a \notin {"Log", "Respond"}
  BY DEF Answers
<1>. QED  BY <1>1, <1>2, Types, BlankType, NoHistoryType, QuietAudit

LEMMA ReadsAudit ==
  ASSUME TypeOK, AuditInv, NEW r \in Requests, NEW c \in Calls, NEW l \in Locals,
         Reads(r, l, c), c # "Log", c = "Respond" => l.op \notin Creations
  PROVE  AuditInv'
<1>1. UNCHANGED <<clusters, checks, events>>
  BY DEF Reads, db
<1>. QED  BY <1>1, ReadsMoves, Types, QuietAudit

LEMMA RefusesAudit ==
  ASSUME TypeOK, AuditInv, NEW r \in Requests, NEW a \in Answers, Refuses(r, a)
  PROVE  AuditInv'
<1>1. UNCHANGED <<clusters, checks, events>>
  BY DEF Refuses, db
<1>. QED  BY <1>1, EndsMoves, EndsAudit DEF Ends

LEMMA LookupAudit ==
  ASSUME TypeOK, LookupInv, AuditInv, NEW r \in Requests,
         Start(r) \/ CallFails(r) \/ Prepare(r) \/ Get(r)
  PROVE  AuditInv'
<1>0. UNCHANGED <<clusters, checks, events>>
  BY DEF Start, CallFails, Prepare, Get, db
<1>1. CASE Start(r)
  <2>1. PICK op \in Ops, k \in Clusters, n \in Nodes :
          /\ op \notin CheckOps \cup {"clusterCreate"} => k = Home
          /\ Moves(r, IF op = "clusterCreate" THEN First[op] ELSE "Prepare",
                   [loc[r] EXCEPT !.op = op, !.asked = k, !.node = n], hist[r])
    BY <1>1, StartMoves
  <2>. DEFINE l == [loc[r] EXCEPT !.op = op, !.asked = k, !.node = n]
              c == IF op = "clusterCreate" THEN First[op] ELSE "Prepare"
  <2>2. l \in Locals
    BY Types DEF Locals
  <2>3. c \in {"InsertCluster", "Prepare"}
    BY DEF First, Ops
  <2>4. Moves(r, c, l, hist[r])
    BY <2>1
  <2>. HIDE DEF l, c
  <2>. QED  BY <1>0, <2>2, <2>3, <2>4, Types, QuietAudit DEF Calls, LookUp
<1>2. CASE CallFails(r)
  <2>1. Ends(r)
    BY <1>2, AnswerMoves DEF CallFails, Ends, Answers
  <2>. QED  BY <1>0, <2>1, EndsAudit
<1>3. CASE Prepare(r)
  <2>1. Moves(r, "Get", loc[r], hist[r])
    BY <1>3, Types DEF Prepare, Moves, Goto
  <2>. QED  BY <1>0, <2>1, Types, QuietAudit DEF Calls, LookUp
<1>4. CASE Get(r)
  <2>1. CASE Ends(r)
    BY <1>0, <2>1, EndsAudit
  <2>2. CASE /\ TryAgain(NextTry(loc[r].tries))
             /\ Moves(r, "Get", [loc[r] EXCEPT !.tries = NextTry(@)], hist[r])
    <3>. DEFINE l == [loc[r] EXCEPT !.tries = NextTry(@)]
    <3>1. l \in Locals
      BY <2>2, Types DEF TryAgain, NextTry, Locals
    <3>2. Moves(r, "Get", l, hist[r])
      BY <2>2
    <3>. HIDE DEF l
    <3>. QED  BY <1>0, <3>1, <3>2, Types, QuietAudit DEF Calls, LookUp
  <2>3. ASSUME NEW k \in Clusters \cup {Zero},
               Moves(r, First[loc[r].op],
                     [loc[r] EXCEPT !.cluster = k,
                        !.tries = IF k = Zero THEN NextTry(loc[r].tries) ELSE 0], hist[r])
        PROVE  AuditInv'
    <3>. DEFINE i == IF k = Zero THEN NextTry(loc[r].tries) ELSE 0
                l == [loc[r] EXCEPT !.cluster = k, !.tries = i]
    <3>1. i \in 0..MaxTries
      <4>1. loc[r].tries < MaxTries
        BY <1>4 DEF Get, LookupInv, LookupFits, LookUp
      <4>. QED  BY <4>1, Types DEF NextTry
    <3>2. Moves(r, First[loc[r].op], l, hist[r])
      BY <2>3
    <3>. HIDE DEF i
    <3>3. l \in Locals
      BY <3>1, Types DEF Locals
    <3>. HIDE DEF l
    <3>4. \A op \in Ops : First[op] \notin {"Log", "Respond"}
      BY DEF First, Ops, CheckOps
    <3>5. First[loc[r].op] \in Calls \ {"Log", "Respond"}
      BY <3>4, Types, FirstType
    <3>. QED  BY <1>0, <3>2, <3>3, <3>5, Types, QuietAudit
  <2>. QED  BY <1>4, <2>1, <2>2, <2>3, GetMoves
<1>. QED  BY <1>1, <1>2, <1>3, <1>4

LEMMA TablesAudit ==
  ASSUME TypeOK, LookupInv, AuditInv, NEW r \in Requests,
         InsertCluster(r) \/ InsertCheck(r) \/ FindChecks(r) \/ Log(r)
  PROVE  AuditInv'
<1>0. {"failed", "refused"} \subseteq Answers /\ {"Log", "Respond"} \subseteq Calls
  BY DEF Answers, Calls
<1>1. ASSUME Outcome(r, "Log"), pc[r] \in {"InsertCluster", "InsertCheck"},
             clusters \subseteq clusters', checks \subseteq checks', UNCHANGED events,
             \/ loc[r].op = "clusterCreate" /\ loc[r].asked \in clusters'
             \/ loc[r].op = "checkCreate" /\ \E row \in checks' : row.by = r
      PROVE  AuditInv'
  <2>1. CASE Ends(r)
    BY <1>1, <2>1, EndsAudit
  <2>2. CASE Stays(r, "Log")
    <3>1. AuditFits(r, "Log", loc[r], clusters', checks', events')
      BY <1>1 DEF AuditFits
    <3>. QED  BY <1>0, <1>1, <2>2, <3>1, Types, MovesAudit DEF Stays
  <2>. QED  BY <1>1, <2>1, <2>2, OutcomeMoves
<1>2. CASE InsertCluster(r)
  <2>1. loc[r].op = "clusterCreate"
    BY <1>2 DEF InsertCluster, LookupInv, LookupFits
  <2>. QED  BY <1>0, <1>1, <1>2, <2>1, RefusesAudit DEF InsertCluster
<1>3. CASE InsertCheck(r)
  <2>1. loc[r].op = "checkCreate" /\ pc[r] = "InsertCheck"
    BY <1>3 DEF InsertCheck, LookupInv, LookupFits
  <2>2. CASE /\ checks' = checks \cup {[by |-> r, cluster |-> loc[r].cluster,
                                        asked |-> loc[r].asked, tries |-> loc[r].tries]}
             /\ Outcome(r, "Log") /\ UNCHANGED <<clusters, events, swarm, changes>>
    <3>. DEFINE row == [by |-> r, cluster |-> loc[r].cluster,
                        asked |-> loc[r].asked, tries |-> loc[r].tries]
    <3>1. row.by = r /\ checks' = checks \cup {row}
      BY <2>2
    <3>. HIDE DEF row
    <3>2. \E q \in checks' : q.by = r
      BY <3>1
    <3>3. clusters' = clusters /\ checks \subseteq checks' /\ UNCHANGED events
      BY <2>2, <3>1
    <3>. QED  BY <1>1, <2>1, <2>2, <3>2, <3>3
  <2>. QED  BY <1>0, <1>3, <2>2, RefusesAudit DEF InsertCheck
<1>4. CASE FindChecks(r)
  <2>. DEFINE l == [loc[r] EXCEPT !.checks = {row \in checks : loc[r].cluster \in {Zero, row.cluster}}]
  <2>1. loc[r].op = "checkList" /\ l \in Locals /\ l.op = loc[r].op
    BY <1>4, Types DEF FindChecks, LookupInv, LookupFits, Locals, TypeOK
  <2>2. CASE Reads(r, l, "Respond")
    <3>. HIDE DEF l
    <3>. QED  BY <1>0, <2>1, <2>2, ReadsAudit DEF Creations
  <2>3. CASE Fault /\ Goto(r, "Respond") /\ UNCHANGED <<db, swarm, loc, changes, hist>>
    <3>1. Moves(r, "Respond", loc[r], hist[r]) /\ UNCHANGED <<clusters, checks, events>>
      BY <2>3, Types DEF Moves, Goto, db
    <3>. QED  BY <1>0, <2>1, <3>1, Types, QuietAudit DEF Creations
  <2>. QED  BY <1>4, <2>2, <2>3 DEF FindChecks
<1>5. CASE Log(r)
  <2>. DEFINE e == [by |-> r, op |-> loc[r].op, asked |-> loc[r].asked]
  <2>1. Moves(r, "Respond", loc[r], hist[r]) /\ UNCHANGED <<clusters, checks>>
        /\ events' = events \cup {e}
    BY <1>5, Types DEF Log, Moves, Goto
  <2>2. AuditFits(r, "Log", loc[r], clusters, checks, events)
    BY <1>5 DEF Log, AuditInv
  <2>3. Happened(e, clusters, checks) /\ e.by = r
    BY <2>2 DEF AuditFits, Happened
  <2>. HIDE DEF e
  <2>4. AuditFits(r, "Respond", loc[r], clusters', checks', events')
    BY <2>1, <2>3 DEF AuditFits
  <2>. QED  BY <1>0, <2>1, <2>3, <2>4, Types, MovesAudit
<1>. QED  BY <1>2, <1>3, <1>4, <1>5

LEMMA SwarmAudit ==
  ASSUME TypeOK, LookupInv, AuditInv, NEW r \in Requests,
         \/ Find(r) \/ NodeList(r) \/ ServiceList(r) \/ TaskList(r) \/ ServiceInspect(r)
         \/ ServiceLogs(r) \/ NodeInspect(r) \/ Refresh(r) \/ Inspect(r) \/ Respond(r)
  PROVE  AuditInv'
<1>0. /\ {"failed", "refused", "answered"} \subseteq Answers
      /\ {"NodeList", "ServiceList", "TaskList", "ServiceInspect", "ServiceLogs",
          "NodeUpdate", "Respond"} \subseteq Calls
  BY DEF Answers, Calls, DockerCalls
<1>1. pc[r] \in DockerCalls \cup {"Find"} => loc[r].op \notin Creations
  BY DEF LookupInv, LookupFits
<1>2. CASE NodeList(r)
  <2>. DEFINE l == [loc[r] EXCEPT !.ready = {n \in Nodes : nodes[n].up}]
              h == [hist[r] EXCEPT !.steady = Up, !.seen = Up]
              c == IF loc[r].op = "taskList" THEN "TaskList" ELSE "ServiceList"
  <2>1. l \in Locals /\ h \in Histories /\ c \in {"TaskList", "ServiceList"}
    <3>1. l \in Locals
      BY Types DEF Locals
    <3>2. h \in Histories
      BY UpType, Types DEF Histories
    <3>. QED  BY <3>1, <3>2
  <2>2. Moves(r, c, l, h) /\ UNCHANGED <<clusters, checks, events>>
    BY <1>2, NodeListMoves DEF NodeList, db
  <2>. HIDE DEF l, h, c
  <2>. QED  BY <1>0, <2>1, <2>2, QuietAudit
<1>3. ASSUME NEW l \in Locals, l.op = loc[r].op, pc[r] \in DockerCalls \cup {"Find"},
             NEW c \in Calls \ {"Log"}, Reads(r, l, c)
      PROVE  AuditInv'
  BY <1>1, <1>3, ReadsAudit
<1>4. CASE \E a \in Answers : Refuses(r, a)
  BY <1>4, RefusesAudit
<1>5. CASE ServiceList(r)
  <2>. DEFINE l == [loc[r] EXCEPT !.svc = service]
  <2>1. l \in Locals /\ l.op = loc[r].op
    BY Types DEF Locals, TypeOK
  <2>2. Reads(r, l, "TaskList") /\ pc[r] \in DockerCalls
    BY <1>5 DEF ServiceList, DockerCalls
  <2>. HIDE DEF l
  <2>. QED  BY <1>0, <1>3, <2>1, <2>2
<1>6. CASE TaskList(r)
  <2>. DEFINE l == [loc[r] EXCEPT !.status = Status(loc[r].ready, loc[r].svc)]
  <2>1. l \in Locals /\ l.op = loc[r].op
    BY Types, StatusType DEF Locals
  <2>2. /\ Reads(r, l, "Respond") \/ Reads(r, loc[r], "Respond") \/ Refuses(r, "refused")
        /\ pc[r] \in DockerCalls
    BY <1>6 DEF TaskList, DockerCalls
  <2>. HIDE DEF l
  <2>. QED  BY <1>0, <1>3, <1>4, <2>1, <2>2, Types
<1>7. CASE NodeInspect(r) \/ Refresh(r)
  <2>. DEFINE l == [loc[r] EXCEPT !.inspected = nodes[loc[r].node]]
  <2>1. l \in Locals /\ l.op = loc[r].op
    BY Types DEF Locals, TypeOK
  <2>2. Reads(r, l, "NodeUpdate") \/ Reads(r, l, "Respond")
    BY <1>7 DEF NodeInspect, Refresh
  <2>3. pc[r] \in DockerCalls
    BY <1>7 DEF NodeInspect, Refresh, DockerCalls
  <2>. HIDE DEF l
  <2>. QED  BY <1>0, <1>3, <2>1, <2>2, <2>3
<1>8. CASE Find(r) \/ ServiceInspect(r) \/ ServiceLogs(r) \/ Inspect(r) \/ Respond(r)
  <2>1. pc[r] = "Find" => AfterFind[loc[r].op] \in {"NodeList", "ServiceInspect", "ServiceLogs"}
    <3>1. pc[r] = "Find" => loc[r].op \in {"serviceList", "raw", "logs"}
      BY DEF LookupInv, LookupFits
    <3>. QED  BY <3>1 DEF AfterFind
  <2>2. \/ \E a \in {"failed", "refused", "answered"} : Refuses(r, a)
        \/ /\ \E c \in {"NodeList", "ServiceInspect", "ServiceLogs", "Respond"} : Reads(r, loc[r], c)
           /\ pc[r] \in DockerCalls \cup {"Find"}
    BY <1>8, <2>1 DEF Find, ServiceInspect, ServiceLogs, Inspect, Respond, DockerCalls
  <2>. QED  BY <1>0, <1>3, <1>4, <2>2, Types
<1>. QED  BY <1>2, <1>5, <1>6, <1>7, <1>8

LEMMA WritesAudit ==
  ASSUME TypeOK, LookupInv, AuditInv, NEW r \in Requests,
         NodeUpdate(r) \/ ConfigCreate(r) \/ ConfigRemove(r)
  PROVE  AuditInv'
<1>0. "failed" \in Answers /\ {"Refresh", "Respond"} \subseteq Calls
  BY DEF Answers, Calls, DockerCalls
<1>1. CASE Refuses(r, "failed")
  BY <1>0, <1>1, RefusesAudit
<1>2. CASE Ends(r) /\ UNCHANGED db
  <2>1. UNCHANGED <<clusters, checks, events>>
    BY <1>2 DEF db
  <2>. QED  BY <1>2, <2>1, EndsAudit
<1>3. CASE NodeUpdate(r)
  <2>. DEFINE n == loc[r].node
              h == [hist[r] EXCEPT !.made = nodes[n].version + 1, !.over = nodes[n].spec,
                                   !.based = loc[r].inspected.spec]
  <2>1. CASE Moves(r, "Refresh", loc[r], h) /\ UNCHANGED db
    <3>1. n \in Nodes /\ nodes[n].version \in Nat /\ nodes[n].spec \in Nat
          /\ loc[r].inspected.spec \in Nat
      BY Types DEF TypeOK, NodeStates
    <3>2. h \in Histories
      <4>1. hist[r] \in Histories /\ nodes[n].version + 1 \in Nat
        BY <3>1, Types
      <4>. HIDE DEF n
      <4>. QED  BY <3>1, <4>1 DEF Histories
    <3>3. UNCHANGED <<clusters, checks, events>>
      BY <2>1 DEF db
    <3>. HIDE DEF h
    <3>. QED  BY <1>0, <2>1, <3>2, <3>3, Types, QuietAudit
  <2>. QED  BY <1>1, <1>2, <1>3, <2>1, NodeUpdateMoves
<1>4. CASE ConfigCreate(r) \/ ConfigRemove(r)
  <2>1. loc[r].op \notin Creations
    BY <1>4 DEF ConfigCreate, ConfigRemove, LookupInv, LookupFits, DockerCalls
  <2>2. CASE Stays(r, "Respond") /\ UNCHANGED db
    <3>1. UNCHANGED <<clusters, checks, events>>
      BY <2>2 DEF db
    <3>. QED  BY <1>0, <2>1, <2>2, <3>1, Types, QuietAudit DEF Stays
  <2>3. CASE Outcome(r, "Respond") /\ UNCHANGED db
    BY <1>2, <2>2, <2>3, OutcomeMoves
  <2>. QED  BY <1>1, <1>4, <2>3 DEF ConfigCreate, ConfigRemove
<1>. QED  BY <1>3, <1>4

LEMMA OthersAudit == ASSUME TypeOK, AuditInv, OthersNext PROVE AuditInv'
<1>1. pc' = pc /\ loc' = loc /\ UNCHANGED <<clusters, checks, events>>
  BY OthersSwarmType, OthersLeave DEF db
<1>. QED  BY <1>1 DEF AuditInv

LEMMA CrashAudit == ASSUME TypeOK, AuditInv, Crash PROVE AuditInv'
<1>1. UNCHANGED <<clusters, checks, events>>
  BY DEF Crash, db
<1>2. \A r \in Requests : pc'[r] \notin {"Log", "Respond"}
  BY DEF Crash, Active, Calls
<1>3. \A r \in Requests : AuditFits(r, pc'[r], loc'[r], clusters', checks', events')
  BY <1>2 DEF AuditFits
<1>4. \A e \in events' : Happened(e, clusters', checks')
  BY <1>1 DEF AuditInv
<1>. QED  BY <1>3, <1>4 DEF AuditInv, AuditFits, Happened

LEMMA AuditInductive == TypeOK /\ LookupInv /\ AuditInv /\ [Next]_vars => AuditInv'
<1>. SUFFICES ASSUME TypeOK, LookupInv, AuditInv, [Next]_vars PROVE AuditInv'
  OBVIOUS
<1>1. CASE UNCHANGED vars
  BY <1>1 DEF AuditInv, vars, db
<1>2. CASE OthersNext
  BY <1>2, OthersAudit
<1>3. CASE Crash
  BY <1>3, CrashAudit
<1>4. ASSUME NEW r \in Requests,
             \/ Start(r) \/ CallFails(r) \/ Prepare(r) \/ Get(r)
             \/ InsertCluster(r) \/ InsertCheck(r) \/ FindChecks(r) \/ Log(r)
      PROVE  AuditInv'
  BY <1>4, LookupAudit, TablesAudit
<1>5. ASSUME NEW r \in Requests,
             \/ Find(r) \/ NodeList(r) \/ ServiceList(r) \/ TaskList(r) \/ ServiceInspect(r)
             \/ ServiceLogs(r) \/ NodeInspect(r) \/ Refresh(r) \/ Inspect(r) \/ Respond(r)
             \/ NodeUpdate(r) \/ ConfigCreate(r) \/ ConfigRemove(r)
      PROVE  AuditInv'
  BY <1>5, SwarmAudit, WritesAudit
<1>6. CASE RequestNext
  BY <1>4, <1>5, <1>6, Zenon DEF RequestNext
<1>. QED  BY <1>1, <1>2, <1>3, <1>6, NextCases

(* The audit log names only creations that were made, and an answer that    *)
(* says so is only given once it does (endpoints.go:156, 465).              *)
THEOREM AuditTrue == Spec => []AuditExact
<1>1. Init => TypeOK /\ LookupInv /\ AuditInv
  <2>1. Init => AuditInv
    BY DEF Init, AuditInv, AuditFits
  <2>. QED  BY <2>1, InitType, InitLookup
<1>2. TypeOK /\ LookupInv /\ AuditInv /\ [Next]_vars => TypeOK' /\ LookupInv' /\ AuditInv'
  BY LookupInductive, AuditInductive
<1>3. AuditInv => AuditExact
  BY DEF AuditInv, AuditFits, Happened, AuditExact, Creations
<1>. QED  BY <1>1, <1>2, <1>3, PTL DEF Spec

-----------------------------------------------------------------------------
(* The calls that are left *)

LEMMA Ranks ==
  /\ Rank["Prepare"] = 6 /\ Rank["Get"] = 5 /\ Rank["Find"] = 5
  /\ Rank["NodeList"] = 4 /\ Rank["NodeInspect"] = 4
  /\ \A c \in {"ServiceList", "NodeUpdate", "InsertCluster", "InsertCheck"} : Rank[c] = 3
  /\ \A c \in {"TaskList", "Refresh", "ServiceInspect", "ServiceLogs", "ConfigCreate",
               "ConfigRemove", "Inspect", "FindChecks", "Log"} : Rank[c] = 2
  /\ Rank["Respond"] = 1
  BY DEF Rank

LEMMA RankRange == \A c \in Calls : Rank[c] \in 1..6 /\ (c \notin LookUp => Rank[c] \in 1..5)
  BY Ranks DEF Calls, DockerCalls, LookUp

LEMMA AfterLookUp == \A c \in Calls \ LookUp, t \in Nat : CallsLeft(c, t) = Rank[c]
  BY DEF CallsLeft

(* A call that r made is one of those it had left.                          *)
Nears(r) ==
    \/ pc'[r] = pc[r] /\ loc'[r] = loc[r]
    \/ pc'[r] \in Answers
    \/ CallsLeft(pc'[r], loc'[r].tries) < CallsLeft(pc[r], loc[r].tries)

LEMMA MovesNear ==
  ASSUME TypeOK, NEW r \in Requests, NEW c, NEW l, NEW h, Moves(r, c, l, h),
         \/ pc[r] \notin Calls \/ c \in Answers
         \/ CallsLeft(c, l.tries) < CallsLeft(pc[r], loc[r].tries)
  PROVE  \A q \in Active : Nears(q)
<1>. SUFFICES ASSUME NEW q \in Active PROVE Nears(q)
  OBVIOUS
<1>1. q \in Requests /\ pc[q] \in Calls
  BY DEF Active
<1>2. CASE q = r
  <2>1. pc'[r] = c /\ loc'[r] = l
    BY DEF Moves, TypeOK
  <2>. QED  BY <1>1, <1>2, <2>1 DEF Nears
<1>3. CASE q # r
  <2>1. pc'[q] = pc[q] /\ loc'[q] = loc[q]
    BY <1>1, <1>3 DEF Moves, TypeOK
  <2>. QED  BY <2>1 DEF Nears
<1>. QED  BY <1>2, <1>3

LEMMA EndsNear == ASSUME TypeOK, NEW r \in Requests, Ends(r) PROVE \A q \in Active : Nears(q)
<1>1. PICK a \in Answers : Moves(r, a, Blank(loc[r].node), NoHistory)
  BY DEF Ends
<1>. QED  BY <1>1, MovesNear

(* After the look-up the rank alone counts.                                 *)
LEMMA RankNears ==
  ASSUME TypeOK, NEW r \in Requests, pc[r] \in Calls \ LookUp,
         NEW c \in Calls \ LookUp, Rank[c] < Rank[pc[r]],
         NEW l, l.tries = loc[r].tries, NEW h, Moves(r, c, l, h)
  PROVE  \A q \in Active : Nears(q)
<1>1. loc[r].tries \in Nat
  BY Types
<1>2. CallsLeft(c, l.tries) < CallsLeft(pc[r], loc[r].tries)
  BY <1>1, AfterLookUp
<1>. QED  BY <1>2, MovesNear

LEMMA ReadsNear ==
  ASSUME TypeOK, NEW r \in Requests, pc[r] \in Calls \ LookUp,
         NEW c \in Calls \ LookUp, Rank[c] < Rank[pc[r]],
         NEW l, l.tries = loc[r].tries, Reads(r, l, c)
  PROVE  \A q \in Active : Nears(q)
  BY ReadsMoves, RankNears

LEMMA StaysNear ==
  ASSUME TypeOK, NEW r \in Requests, pc[r] \in Calls \ LookUp,
         NEW c \in Calls \ LookUp, Rank[c] < Rank[pc[r]], Stays(r, c)
  PROVE  \A q \in Active : Nears(q)
  BY RankNears DEF Stays

LEMMA RefusesNear ==
  ASSUME TypeOK, NEW r \in Requests, NEW a \in Answers, Refuses(r, a)
  PROVE  \A q \in Active : Nears(q)
  BY EndsMoves, EndsNear DEF Ends

LEMMA OutcomeNear ==
  ASSUME TypeOK, NEW r \in Requests, pc[r] \in Calls \ LookUp,
         NEW c \in Calls \ LookUp, Rank[c] < Rank[pc[r]], Outcome(r, c)
  PROVE  \A q \in Active : Nears(q)
  BY OutcomeMoves, StaysNear, EndsNear

(* A turn of the loop, its last one included, uses up a try; what follows   *)
(* the look-up is less than a turn.                                         *)
LEMMA LookupNear ==
  ASSUME TypeOK, LookupInv, NEW r \in Requests,
         Start(r) \/ CallFails(r) \/ Prepare(r) \/ Get(r)
  PROVE  \A q \in Active : Nears(q)
<1>0. /\ loc[r].tries \in 0..MaxTries /\ MaxTries \in Nat
      /\ pc[r] \in LookUp => loc[r].tries < MaxTries
  BY Types DEF LookupInv, LookupFits
<1>1. CASE Start(r)
  <2>1. pc[r] \notin Calls
    BY <1>1 DEF Start, Calls, LookUp, DockerCalls
  <2>. QED  BY <1>1, <2>1, StartMoves, MovesNear
<1>2. CASE CallFails(r)
  BY <1>2, AnswerMoves, EndsNear DEF CallFails, Ends, Answers
<1>3. CASE Prepare(r)
  <2>1. pc[r] = "Prepare" /\ Moves(r, "Get", loc[r], hist[r])
    BY <1>3, Types DEF Prepare, Moves, Goto
  <2>2. CallsLeft("Get", loc[r].tries) < CallsLeft("Prepare", loc[r].tries)
    BY <1>0, Ranks DEF CallsLeft, LookUp
  <2>. QED  BY <2>1, <2>2, MovesNear
<1>4. CASE Get(r)
  <2>1. /\ pc[r] = "Get" /\ loc[r].tries < MaxTries
        /\ CallsLeft(pc[r], loc[r].tries) = 5 + MaxTries - loc[r].tries
    BY <1>0, <1>4, Ranks DEF Get, CallsLeft, LookUp
  <2>2. CASE Ends(r)
    BY <2>2, EndsNear
  <2>3. CASE Moves(r, "Get", [loc[r] EXCEPT !.tries = NextTry(@)], hist[r])
    <3>. DEFINE l == [loc[r] EXCEPT !.tries = NextTry(@)]
    <3>1. l.tries = loc[r].tries + 1
      BY Types DEF Locals, NextTry
    <3>2. Moves(r, "Get", l, hist[r])
      BY <2>3
    <3>. HIDE DEF l
    <3>3. CallsLeft("Get", l.tries) = 5 + MaxTries - l.tries
      BY Ranks DEF CallsLeft, LookUp
    <3>4. CallsLeft("Get", l.tries) < CallsLeft(pc[r], loc[r].tries)
      BY <1>0, <2>1, <3>1, <3>3
    <3>. QED  BY <3>2, <3>4, MovesNear
  <2>4. ASSUME NEW c \in Clusters \cup {Zero},
               Moves(r, First[loc[r].op],
                     [loc[r] EXCEPT !.cluster = c,
                        !.tries = IF c = Zero THEN NextTry(loc[r].tries) ELSE 0], hist[r])
        PROVE  \A q \in Active : Nears(q)
    <3>. DEFINE l == [loc[r] EXCEPT !.cluster = c,
                        !.tries = IF c = Zero THEN NextTry(loc[r].tries) ELSE 0]
    <3>1. l.tries \in Nat
      BY <1>0, Types DEF Locals, NextTry
    <3>2. First[loc[r].op] \in Calls \ LookUp
      <4>1. loc[r].op \in Ops
        BY Types
      <4>. QED  BY <4>1, FirstType DEF First, Ops, CheckOps, LookUp
    <3>3. Moves(r, First[loc[r].op], l, hist[r])
      BY <2>4
    <3>. HIDE DEF l
    <3>4. CallsLeft(First[loc[r].op], l.tries) = Rank[First[loc[r].op]]
      BY <3>1, <3>2, AfterLookUp
    <3>5. CallsLeft(First[loc[r].op], l.tries) \in 1..5
      BY <3>2, <3>4, RankRange
    <3>6. CallsLeft(First[loc[r].op], l.tries) < CallsLeft(pc[r], loc[r].tries)
      BY <1>0, <2>1, <3>5
    <3>. QED  BY <3>3, <3>6, MovesNear
  <2>. QED  BY <1>4, <2>2, <2>3, <2>4, GetMoves
<1>. QED  BY <1>1, <1>2, <1>3, <1>4

LEMMA AfterLookUpNear ==
  ASSUME TypeOK, LookupInv, NEW r \in Requests,
         \/ InsertCluster(r) \/ InsertCheck(r) \/ FindChecks(r) \/ Log(r) \/ Find(r)
         \/ NodeList(r) \/ ServiceList(r) \/ TaskList(r)
         \/ ServiceInspect(r) \/ ServiceLogs(r)
         \/ NodeInspect(r) \/ NodeUpdate(r) \/ Refresh(r)
         \/ ConfigCreate(r) \/ ConfigRemove(r) \/ Inspect(r) \/ Respond(r)
  PROVE  \A q \in Active : Nears(q)
<1>0. /\ {"failed", "refused", "answered"} \subseteq Answers
      /\ Calls \ LookUp = DockerCalls \cup {"InsertCluster", "InsertCheck", "FindChecks",
                                            "Find", "Log", "Respond"}
      /\ {"NodeList", "ServiceList", "TaskList", "ServiceInspect", "ServiceLogs", "NodeInspect",
          "NodeUpdate", "Refresh", "ConfigCreate", "ConfigRemove", "Inspect"} \subseteq DockerCalls
  BY DEF Answers, Calls, DockerCalls, LookUp
<1>1. CASE InsertCluster(r)
  BY <1>0, <1>1, Ranks, OutcomeNear, RefusesNear DEF InsertCluster
<1>2. CASE InsertCheck(r)
  BY <1>0, <1>2, Ranks, OutcomeNear, RefusesNear DEF InsertCheck
<1>3. CASE FindChecks(r)
  <2>. DEFINE l == [loc[r] EXCEPT !.checks = {row \in checks : loc[r].cluster \in {Zero, row.cluster}}]
  <2>1. CASE Reads(r, l, "Respond")
    <3>1. l.tries = loc[r].tries
      BY Types DEF Locals
    <3>. HIDE DEF l
    <3>. QED  BY <1>0, <1>3, <2>1, <3>1, Ranks, ReadsNear DEF FindChecks
  <2>2. CASE Goto(r, "Respond") /\ UNCHANGED <<db, swarm, loc, changes, hist>>
    <3>1. Stays(r, "Respond")
      BY <2>2, Types DEF Stays, Moves, Goto
    <3>. QED  BY <1>0, <1>3, <3>1, Ranks, StaysNear DEF FindChecks
  <2>. QED  BY <1>3, <2>1, <2>2 DEF FindChecks
<1>4. CASE Log(r)
  <2>1. Stays(r, "Respond") /\ pc[r] = "Log"
    BY <1>4, Types DEF Log, Stays, Moves, Goto
  <2>. QED  BY <1>0, <2>1, Ranks, StaysNear
<1>5. CASE Find(r)
  <2>1. pc[r] = "Find" /\ loc[r].op \in {"serviceList", "raw", "logs"}
    BY <1>5 DEF Find, LookupInv, LookupFits
  <2>2. AfterFind[loc[r].op] \in {"NodeList", "ServiceInspect", "ServiceLogs"}
    BY <2>1 DEF AfterFind
  <2>3. \/ \E c \in {"NodeList", "ServiceInspect", "ServiceLogs", "Respond"} : Reads(r, loc[r], c)
        \/ Refuses(r, "refused")
    BY <1>5, <2>2 DEF Find
  <2>. QED  BY <1>0, <2>1, <2>3, Ranks, ReadsNear, RefusesNear
<1>6. CASE NodeList(r)
  <2>. DEFINE l == [loc[r] EXCEPT !.ready = {n \in Nodes : nodes[n].up}]
              h == [hist[r] EXCEPT !.steady = Up, !.seen = Up]
              c == IF loc[r].op = "taskList" THEN "TaskList" ELSE "ServiceList"
  <2>1. l.tries = loc[r].tries
    BY Types DEF Locals
  <2>2. c \in {"TaskList", "ServiceList"}
    OBVIOUS
  <2>3. Moves(r, c, l, h) /\ pc[r] = "NodeList"
    BY <1>6, NodeListMoves DEF NodeList
  <2>. HIDE DEF l, h, c
  <2>. QED  BY <1>0, <2>1, <2>2, <2>3, Ranks, RankNears
<1>7. CASE ServiceList(r)
  <2>. DEFINE l == [loc[r] EXCEPT !.svc = service]
  <2>1. l.tries = loc[r].tries
    BY Types DEF Locals
  <2>2. Reads(r, l, "TaskList") /\ pc[r] = "ServiceList"
    BY <1>7 DEF ServiceList
  <2>. HIDE DEF l
  <2>. QED  BY <1>0, <2>1, <2>2, Ranks, ReadsNear
<1>8. CASE TaskList(r)
  <2>. DEFINE l == [loc[r] EXCEPT !.status = Status(loc[r].ready, loc[r].svc)]
  <2>1. l.tries = loc[r].tries
    BY Types DEF Locals
  <2>2. /\ Reads(r, l, "Respond") \/ Reads(r, loc[r], "Respond") \/ Refuses(r, "refused")
        /\ pc[r] = "TaskList"
    BY <1>8 DEF TaskList
  <2>. HIDE DEF l
  <2>. QED  BY <1>0, <2>1, <2>2, Ranks, ReadsNear, RefusesNear
<1>9. CASE ServiceInspect(r) \/ ServiceLogs(r) \/ Inspect(r)
  <2>1. /\ Reads(r, loc[r], "Respond") \/ Refuses(r, "refused") \/ Refuses(r, "failed")
        /\ pc[r] \in {"ServiceInspect", "ServiceLogs", "Inspect"}
    BY <1>9 DEF ServiceInspect, ServiceLogs, Inspect
  <2>. QED  BY <1>0, <2>1, Ranks, ReadsNear, RefusesNear
<1>10. CASE NodeInspect(r) \/ Refresh(r)
  <2>. DEFINE l == [loc[r] EXCEPT !.inspected = nodes[loc[r].node]]
  <2>1. l.tries = loc[r].tries
    BY Types DEF Locals
  <2>2. \/ Reads(r, l, "NodeUpdate") /\ pc[r] = "NodeInspect"
        \/ Reads(r, l, "Respond") /\ pc[r] = "Refresh"
    BY <1>10 DEF NodeInspect, Refresh
  <2>. HIDE DEF l
  <2>. QED  BY <1>0, <2>1, <2>2, Ranks, ReadsNear
<1>11. CASE NodeUpdate(r)
  <2>. DEFINE n == loc[r].node
              h == [hist[r] EXCEPT !.made = nodes[n].version + 1, !.over = nodes[n].spec,
                                   !.based = loc[r].inspected.spec]
  <2>1. Refuses(r, "failed") \/ Ends(r) \/ Moves(r, "Refresh", loc[r], h)
    BY <1>11, NodeUpdateMoves
  <2>2. pc[r] = "NodeUpdate"
    BY <1>11 DEF NodeUpdate
  <2>. HIDE DEF h
  <2>. QED  BY <1>0, <2>1, <2>2, Ranks, RefusesNear, EndsNear, RankNears
<1>12. CASE ConfigCreate(r) \/ ConfigRemove(r)
  <2>1. /\ Outcome(r, "Respond") \/ Refuses(r, "failed")
        /\ pc[r] \in {"ConfigCreate", "ConfigRemove"}
    BY <1>12 DEF ConfigCreate, ConfigRemove
  <2>. QED  BY <1>0, <2>1, Ranks, OutcomeNear, RefusesNear
<1>13. CASE Respond(r)
  BY <1>0, <1>13, RefusesNear DEF Respond
<1>. QED  BY <1>1, <1>2, <1>3, <1>4, <1>5, <1>6, <1>7, <1>8, <1>9, <1>10, <1>11, <1>12, <1>13

LEMMA NextNear == TypeOK /\ LookupInv /\ [Next]_vars => \A q \in Active : Nears(q)
<1>. SUFFICES ASSUME TypeOK, LookupInv, [Next]_vars PROVE \A q \in Active : Nears(q)
  OBVIOUS
<1>1. CASE pc' = pc /\ loc' = loc
  BY <1>1 DEF Nears
<1>2. CASE UNCHANGED vars
  BY <1>1, <1>2 DEF vars
<1>3. CASE OthersNext
  BY <1>1, <1>3, OthersSwarmType, OthersLeave
<1>4. CASE Crash
  <2>1. \A q \in Active : pc'[q] = "lost"
    BY <1>4 DEF Crash, Active
  <2>. QED  BY <2>1 DEF Nears, Answers
<1>5. CASE RequestNext
  BY <1>5, LookupNear, AfterLookUpNear, Zenon DEF RequestNext
<1>. QED  BY <1>2, <1>3, <1>4, <1>5, NextCases

(* What a request has left is a number of calls, and it is limited: Prepare,*)
(* the tries, and five more.                                                *)
CallsBounded ==
    \A r \in Active : CallsLeft(pc[r], loc[r].tries) \in 1..(MaxTries + 6)

(* No call leaves a request where it was, so every request makes a bounded  *)
(* number of calls, whatever they return (clusters.go:154-169).             *)
THEOREM RequestsEnd == Spec => EachCallCounts /\ []CallsBounded
<1>1. TypeOK /\ LookupInv => CallsBounded
  <2>. SUFFICES ASSUME TypeOK, LookupInv, NEW r \in Active
                PROVE  CallsLeft(pc[r], loc[r].tries) \in 1..(MaxTries + 6)
    BY DEF CallsBounded
  <2>1. r \in Requests /\ pc[r] \in Calls
    BY DEF Active
  <2>2. /\ loc[r].tries \in 0..MaxTries /\ MaxTries \in Nat
        /\ pc[r] \in LookUp => loc[r].tries < MaxTries
    BY <2>1, Types DEF LookupInv, LookupFits
  <2>3. Rank[pc[r]] \in 1..6
    BY <2>1, RankRange
  <2>. QED  BY <2>2, <2>3 DEF CallsLeft
<1>2. TypeOK /\ LookupInv /\ [Next]_vars
        => [\A r \in Active :
              \/ pc'[r] = pc[r] /\ loc'[r] = loc[r]
              \/ pc'[r] \in Answers
              \/ CallsLeft(pc'[r], loc'[r].tries) < CallsLeft(pc[r], loc[r].tries)]_vars
  BY NextNear, Zenon DEF Nears
<1>. QED  BY <1>1, <1>2, LookupAlways, PTL DEF Spec, EachCallCounts
=============================================================================
