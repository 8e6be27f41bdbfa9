------------------------- MODULE ServiceOrderProofs -------------------------
(***************************************************************************)
(* Proof, for every number of requests, names, faults and overlaps, that a  *)
(* redeploy never deploys a specification older than the one its endpoint   *)
(* read.  A request matches a row by id or by name, and the row may change  *)
(* between its two reads; that names are unique makes the second read no    *)
(* older than the first.  And, of requests that are served one at a time,   *)
(* that they leave no service without a row and that a redeploy runs what   *)
(* the row holds.                                                           *)
(***************************************************************************)
EXTENDS ServiceManagerProofs, FiniteSetTheorems

(* The part of its locals by which a request sees a row.                    *)
SameView(l, m) == l.seen = m.seen /\ l.key = m.key /\ l.svc = m.svc

LEMMA SameViewSees ==
  ASSUME NEW l, NEW m, SameView(l, m), Sees(m) PROVE Sees(l)
  BY DEF SameView, Sees

(* Locals that have seen nothing are newer than nothing.                    *)
LEMMA ZeroSees ==
  ASSUME TypeOK, NEW l \in Locals, l.seen = 0 PROVE Sees(l)
<1>1. \A i \in Ids : rows[i] # NoRow => 0 <= rows[i].spec
  BY DEF TypeOK, Row
<1>2. l.svc # NoRow => 0 <= l.svc.spec
  BY DEF Locals, Snapshot
<1>. QED  BY <1>1, <1>2 DEF Sees, TypeOK

LEMMA BlankSees == TypeOK => Sees(Blank)
  BY ZeroSees, BlankLocals DEF Blank

LEMMA InitNewest == Init => NewestSeen
<1>. SUFFICES ASSUME Init PROVE NewestSeen
  OBVIOUS
<1>1. NamesUnique
  BY DEF Init, NamesUnique, Ids
<1>2. \A r \in Requests : Sees(loc[r]) /\ loc[r].seen = 0
  <2>1. TypeOK  BY InitInductive DEF Inductive
  <2>2. Sees(Blank)  BY <2>1, BlankSees
  <2>. QED  BY <2>2 DEF Init, Blank
<1>. QED  BY <1>1, <1>2 DEF NewestSeen

(* Three things a step may do to the table: nothing, write a row under a    *)
(* name no other row has, or delete a row.  What a request holds stays as   *)
(* new as it was.                                                           *)
RowsStep ==
    \/ UNCHANGED <<rows, saves>>
    \/ \E i \in Ids, n \in Names, here \in BOOLEAN : Write(i, n, here) /\ ~NameTaken(n, i)
    \/ \E i \in Ids : rows' = [rows EXCEPT ![i] = NoRow] /\ saves' = saves

LEMMA RowsStepKeeps ==
  ASSUME TypeOK, NamesUnique, RowsStep
  PROVE  /\ NamesUnique'
         /\ \A l \in Locals : Sees(l) => Sees(l)'
<1>1. CASE UNCHANGED <<rows, saves>>
  BY <1>1 DEF NamesUnique, Sees
<1>2. ASSUME NEW i \in Ids, NEW n \in Names, NEW here \in BOOLEAN,
             Write(i, n, here), ~NameTaken(n, i)
      PROVE  NamesUnique' /\ \A l \in Locals : Sees(l) => Sees(l)'
  <2>1. /\ saves \in Nat /\ saves' = saves + 1
        /\ rows'[i].name = n /\ rows'[i].spec = saves + 1
        /\ \A j \in Ids \ {i} : rows'[j] = rows[j]
        /\ \A j \in Ids \ {i} : rows[j] # NoRow => rows[j].name # n
        /\ \A j \in Ids : rows[j] # NoRow => rows[j].spec \in Nat
    BY <1>2 DEF Write, NameTaken, TypeOK, Row
  <2>2. NamesUnique'
    BY <2>1 DEF NamesUnique
  <2>3. ASSUME NEW l \in Locals, Sees(l) PROVE Sees(l)'
    <3>1. l.seen \in Nat  BY DEF Locals
    <3>. QED  BY <2>1, <2>3, <3>1 DEF Sees
  <2>. QED  BY <2>2, <2>3
<1>3. ASSUME NEW i \in Ids, rows' = [rows EXCEPT ![i] = NoRow], saves' = saves
      PROVE  NamesUnique' /\ \A l \in Locals : Sees(l) => Sees(l)'
  <2>1. \A j \in Ids : rows'[j] # NoRow => rows'[j] = rows[j] /\ rows[j] # NoRow
    BY <1>3 DEF TypeOK
  <2>2. NamesUnique'
    BY <1>3, <2>1 DEF NamesUnique
  <2>3. \A l \in Locals : Sees(l) => Sees(l)'
    BY <1>3, <2>1 DEF Sees
  <2>. QED  BY <2>2, <2>3
<1>. QED  BY <1>1, <1>2, <1>3 DEF RowsStep

(* What is left to show of a step: that no request starts over, and that    *)
(* what it then holds was, or is now, seen.                                 *)
LEMMA LocalsKeep ==
  ASSUME Inductive, NewestSeen, RowsStep, NEW p \in Requests,
         \A q \in Requests \ {p} :
            loc'[q] = loc[q] /\ pc'[q] = pc[q],
         pc'[p] # "idle", Sees(loc[p])'
  PROVE  NewestSeen'
<1>1. NamesUnique' /\ \A l \in Locals : Sees(l) => Sees(l)'
  BY RowsStepKeeps DEF Inductive, NewestSeen
<1>2. ASSUME NEW q \in Requests \ {p}
      PROVE  Sees(loc[q])' /\ (pc'[q] = "idle" => loc'[q].seen = 0)
  <2>1. loc[q] \in Locals /\ Sees(loc[q])
    BY DEF Inductive, TypeOK, NewestSeen
  <2>2. loc'[q] = loc[q] /\ pc'[q] = pc[q]
    BY <1>2
  <2>3. Sees(loc[q])'
    BY <1>1, <2>1, <2>2 DEF Sees
  <2>. QED  BY <2>2, <2>3 DEF NewestSeen
<1>3. \A q \in Requests : Sees(loc[q])' /\ (pc'[q] = "idle" => loc'[q].seen = 0)
  BY <1>2
<1>. QED  BY <1>1, <1>3 DEF NewestSeen

(* Most steps of a request leave what it sees alone, or end it.             *)
LEMMA QuietStep ==
  ASSUME Inductive, NewestSeen, RowsStep, NEW p \in Requests,
         \A q \in Requests \ {p} : loc'[q] = loc[q] /\ pc'[q] = pc[q],
         pc'[p] # "idle", loc'[p] = Blank \/ SameView(loc'[p], loc[p]), TypeOK'
  PROVE  NewestSeen'
<1>1. CASE loc'[p] = Blank
  <2>1. Blank' = Blank  BY DEF Blank
  <2>2. Sees(loc[p])'
    BY <1>1, <2>1, BlankSees, ZeroSees, BlankLocals DEF Sees, Blank, TypeOK, Row
  <2>. QED  BY <2>2, LocalsKeep
<1>2. CASE SameView(loc'[p], loc[p])
  <2>1. loc[p] \in Locals /\ Sees(loc[p])
    BY DEF Inductive, TypeOK, NewestSeen
  <2>2. \A l \in Locals : Sees(l) => Sees(l)'
    BY RowsStepKeeps DEF Inductive, NewestSeen
  <2>3. Sees(loc[p])'
    BY <1>2, <2>1, <2>2 DEF Sees, SameView
  <2>. QED  BY <2>3, LocalsKeep
<1>. QED  BY <1>1, <1>2

(* What each of these steps does to the locals and to the table.            *)
LEMMA QuietFootprint ==
  ASSUME Inductive, NEW r \in Requests,
         \/ ServiceList(r) \/ TaskList(r) \/ Lists(r) \/ Inspect(r) \/ ServiceCreate(r)
         \/ ServiceUpdate(r) \/ ServiceRemove(r) \/ Log(r)
  PROVE  /\ UNCHANGED <<rows, saves>>
         /\ \A q \in Requests \ {r} : loc'[q] = loc[q] /\ pc'[q] = pc[q]
         /\ pc'[r] # "idle" /\ (loc'[r] = Blank \/ SameView(loc'[r], loc[r]))
<1>0. /\ loc \in [Requests -> Locals] /\ pc \in [Requests -> {"idle"} \cup Calls \cup Answers]
      /\ loc[r] \in Locals
  BY DEF Inductive, TypeOK
<1>1. CASE ServiceList(r)
  BY <1>0, <1>1 DEF ServiceList, Fails, Answer, Goto, SameView, dbVars, Locals
<1>2. CASE TaskList(r)
  BY <1>0, <1>2 DEF TaskList, Fails, Answer, Goto, SameView, dbVars, Locals, NextCall
<1>3. CASE Lists(r)
  <2>1. PICK networks, refs \in BOOLEAN :
          loc' = [loc EXCEPT ![r].networks = networks, ![r].refs = refs, ![r].again = TRUE]
    BY <1>3 DEF Lists
  <2>2. SameView(loc'[r], loc[r]) /\ \A q \in Requests \ {r} : loc'[q] = loc[q]
    BY <1>0, <2>1 DEF SameView, Locals
  <2>. QED  BY <1>0, <1>3, <2>2 DEF Lists, Goto, dbVars
<1>4. CASE Inspect(r)
  BY <1>0, <1>4 DEF Inspect, Fails, Answer, Goto, SameView, dbVars, Locals
<1>5. CASE ServiceCreate(r)
  BY <1>0, <1>5 DEF ServiceCreate, Outcome, Fails, Answer, Goto, SameView, dbVars
<1>6. CASE ServiceUpdate(r)
  BY <1>0, <1>6 DEF ServiceUpdate, Outcome, Fails, Answer, Goto, SameView, dbVars
<1>7. CASE ServiceRemove(r)
  BY <1>0, <1>7 DEF ServiceRemove, AfterRemove, Fails, Answer, Goto, SameView, dbVars
<1>8. CASE Log(r)
  BY <1>0, <1>8 DEF Log, Answer, Goto, SameView, dbVars
<1>. QED  BY <1>1, <1>2, <1>3, <1>4, <1>5, <1>6, <1>7, <1>8

LEMMA WritingFootprint ==
  ASSUME Inductive, NEW r \in Requests, Update(r) \/ Delete(r)
  PROVE  /\ RowsStep
         /\ \A q \in Requests \ {r} : loc'[q] = loc[q] /\ pc'[q] = pc[q]
         /\ pc'[r] # "idle" /\ (loc'[r] = Blank \/ SameView(loc'[r], loc[r]))
<1>0. /\ loc \in [Requests -> Locals] /\ pc \in [Requests -> {"idle"} \cup Calls \cup Answers]
      /\ loc[r] \in Locals /\ loc[r].svc # NoRow
  BY DEF Inductive, TypeOK, SavedRows, HoldsRow, Update, Delete
<1>1. /\ \A q \in Requests \ {r} : loc'[q] = loc[q] /\ pc'[q] = pc[q]
      /\ pc'[r] # "idle" /\ (loc'[r] = Blank \/ SameView(loc'[r], loc[r]))
  BY <1>0 DEF Update, Delete, Outcome, Fails, Answer, Goto, SameView
<1>2. CASE Update(r)
  <2>1. loc[r].svc.id \in Ids /\ loc[r].svc.name \in Names
    BY <1>0 DEF Locals, Snapshot
  <2>2. \A body \in Bodies(loc[r].svc.name) : body[1] \in Names /\ body[2] \in BOOLEAN
    BY <2>1, BodyType
  <2>3. RowsStep
    BY <1>2, <2>1, <2>2 DEF Update, RowsStep, Fails, dbVars
  <2>. QED  BY <1>1, <2>3
<1>3. CASE Delete(r)
  <2>1. loc[r].svc.id \in Ids
    BY <1>0 DEF Locals, Snapshot
  <2>. QED  BY <1>1, <1>3, <2>1 DEF Delete, RowsStep, Fails, dbVars
<1>. QED  BY <1>2, <1>3

LEMMA StartNewest ==
  ASSUME Inductive, NewestSeen, NEW r \in Requests, Start(r), TypeOK' PROVE NewestSeen'
<1>1. PICK op \in Ops, key \in Ids \cup Names :
        /\ loc' = [loc EXCEPT ![r].op = op, ![r].key = key]
        /\ Goto(r, IF op = "create" THEN "Insert" ELSE "FindOne")
  BY DEF Start
<1>2. /\ \A q \in Requests \ {r} : loc'[q] = loc[q] /\ pc'[q] = pc[q]
      /\ pc'[r] # "idle" /\ loc'[r].seen = loc[r].seen
  BY <1>1 DEF Goto, Inductive, TypeOK, Locals
<1>3. loc'[r].seen = 0
  BY <1>2 DEF Start, NewestSeen
<1>4. Sees(loc[r])'
  BY <1>3 DEF Sees, TypeOK, Row, Locals, Snapshot
<1>5. RowsStep
  BY DEF Start, RowsStep, dbVars
<1>. QED  BY <1>2, <1>4, <1>5, LocalsKeep

(* The row FindOne takes is the only one that matches the key, so a second  *)
(* read of it is as new as Sees says of every matching row.                 *)
LEMMA FindOneNewest ==
  ASSUME Inductive, NewestSeen, NEW r \in Requests, FindOne(r), TypeOK' PROVE NewestSeen'
<1>0. /\ loc \in [Requests -> Locals] /\ pc \in [Requests -> {"idle"} \cup Calls \cup Answers]
      /\ loc[r] \in Locals /\ RowsStep /\ UNCHANGED <<rows, saves>>
  BY DEF Inductive, TypeOK, FindOne, RowsStep, dbVars
<1>1. ASSUME NEW i \in Matches(loc[r].key),
             loc' = [loc EXCEPT
                   ![r].svc = [id |-> i, name |-> rows[i].name, spec |-> rows[i].spec],
                   ![r].seen = IF loc[r].again THEN @ ELSE rows[i].spec],
             Goto(r, "ServiceList")
      PROVE  NewestSeen'
  <2>1. /\ \A q \in Requests \ {r} : loc'[q] = loc[q] /\ pc'[q] = pc[q]
        /\ pc'[r] # "idle" /\ loc'[r].key = loc[r].key
        /\ loc'[r].svc.spec = rows[i].spec
        /\ loc'[r].seen = IF loc[r].again THEN loc[r].seen ELSE rows[i].spec
    BY <1>0, <1>1 DEF Goto, Locals
  <2>2. /\ i \in Ids /\ rows[i] # NoRow /\ (i = loc[r].key \/ rows[i].name = loc[r].key)
        /\ rows[i].spec \in Nat
    BY DEF Matches, Inductive, TypeOK, Row
  <2>3. \A j \in Ids : rows[j] # NoRow /\ (j = loc[r].key \/ rows[j].name = loc[r].key)
                       => j = i
    <3>1. \A j \in Ids : rows[j] # NoRow => rows[j].name \notin Ids
      BY IdsAssumption DEF Inductive, TypeOK, Row
    <3>. QED  BY <2>2, <3>1 DEF NewestSeen, NamesUnique
  <2>4. loc'[r].seen <= rows[i].spec /\ rows[i].spec <= saves
    <3>1. loc[r].seen <= rows[i].spec
      BY <2>2 DEF NewestSeen, Sees
    <3>2. rows[i].spec <= saves
      BY <2>2 DEF NewestSeen, NamesUnique
    <3>. QED  BY <2>1, <2>2, <3>1, <3>2
  <2>5. loc'[r].seen \in Nat /\ saves \in Nat
    BY <1>0, <2>1, <2>2 DEF Locals, Inductive, TypeOK
  <2>6. Sees(loc[r])'
    BY <1>0, <2>1, <2>2, <2>3, <2>4, <2>5 DEF Sees
  <2>. QED  BY <1>0, <2>1, <2>6, LocalsKeep
<1>2. ASSUME NEW a \in Answers, Answer(r, a) PROVE NewestSeen'
  <2>1. /\ \A q \in Requests \ {r} : loc'[q] = loc[q] /\ pc'[q] = pc[q]
        /\ pc'[r] # "idle" /\ loc'[r] = Blank
    BY <1>0, <1>2 DEF Answer, Goto, Answers
  <2>. QED  BY <1>0, <2>1, QuietStep
<1>. QED  BY <1>1, <1>2 DEF FindOne, Answers

LEMMA InsertNewest ==
  ASSUME Inductive, NewestSeen, NEW r \in Requests, Insert(r), TypeOK' PROVE NewestSeen'
<1>0. /\ loc \in [Requests -> Locals] /\ pc \in [Requests -> {"idle"} \cup Calls \cup Answers]
      /\ loc[r] \in Locals /\ r \in Ids /\ saves \in Nat
  BY DEF Inductive, TypeOK, Ids
<1>1. RowsStep
  BY <1>0, BodyType DEF Insert, RowsStep, Fails, dbVars
<1>2. \A q \in Requests \ {r} : loc'[q] = loc[q] /\ pc'[q] = pc[q]
  BY <1>0 DEF Insert, Fails, Answer, Goto
<1>3. pc'[r] # "idle"
  BY <1>0 DEF Insert, Fails, Answer, Goto
<1>4. CASE loc'[r] = Blank
  BY <1>1, <1>2, <1>3, <1>4, QuietStep
<1>5. ASSUME NEW n \in Names, Write(r, n, TRUE) \/ Write(r, n, FALSE),
             loc' = [loc EXCEPT ![r].svc = [id |-> r, name |-> n, spec |-> saves + 1]]
      PROVE  NewestSeen'
  <2>1. /\ loc'[r].key = loc[r].key /\ loc'[r].seen = loc[r].seen
        /\ loc'[r].svc.spec = saves + 1
    BY <1>0, <1>5 DEF Locals
  <2>2. loc[r].seen \in Nat /\ loc[r].seen <= saves /\ saves' = saves + 1
    BY <1>0, <1>5 DEF Locals, NewestSeen, Sees, Write
  <2>3. Sees(loc[r]) /\ \A l \in Locals : Sees(l) => Sees(l)'
    BY <1>1, RowsStepKeeps DEF Inductive, NewestSeen
  <2>4. Sees(loc[r])'
    BY <1>0, <2>1, <2>2, <2>3 DEF Sees
  <2>. QED  BY <1>1, <1>2, <1>3, <2>4, LocalsKeep
<1>6. CASE loc'[r] # Blank
  <2>1. PICK n \in Names : \E body \in Bodies(n) :
          /\ Write(r, body[1], body[2])
          /\ loc' = [loc EXCEPT ![r].svc = [id |-> r, name |-> body[1], spec |-> saves + 1]]
    BY <1>0, <1>6 DEF Insert, Fails, Answer
  <2>. QED  BY <1>5, <2>1, BodyType
<1>. QED  BY <1>4, <1>6

LEMMA CrashNewest ==
  ASSUME Inductive, NewestSeen, Crash, TypeOK' PROVE NewestSeen'
<1>1. NamesUnique'
  BY DEF Crash, NewestSeen, NamesUnique, dbVars
<1>2. ASSUME NEW q \in Requests
      PROVE  Sees(loc[q])' /\ (pc'[q] = "idle" => loc'[q].seen = 0)
  <2>1. \/ loc'[q] = loc[q] /\ pc'[q] = pc[q]
        \/ loc'[q] = Blank /\ pc'[q] = "lost"
    BY DEF Crash
  <2>2. Sees(loc[q]) /\ Sees(Blank)
    BY BlankSees DEF Inductive, NewestSeen
  <2>. QED  BY <2>1, <2>2 DEF Crash, Sees, dbVars, NewestSeen
<1>. QED  BY <1>1, <1>2 DEF NewestSeen

(* Every step keeps what the requests saw no newer than what they may read. *)
LEMMA NextNewest == Inductive /\ NewestSeen /\ [Next]_vars => NewestSeen'
<1>. SUFFICES ASSUME Inductive, NewestSeen, [Next]_vars PROVE NewestSeen'
  OBVIOUS
<1>1. TypeOK'
  BY NextInductive DEF Inductive
<1>2. CASE UNCHANGED <<rows, saves, pc, loc>>
  BY <1>2 DEF NewestSeen, NamesUnique, Sees
<1>3. ASSUME NEW r \in Requests,
             \/ ServiceList(r) \/ TaskList(r) \/ Lists(r) \/ Inspect(r) \/ ServiceCreate(r)
             \/ ServiceUpdate(r) \/ ServiceRemove(r) \/ Log(r)
      PROVE  NewestSeen'
  BY <1>1, <1>3, QuietFootprint, QuietStep DEF RowsStep
<1>4. ASSUME NEW r \in Requests, Update(r) \/ Delete(r) PROVE NewestSeen'
  BY <1>1, <1>4, WritingFootprint, QuietStep
<1>5. ASSUME NEW n \in Names, TasksChange(n) PROVE NewestSeen'
  BY <1>2, <1>5 DEF TasksChange, dbVars
<1>6. CASE UNCHANGED vars
  BY <1>2, <1>6 DEF vars, dbVars
<1>. QED  BY <1>1, <1>3, <1>4, <1>5, <1>6, StartNewest, FindOneNewest, InsertNewest,
             CrashNewest DEF Next

(* The two calls that deploy take the specification of the row they hold.   *)
LEMMA StepNotOlder ==
  ASSUME Inductive, NewestSeen, [Next]_vars, NEW r \in Requests,
         pc[r] \in {"ServiceCreate", "ServiceUpdate"}, pc'[r] # pc[r], swarm' # swarm
  PROVE  swarm'[loc[r].svc.name].spec >= loc[r].seen
<1>0. /\ loc[r] \in Locals /\ loc[r].svc # NoRow /\ loc[r].svc.name \in Names
      /\ swarm \in [Names -> Service \cup {NoSvc}]
      /\ loc[r].seen <= loc[r].svc.spec /\ loc[r].seen \in Nat /\ loc[r].svc.spec \in Nat
  BY DEF Inductive, TypeOK, SavedRows, HoldsRow, Locals, Snapshot, NewestSeen, Sees
<1>1. ASSUME NEW service, Deploy(r, service), service.spec = loc[r].svc.spec
      PROVE  swarm'[loc[r].svc.name].spec >= loc[r].seen
  BY <1>0, <1>1 DEF Deploy
<1>2. CASE ServiceCreate(r)
  BY <1>1, <1>2 DEF ServiceCreate, Deployed, Fails, swarmVars
<1>3. CASE ServiceUpdate(r)
  BY <1>1, <1>3 DEF ServiceUpdate, Deployed, Fails, swarmVars
<1>4. ServiceCreate(r) \/ ServiceUpdate(r)
  <2>1. UNCHANGED vars => UNCHANGED swarm
    BY DEF vars, swarmVars
  <2>2. Crash => UNCHANGED swarm
    BY DEF Crash, swarmVars
  <2>3. \A n \in Names : TasksChange(n) => UNCHANGED swarm
    BY DEF TasksChange
  <2>4. ASSUME NEW q \in Requests, q # r
        PROVE  /\ ServiceCreate(q) => UNCHANGED swarm \/ pc'[r] = pc[r]
               /\ ServiceUpdate(q) => UNCHANGED swarm \/ pc'[r] = pc[r]
               /\ ServiceRemove(q) => pc'[r] = pc[r]
    <3>1. pc \in [Requests -> {"idle"} \cup Calls \cup Answers]
      BY DEF Inductive, TypeOK
    <3>. QED  BY <2>4, <3>1, QuietFootprint
  <2>5. ASSUME NEW q \in Requests,
               \/ Start(q) \/ FindOne(q) \/ ServiceList(q) \/ TaskList(q) \/ Insert(q)
               \/ Update(q) \/ Lists(q) \/ Inspect(q) \/ Delete(q) \/ Log(q)
        PROVE  UNCHANGED swarm
    BY <2>5 DEF Start, FindOne, ServiceList, TaskList, Insert, Update, Lists, Inspect,
                Delete, Log, Fails, swarmVars
  <2>6. ~ServiceRemove(r)
    BY DEF ServiceRemove
  <2>. QED  BY <2>1, <2>2, <2>3, <2>4, <2>5, <2>6 DEF Next
<1>. QED  BY <1>2, <1>3, <1>4

(* A redeploy never deploys a specification older than the one its endpoint *)
(* read when the request came in.                                           *)
THEOREM RedeployNotOlder == Spec => DeploysNotOlder
<1>1. Inductive /\ NewestSeen /\ [Next]_vars =>
        [\A r \in Requests :
          pc[r] \in {"ServiceCreate", "ServiceUpdate"} /\ pc'[r] # pc[r] /\ swarm' # swarm
              => swarm'[loc[r].svc.name].spec >= loc[r].seen]_vars
  BY StepNotOlder
<1>. QED  BY <1>1, InitInductive, NextInductive, InitNewest, NextNewest, PTL
          DEF Spec, DeploysNotOlder

-----------------------------------------------------------------------------
(* Requests served one at a time, without renames *)

(* What a request holds while it is alone: the row it read is still as it   *)
(* read it; a delete that comes to the row has no service any more, and a   *)
(* redeploy that comes to its audit runs the row.                           *)
Holds(r) ==
    LET s == loc[r].svc IN
    /\ pc[r] \in HoldsRow \/ (pc[r] = "Log" /\ loc[r].op = "redeploy") =>
          /\ rows[s.id] # NoRow /\ rows[s.id].name = s.name /\ rows[s.id].spec = s.spec
    /\ pc[r] = "Delete" => swarm[s.name] = NoSvc
    /\ pc[r] = "Log" /\ loc[r].op = "redeploy" =>
          /\ swarm[s.name] # NoSvc /\ swarm[s.name].spec = s.spec
          /\ swarm[s.name].networks = loc[r].networks /\ loc[r].refs
    /\ pc[r] \in {"Insert", "Update", "ServiceRemove", "Delete"} => loc[r].op # "redeploy"

OneAtATime ==
    /\ \A q, r \in Active : q = r
    /\ NoOrphans
    /\ \A r \in Requests : Holds(r)

(* A step of a request that is alone. *)
LEMMA AloneStep ==
  ASSUME Inductive, OneAtATime, NEW r \in Requests, r \in Active \/ Active = {},
         \A q \in Requests \ {r} : loc'[q] = loc[q] /\ pc'[q] = pc[q],
         NoOrphans', Holds(r)'
  PROVE  OneAtATime'
<1>1. \A q \in Requests \ {r} : pc[q] \notin Calls
  BY DEF OneAtATime, Active
<1>2. Active' \subseteq {r}
  BY <1>1 DEF Active
<1>3. ASSUME NEW q \in Requests \ {r} PROVE Holds(q)'
  <2>1. pc'[q] \notin Calls
    BY <1>1
  <2>. QED  BY <2>1 DEF Holds, HoldsRow, Calls
<1>4. \A q \in Requests : Holds(q)'
  BY <1>3
<1>. QED  BY <1>2, <1>4 DEF OneAtATime

(* A step of it that changes neither the table nor the swarm. *)
LEMMA AloneQuiet ==
  ASSUME Inductive, OneAtATime, NEW r \in Requests, r \in Active \/ Active = {},
         \A q \in Requests \ {r} : loc'[q] = loc[q] /\ pc'[q] = pc[q],
         UNCHANGED <<rows, swarm>>, Holds(r)'
  PROVE  OneAtATime'
<1>1. NoOrphans'
  BY DEF OneAtATime, NoOrphans
<1>. QED  BY <1>1, AloneStep

LEMMA AloneAnswers ==
  ASSUME Inductive, OneAtATime, NEW r \in Requests, r \in Active \/ Active = {},
         NEW a \in Answers, Answer(r, a), UNCHANGED <<rows, swarm>>
  PROVE  OneAtATime'
<1>1. /\ \A q \in Requests \ {r} : loc'[q] = loc[q] /\ pc'[q] = pc[q]
      /\ pc'[r] = a
  BY DEF Answer, Goto, Inductive, TypeOK
<1>2. Holds(r)'
  BY <1>1 DEF Holds, HoldsRow, Answers
<1>. QED  BY <1>1, <1>2, AloneQuiet

LEMMA AloneFails ==
  ASSUME Inductive, OneAtATime, NEW r \in Requests, r \in Active, Fails(r)
  PROVE  OneAtATime'
  BY AloneAnswers DEF Fails, dbVars, swarmVars, Answers

(* The locals of a request that is served. *)
LEMMA Serving ==
  ASSUME Inductive, NEW r \in Requests
  PROVE  /\ loc \in [Requests -> Locals] /\ pc \in [Requests -> {"idle"} \cup Calls \cup Answers]
         /\ rows \in [Ids -> Row \cup {NoRow}] /\ swarm \in [Names -> Service \cup {NoSvc}]
         /\ loc[r] \in Locals
         /\ pc[r] \in HoldsRow \cup {"Log"} =>
               loc[r].svc # NoRow /\ loc[r].svc.id \in Ids /\ loc[r].svc.name \in Names
  BY DEF Inductive, TypeOK, SavedRows, Locals, Snapshot

LEMMA StartAlone ==
  ASSUME MaxInFlight = 1, Inductive, OneAtATime, NEW r \in Requests, Start(r)
  PROVE  OneAtATime'
<1>1. Active = {}
  <2>1. ASSUME NEW q \in Active PROVE FALSE
    <3>1. Active = {q}
      BY <2>1 DEF OneAtATime
    <3>2. Cardinality(Active) = 1
      BY <3>1, FS_Singleton
    <3>. QED  BY <3>2 DEF Start
  <2>. QED  BY <2>1
<1>2. PICK op \in Ops, key \in Ids \cup Names :
        /\ loc' = [loc EXCEPT ![r].op = op, ![r].key = key]
        /\ Goto(r, IF op = "create" THEN "Insert" ELSE "FindOne")
  BY DEF Start
<1>3. /\ \A q \in Requests \ {r} : loc'[q] = loc[q] /\ pc'[q] = pc[q]
      /\ loc'[r].op = op /\ pc'[r] = IF op = "create" THEN "Insert" ELSE "FindOne"
  BY <1>2, Serving DEF Goto, Locals
<1>4. Holds(r)'
  BY <1>3 DEF Holds, HoldsRow
<1>. QED  BY <1>1, <1>3, <1>4, AloneQuiet DEF Start, dbVars, swarmVars

LEMMA FindOneAlone ==
  ASSUME Inductive, OneAtATime, NEW r \in Requests, FindOne(r) PROVE OneAtATime'
<1>0. r \in Active /\ UNCHANGED <<rows, swarm>>
  BY DEF FindOne, Active, Calls, dbVars, swarmVars
<1>1. ASSUME NEW i \in Matches(loc[r].key),
             loc' = [loc EXCEPT
                   ![r].svc = [id |-> i, name |-> rows[i].name, spec |-> rows[i].spec],
                   ![r].seen = IF loc[r].again THEN @ ELSE rows[i].spec],
             Goto(r, "ServiceList")
      PROVE  OneAtATime'
  <2>1. /\ \A q \in Requests \ {r} : loc'[q] = loc[q] /\ pc'[q] = pc[q]
        /\ pc'[r] = "ServiceList"
        /\ loc'[r].svc = [id |-> i, name |-> rows[i].name, spec |-> rows[i].spec]
    BY <1>1, Serving DEF Goto, Locals
  <2>2. i \in Ids /\ rows[i] # NoRow
    BY DEF Matches
  <2>3. Holds(r)'
    BY <1>0, <2>1, <2>2 DEF Holds
  <2>. QED  BY <1>0, <2>1, <2>3, AloneQuiet
<1>2. ASSUME NEW a \in Answers, Answer(r, a) PROVE OneAtATime'
  BY <1>0, <1>2, AloneAnswers
<1>. QED  BY <1>1, <1>2 DEF FindOne, Answers

(* The calls between the reading of the row and what is done with it keep   *)
(* the row they hold.                                                       *)
LEMMA HeldAlone ==
  ASSUME Inductive, OneAtATime, NEW r \in Requests,
         ServiceList(r) \/ TaskList(r) \/ Lists(r) \/ Inspect(r)
  PROVE  OneAtATime'
<1>0. /\ r \in Active /\ UNCHANGED <<rows, swarm>> /\ Holds(r)
      /\ \A q \in Requests \ {r} : loc'[q] = loc[q] /\ pc'[q] = pc[q]
  <2>1. UNCHANGED <<rows, swarm>>
    BY DEF ServiceList, TaskList, Lists, Inspect, Fails, dbVars, swarmVars
  <2>2. r \in Active
    BY DEF ServiceList, TaskList, Lists, Inspect, Active, Calls
  <2>. QED  BY <2>1, <2>2, QuietFootprint DEF OneAtATime
<1>1. ASSUME NEW a \in Answers, Answer(r, a) PROVE OneAtATime'
  BY <1>0, <1>1, AloneAnswers
<1>2. ASSUME pc'[r] \in Calls \ {"Log", "Delete", "Insert"}, pc[r] \in HoldsRow \ {"Delete"},
             loc'[r].svc = loc[r].svc, loc'[r].op = loc[r].op,
             pc'[r] \in {"Update", "ServiceRemove"} => loc[r].op # "redeploy"
      PROVE  OneAtATime'
  <2>1. Holds(r)'
    BY <1>0, <1>2 DEF Holds
  <2>. QED  BY <1>0, <2>1, AloneQuiet
<1>3. CASE ServiceList(r)
  <2>1. Fails(r) \/ (pc'[r] = "TaskList" /\ loc'[r].svc = loc[r].svc /\ loc'[r].op = loc[r].op)
    BY <1>3, Serving DEF ServiceList, Goto, Locals
  <2>. QED  BY <1>0, <1>2, <1>3, <2>1, AloneFails DEF ServiceList, HoldsRow, Calls
<1>4. CASE TaskList(r)
  <2>1. \/ Fails(r) \/ Answer(r, "200") \/ Answer(r, "refused")
        \/ /\ Goto(r, NextCall(r))
           /\ loc' = [loc EXCEPT ![r].again = loc[r].op # "redeploy" \/ @, ![r].listed = 0]
    BY <1>4 DEF TaskList
  <2>2. CASE /\ Goto(r, NextCall(r))
             /\ loc' = [loc EXCEPT ![r].again = loc[r].op # "redeploy" \/ @, ![r].listed = 0]
    <3>1. /\ pc'[r] = NextCall(r) /\ loc'[r].svc = loc[r].svc /\ loc'[r].op = loc[r].op
      BY <2>2, Serving DEF Goto, Locals
    <3>2. /\ NextCall(r) \in {"Inspect", "ServiceRemove", "Update", "Lists", "FindOne"}
          /\ NextCall(r) \in {"Update", "ServiceRemove"} => loc[r].op # "redeploy"
      BY DEF NextCall
    <3>. QED  BY <1>2, <1>4, <3>1, <3>2 DEF TaskList, HoldsRow, Calls
  <2>. QED  BY <1>0, <1>1, <2>1, <2>2, AloneFails DEF Answers
<1>5. CASE Lists(r)
  <2>1. PICK networks, refs \in BOOLEAN :
          loc' = [loc EXCEPT ![r].networks = networks, ![r].refs = refs, ![r].again = TRUE]
    BY <1>5 DEF Lists
  <2>2. pc'[r] = "FindOne" /\ loc'[r].svc = loc[r].svc /\ loc'[r].op = loc[r].op
    BY <1>5, <2>1, Serving DEF Lists, Goto, Locals
  <2>. QED  BY <1>2, <1>5, <2>2 DEF Lists, HoldsRow, Calls
<1>6. CASE Inspect(r)
  <2>1. \/ Fails(r)
        \/ /\ pc'[r] \in {"ServiceCreate", "ServiceUpdate"}
           /\ loc'[r].svc = loc[r].svc /\ loc'[r].op = loc[r].op
    BY <1>6, Serving DEF Inspect, Goto, Locals
  <2>. QED  BY <1>0, <1>2, <1>6, <2>1, AloneFails DEF Inspect, HoldsRow, Calls
<1>. QED  BY <1>3, <1>4, <1>5, <1>6

(* Without renames a save keeps the name and the cluster of its row. *)
LEMMA BodyStays ==
  ASSUME CanMove = FALSE, NEW n \in Names, NEW body \in Bodies(n)
  PROVE  body[1] = n /\ body[2] = TRUE
<1>1. ~CanMove  OBVIOUS
<1>2. body = <<n, TRUE>>  BY <1>1, Zenon DEF Bodies
<1>. QED  BY <1>2

LEMMA InsertAlone ==
  ASSUME CanMove = FALSE, Inductive, OneAtATime, NEW r \in Requests, Insert(r)
  PROVE  OneAtATime'
<1>0. r \in Active /\ rows[r] = NoRow /\ loc[r].op # "redeploy" /\ r \in Ids
  BY DEF Insert, Active, Calls, Inductive, FreshIds, OneAtATime, Holds, Ids
<1>1. CASE Fails(r)  BY <1>0, <1>1, AloneFails
<1>2. CASE Answer(r, "refused") /\ UNCHANGED <<dbVars, swarmVars, audit, faults>>
  BY <1>0, <1>2, AloneAnswers DEF dbVars, swarmVars, Answers
<1>3. ASSUME NEW n \in Names, NEW body \in Bodies(n), Write(r, body[1], body[2]),
             UNCHANGED <<swarmVars, audit>>,
             \/ /\ Goto(r, "Log")
                /\ loc' = [loc EXCEPT ![r].svc = [id |-> r, name |-> body[1], spec |-> saves + 1]]
                /\ UNCHANGED faults
             \/ Fault /\ Answer(r, "failed")
      PROVE  OneAtATime'
  <2>1. \A i \in Ids \ {r} : rows'[i] = rows[i]
    BY <1>3, Serving DEF Write
  <2>2. NoOrphans'
    BY <1>0, <1>3, <2>1 DEF OneAtATime, NoOrphans, swarmVars
  <2>3. /\ \A q \in Requests \ {r} : loc'[q] = loc[q] /\ pc'[q] = pc[q]
        /\ pc'[r] = "failed" \/ (pc'[r] = "Log" /\ loc'[r].op = loc[r].op)
    BY <1>3, Serving DEF Goto, Answer, Locals
  <2>4. Holds(r)'
    BY <1>0, <2>3 DEF Holds, HoldsRow
  <2>. QED  BY <1>0, <2>2, <2>3, <2>4, AloneStep
<1>. QED  BY <1>1, <1>2, <1>3 DEF Insert

LEMMA UpdateAlone ==
  ASSUME CanMove = FALSE, Inductive, OneAtATime, NEW r \in Requests, Update(r)
  PROVE  OneAtATime'
<1>. DEFINE i == loc[r].svc.id
<1>0. /\ r \in Active /\ i \in Ids /\ loc[r].svc.name \in Names /\ loc[r].op # "redeploy"
      /\ rows[i] # NoRow /\ rows[i].name = loc[r].svc.name
  BY Serving DEF Update, Active, Calls, HoldsRow, OneAtATime, Holds
<1>1. CASE Fails(r)  BY <1>0, <1>1, AloneFails
<1>2. CASE Answer(r, "failed") /\ UNCHANGED <<dbVars, faults>> /\ UNCHANGED <<swarmVars, audit>>
  BY <1>0, <1>2, AloneAnswers DEF dbVars, swarmVars, Answers
<1>3. ASSUME NEW body \in Bodies(loc[r].svc.name), Write(i, body[1], body[2]),
             Outcome(r, "Log"), UNCHANGED <<swarmVars, audit>>
      PROVE  OneAtATime'
  <2>1. /\ rows'[i] # NoRow /\ rows'[i].name = rows[i].name
        /\ \A j \in Ids \ {i} : rows'[j] = rows[j]
    <3>1. body[1] = loc[r].svc.name /\ body[2] = TRUE
      BY <1>0, BodyStays
    <3>2. rows'[i] # NoRow
      BY <1>0, <1>3, <3>1, WriteType DEF Inductive
    <3>. QED  BY <1>0, <1>3, <3>1, <3>2, Serving DEF Write
  <2>2. NoOrphans'
    <3>1. \A n \in Names : swarm'[n] = swarm[n]
      BY <1>3 DEF swarmVars
    <3>2. \A j \in Ids : rows[j] # NoRow => rows'[j] # NoRow /\ rows'[j].name = rows[j].name
      BY <1>0, <2>1
    <3>. QED  BY <3>1, <3>2 DEF OneAtATime, NoOrphans
  <2>3. /\ \A q \in Requests \ {r} : loc'[q] = loc[q] /\ pc'[q] = pc[q]
        /\ pc'[r] = "failed" \/ (pc'[r] = "Log" /\ loc'[r] = loc[r])
    BY <1>3, Serving DEF Outcome, Goto, Answer
  <2>4. Holds(r)'
    BY <1>0, <2>3 DEF Holds, HoldsRow
  <2>. QED  BY <1>0, <2>2, <2>3, <2>4, AloneStep
<1>. QED  BY <1>0, <1>1, <1>2, <1>3 DEF Update, Affected

LEMMA DeployAlone ==
  ASSUME Inductive, OneAtATime, NEW r \in Requests, ServiceCreate(r) \/ ServiceUpdate(r)
  PROVE  OneAtATime'
<1>. DEFINE s == loc[r].svc
<1>0. /\ r \in Active /\ s.id \in Ids /\ s.name \in Names
      /\ rows[s.id] # NoRow /\ rows[s.id].name = s.name /\ rows[s.id].spec = s.spec
      /\ pc[r] \in {"ServiceCreate", "ServiceUpdate"}
  <2>1. pc[r] \in {"ServiceCreate", "ServiceUpdate"} /\ Holds(r)
    BY DEF ServiceCreate, ServiceUpdate, OneAtATime
  <2>. QED  BY <2>1, Serving DEF Active, Calls, HoldsRow, Holds
<1>1. CASE Fails(r)  BY <1>0, <1>1, AloneFails
<1>2. CASE Answer(r, "failed") /\ UNCHANGED <<dbVars, swarmVars, audit, faults>>
  BY <1>0, <1>2, AloneAnswers DEF dbVars, swarmVars, Answers
<1>3. ASSUME NEW service \in Service, service.spec = s.spec,
             service.networks = loc[r].networks, loc[r].refs, Deploy(r, service),
             Outcome(r, "Log"), UNCHANGED <<dbVars, running, audit>>
      PROVE  OneAtATime'
  <2>1. /\ swarm'[s.name] = service /\ \A n \in Names \ {s.name} : swarm'[n] = swarm[n]
        /\ rows' = rows
    BY <1>0, <1>3, Serving DEF Deploy, dbVars
  <2>2. NoOrphans'
    BY <1>0, <2>1 DEF OneAtATime, NoOrphans
  <2>3. /\ \A q \in Requests \ {r} : loc'[q] = loc[q] /\ pc'[q] = pc[q]
        /\ pc'[r] = "failed" \/ (pc'[r] = "Log" /\ loc'[r] = loc[r])
    BY <1>3, Serving DEF Outcome, Goto, Answer
  <2>4. Holds(r)'
    BY <1>0, <1>3, <2>1, <2>3, NullAssumption DEF Holds, HoldsRow
  <2>. QED  BY <1>0, <2>2, <2>3, <2>4, AloneStep
<1>4. \A id, force \in Nat :
        /\ Deployed(r, id, force) \in Service
        /\ Deployed(r, id, force).spec = s.spec
        /\ Deployed(r, id, force).networks = loc[r].networks
  BY <1>0, DeployedType DEF Deployed
<1>5. CASE ServiceCreate(r)
  <2>1. index + 1 \in Nat
    BY DEF Inductive, TypeOK
  <2>. QED  BY <1>1, <1>2, <1>3, <1>4, <1>5, <2>1 DEF ServiceCreate, CreateAccepted
<1>6. CASE ServiceUpdate(r)
  <2>1. loc[r].old.id \in Nat /\ loc[r].old.force + 1 \in Nat
    BY <1>6 DEF ServiceUpdate, Inductive, TypeOK, VersionLock, Locals, Service
  <2>. QED  BY <1>1, <1>2, <1>3, <1>4, <1>6, <2>1 DEF ServiceUpdate, UpdateAccepted
<1>. QED  BY <1>5, <1>6

LEMMA RemoveAlone ==
  ASSUME Inductive, OneAtATime, NEW r \in Requests, ServiceRemove(r) PROVE OneAtATime'
<1>. DEFINE s == loc[r].svc
<1>0. /\ r \in Active /\ pc[r] = "ServiceRemove" /\ s.id \in Ids /\ s.name \in Names
      /\ rows[s.id] # NoRow /\ rows[s.id].name = s.name /\ rows[s.id].spec = s.spec
      /\ loc[r].op # "redeploy"
  <2>1. pc[r] = "ServiceRemove" /\ Holds(r)
    BY DEF ServiceRemove, OneAtATime
  <2>. QED  BY <2>1, Serving DEF Active, Calls, HoldsRow, Holds
<1>1. CASE Fails(r)  BY <1>0, <1>1, AloneFails
<1>2. CASE ~Fails(r)
  <2>1. /\ rows' = rows /\ swarm'[s.name] = NoSvc
        /\ \A n \in Names \ {s.name} : swarm'[n] = swarm[n]
        \/ /\ pc'[r] = "LogFailure" /\ rows' = rows /\ swarm' = swarm
    BY <1>0, <1>2, Serving DEF ServiceRemove, Goto, dbVars, swarmVars
  <2>2. NoOrphans'
    BY <1>0, <2>1, Serving DEF ServiceRemove, dbVars, OneAtATime, NoOrphans
  <2>3. /\ \A q \in Requests \ {r} : loc'[q] = loc[q] /\ pc'[q] = pc[q]
        /\ \/ pc'[r] \in {"failed", "LogFailure"}
           \/ pc'[r] \in {"Delete", "Log"} /\ loc'[r] = loc[r]
    BY <1>0, <1>2, Serving DEF ServiceRemove, AfterRemove, Goto, Answer
  <2>4. rows' = rows
    BY <1>2 DEF ServiceRemove, dbVars
  <2>5. Holds(r)'
    BY <1>0, <2>1, <2>3, <2>4 DEF Holds, HoldsRow
  <2>. QED  BY <1>0, <2>2, <2>3, <2>5, AloneStep
<1>. QED  BY <1>1, <1>2

(* The row that is deleted was the one of no service. *)
LEMMA DeleteAlone ==
  ASSUME Inductive, OneAtATime, NEW r \in Requests, Delete(r) PROVE OneAtATime'
<1>. DEFINE s == loc[r].svc
<1>0. /\ r \in Active /\ s.id \in Ids /\ s.name \in Names /\ loc[r].op # "redeploy"
      /\ rows[s.id].name = s.name /\ swarm[s.name] = NoSvc
  <2>1. pc[r] = "Delete" /\ Holds(r)
    BY DEF Delete, OneAtATime
  <2>. QED  BY <2>1, Serving DEF Active, Calls, HoldsRow, Holds
<1>1. CASE Fails(r)  BY <1>0, <1>1, AloneFails
<1>2. CASE /\ rows' = [rows EXCEPT ![s.id] = NoRow]
           /\ Outcome(r, "Log") /\ UNCHANGED <<saves, saved, swarmVars, audit>>
  <2>1. \A j \in Ids \ {s.id} : rows'[j] = rows[j]
    BY <1>2, Serving
  <2>2. NoOrphans'
    <3>1. ASSUME NEW n \in Names, swarm'[n] # NoSvc
          PROVE  \E j \in Ids : rows'[j] # NoRow /\ rows'[j].name = n
      <4>1. swarm[n] # NoSvc /\ n # s.name
        BY <1>0, <1>2, <3>1 DEF swarmVars
      <4>2. PICK j \in Ids : rows[j] # NoRow /\ rows[j].name = n
        BY <4>1 DEF OneAtATime, NoOrphans
      <4>. QED  BY <1>0, <2>1, <4>1, <4>2
    <3>. QED  BY <3>1 DEF NoOrphans
  <2>3. /\ \A q \in Requests \ {r} : loc'[q] = loc[q] /\ pc'[q] = pc[q]
        /\ pc'[r] = "failed" \/ (pc'[r] = "Log" /\ loc'[r] = loc[r])
    BY <1>2, Serving DEF Outcome, Goto, Answer
  <2>4. Holds(r)'
    BY <1>0, <2>3 DEF Holds, HoldsRow
  <2>. QED  BY <1>0, <2>2, <2>3, <2>4, AloneStep
<1>. QED  BY <1>1, <1>2 DEF Delete

LEMMA LogAlone ==
  ASSUME Inductive, OneAtATime, NEW r \in Requests, Log(r) PROVE OneAtATime'
<1>1. r \in Active
  BY DEF Log, Active, Calls
<1>2. Answer(r, "200") \/ Answer(r, "failed")
  BY DEF Log
<1>. QED  BY <1>1, <1>2, AloneAnswers DEF Log, dbVars, swarmVars, Answers

LEMMA CrashAlone == ASSUME Inductive, OneAtATime, Crash PROVE OneAtATime'
<1>1. \A q \in Requests : pc'[q] \notin Calls
  BY DEF Crash, Active, Calls
<1>2. Active' = {}
  BY <1>1 DEF Active
<1>3. \A q \in Requests : Holds(q)'
  BY <1>1 DEF Holds, HoldsRow, Calls
<1>4. NoOrphans'
  BY DEF Crash, dbVars, swarmVars, OneAtATime, NoOrphans
<1>. QED  BY <1>2, <1>3, <1>4 DEF OneAtATime

LEMMA InitAlone == Init => OneAtATime
<1>. SUFFICES ASSUME Init PROVE OneAtATime
  OBVIOUS
<1>1. Active = {}
  BY DEF Init, Active, Calls
<1>2. \A q \in Requests : Holds(q)
  BY DEF Init, Holds, HoldsRow
<1>3. PICK n \in Names :
        /\ rows = [i \in Ids |-> IF i = Seed THEN [name |-> n, here |-> TRUE, spec |-> 1] ELSE NoRow]
        /\ \/ swarm = [m \in Names |-> NoSvc]
           \/ swarm = [m \in Names |->
                 IF m = n THEN [id |-> 1, version |-> 1, force |-> 0, spec |-> 1,
                                networks |-> TRUE] ELSE NoSvc]
  BY DEF Init
<1>4. \A m \in Names : swarm[m] # NoSvc => m = n
  BY <1>3
<1>5. Seed \in Ids /\ rows[Seed] # NoRow /\ rows[Seed].name = n
  <2>1. Seed \in Ids /\ rows[Seed] = [name |-> n, here |-> TRUE, spec |-> 1]
    BY <1>3 DEF Ids
  <2>2. [name |-> n, here |-> TRUE, spec |-> 1] \in Row
    BY DEF Row
  <2>3. rows[Seed] \in Row
    BY <2>1, <2>2, Zenon
  <2>4. rows[Seed] # NoRow
    BY <2>3, NullAssumption
  <2>. QED  BY <2>1, <2>4
<1>6. NoOrphans
  BY <1>4, <1>5 DEF NoOrphans
<1>. QED  BY <1>1, <1>2, <1>6 DEF OneAtATime

LEMMA NextAlone ==
  ASSUME MaxInFlight = 1, CanMove = FALSE
  PROVE  Inductive /\ OneAtATime /\ [Next]_vars => Inductive' /\ OneAtATime'
<1>. SUFFICES ASSUME Inductive, OneAtATime, [Next]_vars PROVE OneAtATime'
  BY NextInductive
<1>1. CASE UNCHANGED <<rows, swarm, pc, loc>>
  BY <1>1 DEF OneAtATime, NoOrphans, Holds, Active
<1>2. CASE UNCHANGED vars
  BY <1>1, <1>2 DEF vars, dbVars, swarmVars
<1>3. ASSUME NEW n \in Names, TasksChange(n) PROVE OneAtATime'
  BY <1>1, <1>3 DEF TasksChange, dbVars
<1>. QED  BY <1>2, <1>3, StartAlone, FindOneAlone, HeldAlone, InsertAlone, UpdateAlone,
             DeployAlone, RemoveAlone, DeleteAlone, LogAlone, CrashAlone DEF Next

(* Served one at a time and without renames, requests never leave a service *)
(* that has no row, whatever fails between two calls and wherever the       *)
(* process dies.                                                            *)
THEOREM SerialNoOrphans ==
  ASSUME MaxInFlight = 1, CanMove = FALSE PROVE Spec => []NoOrphans
<1>1. OneAtATime => NoOrphans
  BY DEF OneAtATime
<1>. QED  BY <1>1, InitInductive, InitAlone, NextAlone, PTL DEF Spec

(* And a redeploy that is about to be audited as SUCCESS runs what its row  *)
(* holds, attached to its networks just if they were listed.                *)
THEOREM SerialRunsLatest ==
  ASSUME MaxInFlight = 1, CanMove = FALSE PROVE Spec => []RedeployRunsLatest
<1>1. OneAtATime => RedeployRunsLatest
  BY DEF OneAtATime, Holds, RedeployRunsLatest
<1>. QED  BY <1>1, InitInductive, InitAlone, NextAlone, PTL DEF Spec

-----------------------------------------------------------------------------
(* Served one at a time, ServiceManager implements Registry *)

LEMMA InitRegistry == Init => R!RegistryInit
<1>. SUFFICES ASSUME Init PROVE R!RegistryInit
  OBVIOUS
<1>1. R!Init
  BY DEF Init, R!Init
<1>2. PICK n \in Names :
        /\ rows = [i \in Ids |->
              IF i = Seed THEN [name |-> n, here |-> TRUE, spec |-> 1] ELSE NoRow]
        /\ saved = {<<n, 1>>}
  BY DEF Init
<1>3. Seed \in Ids /\ <<n, 1>> \in saved
  BY <1>2 DEF Ids
<1>. QED  BY <1>1, <1>2, <1>3 DEF R!RegistryInit

(* A write of the table is a save of the registry. *)
LEMMA WriteSaves ==
  ASSUME NEW i \in Ids, NEW n \in Names, NEW h \in BOOLEAN, Write(i, n, h),
         UNCHANGED swarmVars
  PROVE  /\ R!Save(n)
         /\ rows' = [rows EXCEPT ![i] = [name |-> n, here |-> h, spec |-> saves']]
  BY DEF Write, R!Save, swarmVars

LEMMA InsertRegistry ==
  ASSUME Inductive, NEW r \in Requests, Insert(r)
  PROVE  R!RegistryNext \/ UNCHANGED <<D!vars, rows>>
<1>0. r \in Ids /\ rows[r] = NoRow
  BY DEF Insert, Inductive, FreshIds, Ids
<1>1. CASE UNCHANGED <<dbVars, swarmVars>>
  BY <1>1 DEF D!vars, dbVars, swarmVars
<1>2. ASSUME NEW n \in Names, NEW body \in Bodies(n), ~NameTaken(body[1], r),
             Write(r, body[1], body[2]), UNCHANGED swarmVars
      PROVE  R!RegistryNext
  <2>1. body[1] \in Names /\ body[2] \in BOOLEAN
    BY BodyType
  <2>2. /\ R!Save(body[1])
        /\ rows' = [rows EXCEPT ![r] = [name |-> body[1], here |-> body[2], spec |-> saves']]
    BY <1>0, <1>2, <2>1, WriteSaves
  <2>3. r \notin R!Rows /\ \A j \in R!Rows : rows[j].name # body[1]
    BY <1>0, <1>2 DEF R!Rows, NameTaken
  <2>4. R!Insert(r)
    BY <2>1, <2>2, <2>3 DEF R!Insert
  <2>. QED  BY <1>0, <2>4 DEF R!RegistryNext
<1>. QED  BY <1>1, <1>2 DEF Insert, Fails

LEMMA UpdateRegistry ==
  ASSUME CanMove = FALSE, Inductive, OneAtATime, NEW r \in Requests, Update(r)
  PROVE  R!RegistryNext \/ UNCHANGED <<D!vars, rows>>
<1>. DEFINE i == loc[r].svc.id
            n == loc[r].svc.name
<1>0. /\ i \in Ids /\ n \in Names /\ rows[i] # NoRow /\ rows[i].name = n
  BY Serving DEF Update, HoldsRow, OneAtATime, Holds
<1>1. CASE UNCHANGED <<dbVars, swarmVars>>
  BY <1>1 DEF D!vars, dbVars, swarmVars
<1>2. ASSUME NEW body \in Bodies(n), Write(i, body[1], body[2]), UNCHANGED swarmVars
      PROVE  R!RegistryNext
  <2>1. body[1] = n /\ body[2] = TRUE
    BY <1>0, BodyStays
  <2>2. /\ R!Save(n)
        /\ rows' = [rows EXCEPT ![i] = [name |-> n, here |-> TRUE, spec |-> saves']]
    BY <1>0, <1>2, <2>1, WriteSaves
  <2>3. R!Rewrite(i)
    BY <1>0, <2>2 DEF R!Rewrite, R!Rows
  <2>. QED  BY <1>0, <2>3 DEF R!RegistryNext
<1>. QED  BY <1>1, <1>2 DEF Update, Fails

(* The row a redeploy holds is what the table holds: nobody else wrote it.  *)
LEMMA DeployRegistry ==
  ASSUME Inductive, OneAtATime, NEW r \in Requests, ServiceCreate(r) \/ ServiceUpdate(r)
  PROVE  R!RegistryNext \/ UNCHANGED <<D!vars, rows>>
<1>. DEFINE i == loc[r].svc.id
            n == loc[r].svc.name
<1>0. /\ i \in R!Rows /\ i \in Ids /\ n \in Names /\ rows[i].name = n
      /\ rows[i].spec = loc[r].svc.spec
      /\ loc[r].svc.spec \in {t \in 1..saves : <<n, t>> \in saved}
  <2>1. pc[r] \in HoldsRow
    BY DEF ServiceCreate, ServiceUpdate, HoldsRow
  <2>. QED  BY <2>1, Serving, HeldSpec DEF OneAtATime, Holds, R!Rows
<1>1. CASE UNCHANGED <<dbVars, swarmVars>>
  BY <1>1 DEF D!vars, dbVars, swarmVars
<1>2. ASSUME NEW service, service.spec = loc[r].svc.spec, Deploy(r, service),
             R!Create(n) \/ R!Redeploy(n), UNCHANGED dbVars
      PROVE  R!RegistryNext
  <2>1. swarm'[n] = service
    BY <1>0, <1>2, Serving DEF Deploy
  <2>2. R!Deploy(i)
    BY <1>0, <1>2, <2>1 DEF R!Deploy, dbVars
  <2>. QED  BY <1>0, <2>2 DEF R!RegistryNext
<1>3. CASE /\ pc[r] = "ServiceCreate" /\ CreateAccepted(r) /\ UNCHANGED dbVars
           /\ Deploy(r, Deployed(r, index + 1, 0))
  <2>1. R!Create(n)
    <3>1. loc[r].networks \in BOOLEAN  BY NetworksType
    <3>2. /\ swarm[n] = NoSvc /\ index' = index + 1 /\ UNCHANGED <<saves, saved>>
          /\ swarm' = [swarm EXCEPT ![n] =
                [id |-> index + 1, version |-> index + 1, force |-> 0,
                 spec |-> loc[r].svc.spec, networks |-> loc[r].networks]]
      BY <1>3 DEF CreateAccepted, Deploy, Deployed, dbVars
    <3>. QED  BY <1>0, <3>1, <3>2, Zenon DEF R!Create
  <2>. QED  BY <1>2, <1>3, <2>1 DEF Deployed
<1>4. CASE /\ pc[r] = "ServiceUpdate" /\ UpdateAccepted(r) /\ UNCHANGED dbVars
           /\ Deploy(r, Deployed(r, loc[r].old.id, loc[r].old.force + 1))
  <2>1. swarm[n] = loc[r].old /\ swarm[n] # NoSvc
    BY <1>4 DEF UpdateAccepted, Inductive, VersionLock
  <2>2. R!Redeploy(n)
    <3>1. loc[r].networks \in BOOLEAN  BY NetworksType
    <3>2. /\ swarm[n] # NoSvc /\ index' = index + 1 /\ UNCHANGED <<saves, saved>>
          /\ swarm' = [swarm EXCEPT ![n] =
                [id |-> swarm[n].id, version |-> index + 1, force |-> swarm[n].force + 1,
                 spec |-> loc[r].svc.spec, networks |-> loc[r].networks]]
      BY <1>4, <2>1 DEF Deploy, Deployed, dbVars
    <3>. QED  BY <1>0, <3>1, <3>2, Zenon DEF R!Redeploy
  <2>. QED  BY <1>2, <1>4, <2>2 DEF Deployed
<1>. QED  BY <1>1, <1>3, <1>4 DEF ServiceCreate, ServiceUpdate, Fails

LEMMA RemoveRegistry ==
  ASSUME Inductive, OneAtATime, NEW r \in Requests, ServiceRemove(r)
  PROVE  R!RegistryNext \/ UNCHANGED <<D!vars, rows>>
<1>. DEFINE i == loc[r].svc.id
            n == loc[r].svc.name
<1>0. i \in R!Rows /\ i \in Ids /\ rows[i].name = n
  <2>1. pc[r] \in HoldsRow
    BY DEF ServiceRemove, HoldsRow
  <2>. QED  BY <2>1, Serving DEF OneAtATime, Holds, R!Rows
<1>1. CASE /\ swarm[n] # NoSvc /\ swarm' = [swarm EXCEPT ![n] = NoSvc]
           /\ UNCHANGED <<dbVars, index>>
  <2>1. R!Stop(i)
    BY <1>0, <1>1 DEF R!Stop, R!Remove, dbVars
  <2>. QED  BY <1>0, <2>1 DEF R!RegistryNext
<1>2. CASE UNCHANGED <<dbVars, swarmVars>>
  BY <1>2 DEF D!vars, dbVars, swarmVars
<1>. QED  BY <1>1, <1>2 DEF ServiceRemove, Fails

LEMMA DeleteRegistry ==
  ASSUME Inductive, OneAtATime, NEW r \in Requests, Delete(r)
  PROVE  R!RegistryNext \/ UNCHANGED <<D!vars, rows>>
<1>. DEFINE i == loc[r].svc.id
<1>0. i \in R!Rows /\ i \in Ids /\ swarm[rows[i].name] = NoSvc
  <2>1. pc[r] = "Delete" /\ Holds(r)
    BY DEF Delete, OneAtATime
  <2>. QED  BY <2>1, Serving DEF Holds, HoldsRow, R!Rows
<1>1. CASE rows' = [rows EXCEPT ![i] = NoRow] /\ UNCHANGED <<saves, saved, swarmVars>>
  <2>1. R!Delete(i)
    BY <1>0, <1>1 DEF R!Delete, R!vars, swarmVars
  <2>. QED  BY <1>0, <2>1 DEF R!RegistryNext
<1>2. CASE UNCHANGED <<dbVars, swarmVars>>
  BY <1>2 DEF D!vars, dbVars, swarmVars
<1>. QED  BY <1>1, <1>2 DEF Delete, Fails

LEMMA NextRegistry ==
  ASSUME CanMove = FALSE
  PROVE  Inductive /\ OneAtATime /\ [Next]_vars => [R!RegistryNext]_<<R!vars, rows>>
<1>. SUFFICES ASSUME Inductive, OneAtATime, [Next]_vars
              PROVE  R!RegistryNext \/ UNCHANGED <<D!vars, rows>>
  BY DEF R!vars, D!vars
<1>1. CASE UNCHANGED vars
  BY <1>1 DEF vars, dbVars, swarmVars, D!vars
<1>2. CASE Crash \/ \E n \in Names : TasksChange(n)
  BY <1>2 DEF Crash, TasksChange, D!vars, dbVars, swarmVars
<1>3. ASSUME NEW r \in Requests,
             Start(r) \/ FindOne(r) \/ ServiceList(r) \/ TaskList(r) \/ Lists(r)
               \/ Inspect(r) \/ Log(r)
      PROVE  UNCHANGED <<D!vars, rows>>
  BY <1>3 DEF Start, FindOne, ServiceList, TaskList, Lists, Inspect, Log, Fails,
              D!vars, dbVars, swarmVars
<1>. QED  BY <1>1, <1>2, <1>3, InsertRegistry, UpdateRegistry, DeployRegistry,
             RemoveRegistry, DeleteRegistry DEF Next

(* Served one at a time and without renames, the requests implement the     *)
(* registry: a service runs only under a row, a redeploy runs what the row  *)
(* holds, and ServiceDelete takes a row only when nothing runs under its    *)
(* name, whatever call fails between its two writes.                        *)
THEOREM SerialRegistry ==
  ASSUME MaxInFlight = 1, CanMove = FALSE PROVE Spec => ImplementsRegistry
  BY InitInductive, InitAlone, NextAlone, InitRegistry, NextRegistry, PTL
  DEF Spec, ImplementsRegistry, R!RegistrySpec
=============================================================================
