------------------------ MODULE ServiceManagerProofs ------------------------
(***************************************************************************)
(* Proofs, for every number of requests, names, faults and overlaps, that   *)
(* ServiceManager keeps its invariants and implements Deployment.           *)
(***************************************************************************)
EXTENDS ServiceManager, TLAPS

USE IdsAssumption, NullAssumption, BoundsAssumption

(* The locals of an answered request are those of one not started. *)
LEMMA BlankLocals == Blank \in Locals
  BY DEF Blank, Locals, Ops, Ids

LEMMA InitInductive == Init => Inductive
<1>. SUFFICES ASSUME Init PROVE Inductive
  OBVIOUS
<1>1. TypeOK
  <2>1. [id |-> 1, version |-> 1, force |-> 0, spec |-> 1, networks |-> TRUE] \in Service
    BY DEF Service
  <2>2. swarm \in [Names -> Service \cup {NoSvc}]
    BY <2>1 DEF Init
  <2>. QED  BY <2>2, BlankLocals DEF Init, TypeOK, Ids, Row
<1>2. SavedRows
  BY DEF Init, SavedRows, HoldsRow
<1>3. VersionLock
  BY DEF Init, VersionLock
<1>4. DeletedRows /\ FreshIds /\ DeletedStayDeleted
  BY DEF Init, DeletedRows, FreshIds, DeletedStayDeleted, Blank, Ids
<1>. QED  BY <1>1, <1>2, <1>3, <1>4 DEF Inductive

(* A step that answers request r and touches neither store keeps the        *)
(* invariant: the failing end of every call.                                *)
LEMMA AnswerInductive ==
  ASSUME Inductive, NEW r \in Requests, NEW a \in Answers, Answer(r, a), faults' \in Nat,
         UNCHANGED <<dbVars, swarmVars>>,
         audit' = audit
  PROVE  Inductive'
<1>1. /\ pc[r] \notin {"idle", "Insert"} => pc'[r] \notin {"idle", "Insert"}
      /\ pc'[r] \notin HoldsRow \cup {"Log", "LogFailure", "idle", "Insert"}
      /\ pc' \in [Requests -> {"idle"} \cup Calls \cup Answers]
      /\ \A q \in Requests \ {r} : pc'[q] = pc[q] /\ loc'[q] = loc[q]
      /\ loc'[r] = Blank
  BY DEF Inductive, TypeOK, Answer, Goto, Answers, Calls, HoldsRow
<1>2. TypeOK'
  BY <1>1, BlankLocals DEF Inductive, TypeOK, Answer, dbVars, swarmVars
<1>3. SavedRows'
  BY <1>1 DEF Inductive, SavedRows, dbVars, swarmVars
<1>4. VersionLock'
  BY <1>1 DEF Inductive, VersionLock, HoldsRow, dbVars, swarmVars, Answers
<1>5. DeletedRows'
  BY <1>1 DEF Inductive, DeletedRows, Blank, dbVars
<1>6. FreshIds' /\ DeletedStayDeleted'
  BY <1>1 DEF Inductive, FreshIds, DeletedStayDeleted, Blank, dbVars
<1>. QED  BY <1>2, <1>3, <1>4, <1>5, <1>6 DEF Inductive

LEMMA FailsInductive ==
  ASSUME Inductive, NEW r \in Requests, Fails(r) PROVE Inductive'
<1>1. "failed" \in Answers  BY DEF Answers
<1>2. faults' \in Nat  BY DEF Inductive, TypeOK, Fails, Fault
<1>. QED  BY <1>1, <1>2, AnswerInductive DEF Fails

(* A step by which request r only changes its own locals and goes on.       *)
LEMMA LocalInductive ==
  ASSUME Inductive, NEW r \in Requests, NEW l \in Locals, NEW c \in Calls,
         loc' = [loc EXCEPT ![r] = l], pc' = [pc EXCEPT ![r] = c],
         UNCHANGED <<dbVars, swarmVars>>, audit' = audit, faults' \in Nat,
         pc[r] # "Insert", c \notin {"Log", "LogFailure"},
         c = "Insert" => pc[r] = "idle" /\ l.svc = NoRow,
         c \in HoldsRow => l.svc # NoRow,
         l.svc # NoRow => l.svc = loc[r].svc \/ rows[l.svc.id] # NoRow,
         c \in HoldsRow => <<l.svc.name, l.svc.spec>> \in saved,
         c = "ServiceUpdate" => l.old # NoSvc /\ l.old = swarm[l.svc.name],
         l.op = "delete" /\ l.key \in Ids /\ l.svc # NoRow => l.svc.id = l.key,
         l.op = "delete" => c \notin {"Insert", "Update", "Lists", "Inspect",
                                     "ServiceCreate", "ServiceUpdate"}
  PROVE  Inductive'
<1>1. /\ \A q \in Requests \ {r} : pc'[q] = pc[q] /\ loc'[q] = loc[q]
      /\ loc'[r] = l /\ pc'[r] = c
  BY DEF Inductive, TypeOK
<1>2. TypeOK'
  BY DEF Inductive, TypeOK, dbVars, swarmVars
<1>3. SavedRows'
  BY <1>1 DEF Inductive, SavedRows, dbVars, swarmVars
<1>4. VersionLock'
  <2>1. c = "ServiceUpdate" => l.svc # NoRow  BY DEF HoldsRow
  <2>2. l.svc # NoRow => l.svc.name \in Names  BY DEF Locals, Snapshot
  <2>3. c = "ServiceUpdate" => l.old.version <= index
    BY <2>1, <2>2 DEF Inductive, VersionLock
  <2>. QED  BY <1>1, <2>3 DEF Inductive, VersionLock, swarmVars
<1>5. DeletedRows'
  BY <1>1 DEF Inductive, DeletedRows, dbVars
<1>6. FreshIds'
  <2>. SUFFICES ASSUME NEW p \in Requests, pc'[p] \in {"idle", "Insert"}
                PROVE  /\ rows[p] = NoRow /\ loc'[p].svc = NoRow
                       /\ \A q \in Requests : loc'[q].svc # NoRow => loc'[q].svc.id # p
                       /\ \A e \in audit : ~(/\ e.action = "delete" /\ e.state = "SUCCESS"
                                              /\ e.target = p)
    BY DEF FreshIds, dbVars
  <2>1. pc[p] \in {"idle", "Insert"}
    BY <1>1 DEF Calls
  <2>2. /\ rows[p] = NoRow /\ loc[p].svc = NoRow
        /\ \A q \in Requests : loc[q].svc # NoRow => loc[q].svc.id # p
        /\ \A e \in audit : ~(e.action = "delete" /\ e.state = "SUCCESS" /\ e.target = p)
    BY <2>1 DEF Inductive, FreshIds
  <2>3. loc'[p].svc = NoRow
    <3>1. CASE p = r  BY <1>1, <3>1 DEF Calls
    <3>2. CASE p # r  BY <1>1, <2>2, <3>2
    <3>. QED  BY <3>1, <3>2
  <2>4. \A q \in Requests : loc'[q].svc # NoRow => loc'[q].svc.id # p
    BY <1>1, <2>2
  <2>. QED  BY <2>2, <2>3, <2>4
<1>7. DeletedStayDeleted'
  BY DEF Inductive, DeletedStayDeleted, dbVars
<1>. QED  BY <1>2, <1>3, <1>4, <1>5, <1>6, <1>7 DEF Inductive

LEMMA StartInductive ==
  ASSUME Inductive, NEW r \in Requests, Start(r) PROVE Inductive'
<1>1. PICK op \in Ops, key \in Ids \cup Names :
        /\ loc' = [loc EXCEPT ![r].op = op, ![r].key = key]
        /\ Goto(r, IF op = "create" THEN "Insert" ELSE "FindOne")
  BY DEF Start
<1>. DEFINE l == [loc[r] EXCEPT !.op = op, !.key = key]
            c == IF op = "create" THEN "Insert" ELSE "FindOne"
<1>2. l \in Locals /\ c \in Calls /\ l.svc = loc[r].svc
  BY DEF Inductive, TypeOK, Locals, Calls
<1>3. loc' = [loc EXCEPT ![r] = l] /\ pc' = [pc EXCEPT ![r] = c]
  BY <1>1 DEF Goto, Inductive, TypeOK
<1>4. /\ pc[r] = "idle" /\ faults' \in Nat
      /\ UNCHANGED <<dbVars, swarmVars>> /\ audit' = audit
  BY DEF Start, Inductive, TypeOK
<1>5. l.svc = NoRow
  BY <1>2, <1>4 DEF Inductive, FreshIds
<1>6. /\ c \in {"Insert", "FindOne"} /\ c \notin HoldsRow
      /\ l.op = "delete" => c # "Insert"
  BY <1>2 DEF HoldsRow, Inductive, TypeOK, Locals
<1>. HIDE DEF l, c
<1>. QED  BY <1>2, <1>3, <1>4, <1>5, <1>6, LocalInductive

LEMMA FindOneInductive ==
  ASSUME Inductive, NEW r \in Requests, FindOne(r) PROVE Inductive'
<1>1. ASSUME NEW i \in Matches(loc[r].key),
             loc' = [loc EXCEPT
                   ![r].svc = [id |-> i, name |-> rows[i].name, spec |-> rows[i].spec],
                   ![r].seen = IF loc[r].again THEN @ ELSE rows[i].spec],
             Goto(r, "ServiceList"), UNCHANGED faults
      PROVE  Inductive'
  <2>. DEFINE s == [id |-> i, name |-> rows[i].name, spec |-> rows[i].spec]
              k == IF loc[r].again THEN loc[r].seen ELSE rows[i].spec
              l == [loc[r] EXCEPT !.svc = s, !.seen = k]
  <2>1. /\ s \in Snapshot /\ rows[i].spec \in Nat /\ rows[i] # NoRow
        /\ <<s.name, s.spec>> \in saved
        /\ loc[r].key \in Ids => i = loc[r].key
    BY DEF Matches, Inductive, SavedRows, TypeOK, Row, Snapshot
  <2>2. loc[r] \in Locals  BY DEF Inductive, TypeOK
  <2>3. k \in Nat  BY <2>1, <2>2 DEF Locals
  <2>4. l \in Locals /\ l.svc = s /\ l.op = loc[r].op /\ l.key = loc[r].key
    <3>. HIDE DEF s, k
    <3>. QED  BY <2>1, <2>2, <2>3 DEF Locals
  <2>5. loc' = [loc EXCEPT ![r] = l]
    BY <1>1 DEF Inductive, TypeOK
  <2>6. /\ pc' = [pc EXCEPT ![r] = "ServiceList"] /\ faults' \in Nat
        /\ pc[r] # "Insert" /\ "ServiceList" \in Calls
        /\ UNCHANGED <<dbVars, swarmVars>> /\ audit' = audit
    BY <1>1 DEF FindOne, Goto, Inductive, TypeOK, Calls
  <2>7. s # NoRow /\ rows[s.id] # NoRow /\ s.id = i
    BY <2>1 
  <2>. HIDE DEF l, s
  <2>. QED  BY <2>1, <2>4, <2>5, <2>6, <2>7, LocalInductive
<1>2. CASE /\ \/ Matches(loc[r].key) = {} /\ UNCHANGED faults
             \/ Fault
           /\ Answer(r, IF loc[r].again THEN "failed" ELSE "not_found")
  BY <1>2, AnswerInductive DEF FindOne, Fault, Answers, Inductive, TypeOK
<1>. QED  BY <1>1, <1>2 DEF FindOne

LEMMA ServiceListInductive ==
  ASSUME Inductive, NEW r \in Requests, ServiceList(r) PROVE Inductive'
<1>. DEFINE n == loc[r].svc.name
            k == IF swarm[n] = NoSvc THEN 0 ELSE swarm[n].id
            l == [loc[r] EXCEPT !.listed = k]
<1>1. CASE Fails(r)  BY <1>1, FailsInductive
<1>2. CASE ~Fails(r)
  <2>1. /\ loc' = [loc EXCEPT ![r].listed = k]
        /\ pc' = [pc EXCEPT ![r] = "TaskList"] /\ pc[r] = "ServiceList"
        /\ UNCHANGED <<dbVars, swarmVars, audit, faults>>
    BY <1>2 DEF ServiceList, Goto
  <2>2. /\ loc[r] \in Locals /\ loc[r].svc # NoRow
        /\ <<loc[r].svc.name, loc[r].svc.spec>> \in saved
    BY <2>1 DEF Inductive, TypeOK, SavedRows, HoldsRow
  <2>3. k \in Nat
    BY <2>2 DEF Inductive, TypeOK, Locals, Snapshot, Service
  <2>4. loc' = [loc EXCEPT ![r] = l]
    BY <2>1 DEF Inductive, TypeOK
  <2>5. /\ l \in Locals /\ l.svc = loc[r].svc /\ l.op = loc[r].op /\ l.key = loc[r].key
    <3>. HIDE DEF k
    <3>. QED  BY <2>2, <2>3 DEF Locals
  <2>6. l.op = "delete" /\ l.key \in Ids /\ l.svc # NoRow => l.svc.id = l.key
    BY <2>5 DEF Inductive, DeletedRows
  <2>7. "TaskList" \in Calls /\ faults' \in Nat
    BY <2>1 DEF Calls, Inductive, TypeOK
  <2>8. "TaskList" \notin {"Insert", "Log", "LogFailure", "ServiceUpdate", "Update", "Lists",
                           "Inspect", "ServiceCreate"} /\ pc[r] # "Insert"
    BY <2>1
  <2>9. /\ loc[r].svc # NoRow /\ l.svc = loc[r].svc /\ l \in Locals
        /\ <<l.svc.name, l.svc.spec>> \in saved
    BY <2>2, <2>5
  <2>. HIDE DEF l
  <2>. QED  BY <2>1, <2>4, <2>6, <2>7, <2>8, <2>9, LocalInductive
<1>. QED  BY <1>1, <1>2

LEMMA TaskListInductive ==
  ASSUME Inductive, NEW r \in Requests, TaskList(r) PROVE Inductive'
<1>. DEFINE a == loc[r].op # "redeploy" \/ loc[r].again
            l == [loc[r] EXCEPT !.again = a, !.listed = 0]
            c == NextCall(r)
<1>1. CASE Fails(r)  BY <1>1, FailsInductive
<1>2. CASE \E x \in Answers : Answer(r, x) /\ UNCHANGED <<dbVars, swarmVars, audit, faults>>
  BY <1>2, AnswerInductive DEF Inductive, TypeOK
<1>3. CASE /\ Goto(r, c) /\ loc[r].op # "get"
           /\ loc' = [loc EXCEPT ![r].again = loc[r].op # "redeploy" \/ @,
                                 ![r].listed = 0]
           /\ UNCHANGED <<dbVars, swarmVars, audit, faults>>
  <2>1. /\ loc[r] \in Locals /\ loc[r].svc # NoRow /\ pc[r] = "TaskList"
        /\ <<loc[r].svc.name, loc[r].svc.spec>> \in saved
    BY DEF TaskList, Inductive, TypeOK, SavedRows, HoldsRow
  <2>2. loc' = [loc EXCEPT ![r] = l] /\ pc' = [pc EXCEPT ![r] = c] /\ faults' \in Nat
    BY <1>3, <2>1 DEF Goto, Inductive, TypeOK
  <2>3. /\ l \in Locals /\ l.svc = loc[r].svc /\ l.op = loc[r].op /\ l.key = loc[r].key
    <3>. a \in BOOLEAN  OBVIOUS
    <3>. HIDE DEF a
    <3>. QED  BY <2>1 DEF Locals
  <2>4. /\ c \in Calls \ {"Insert", "Log", "LogFailure", "ServiceUpdate", "ServiceCreate"}
        /\ l.op = "delete" => c \notin {"Update", "Lists", "Inspect"}
    BY <2>3 DEF NextCall, Calls
  <2>5. l.op = "delete" /\ l.key \in Ids /\ l.svc # NoRow => l.svc.id = l.key
    BY <2>3 DEF Inductive, DeletedRows
  <2>. HIDE DEF l, c
  <2>. QED  BY <1>3, <2>1, <2>2, <2>3, <2>4, <2>5, LocalInductive
<1>. QED
  <2>1. "200" \in Answers /\ "refused" \in Answers  BY DEF Answers
  <2>. QED  BY <1>1, <1>2, <1>3, <2>1 DEF TaskList

LEMMA ListsInductive ==
  ASSUME Inductive, NEW r \in Requests, Lists(r) PROVE Inductive'
<1>1. PICK networks, refs \in BOOLEAN :
        loc' = [loc EXCEPT ![r].networks = networks, ![r].refs = refs, ![r].again = TRUE]
  BY DEF Lists
<1>. DEFINE l == [loc[r] EXCEPT !.networks = networks, !.refs = refs, !.again = TRUE]
<1>2. /\ loc[r] \in Locals /\ loc[r].svc # NoRow
      /\ <<loc[r].svc.name, loc[r].svc.spec>> \in saved
  BY DEF Lists, Inductive, TypeOK, SavedRows, HoldsRow
<1>3. /\ l \in Locals /\ l.svc = loc[r].svc /\ l.op = loc[r].op /\ l.key = loc[r].key
  BY <1>2 DEF Locals
<1>4. /\ pc' = [pc EXCEPT ![r] = "FindOne"]
      /\ pc[r] = "Lists" /\ "FindOne" \in Calls
      /\ UNCHANGED <<dbVars, swarmVars>> /\ audit' = audit
  BY DEF Lists, Goto, Calls
<1>6. faults' \in Nat
  BY DEF Lists, Inductive, TypeOK
<1>7. loc' = [loc EXCEPT ![r] = l]
  BY <1>1 DEF Inductive, TypeOK
<1>5. l.op = "delete" /\ l.key \in Ids /\ l.svc # NoRow => l.svc.id = l.key
  BY <1>3 DEF Inductive, DeletedRows
<1>. HIDE DEF l
<1>. QED  BY <1>2, <1>3, <1>4, <1>5, <1>6, <1>7, LocalInductive

LEMMA InspectInductive ==
  ASSUME Inductive, NEW r \in Requests, Inspect(r) PROVE Inductive'
<1>. DEFINE o == swarm[loc[r].svc.name]
            l == [loc[r] EXCEPT !.old = o]
            c == IF o = NoSvc THEN "ServiceCreate" ELSE "ServiceUpdate"
<1>1. CASE Fails(r)  BY <1>1, FailsInductive
<1>2. CASE ~Fails(r)
  <2>1. /\ loc' = [loc EXCEPT ![r].old = o] /\ pc' = [pc EXCEPT ![r] = c]
        /\ pc[r] = "Inspect" /\ UNCHANGED <<dbVars, swarmVars, audit, faults>>
    BY <1>2 DEF Inspect, Goto
  <2>2. /\ loc[r] \in Locals /\ loc[r].svc # NoRow
        /\ <<loc[r].svc.name, loc[r].svc.spec>> \in saved
        /\ loc[r].op # "delete"
    BY <2>1 DEF Inductive, TypeOK, SavedRows, HoldsRow, DeletedRows
  <2>3. o \in Service \cup {NoSvc}
    BY <2>2 DEF Inductive, TypeOK, Locals, Snapshot
  <2>4. /\ l \in Locals /\ l.svc = loc[r].svc /\ l.op = loc[r].op /\ l.old = o
    <3>. HIDE DEF o
    <3>. QED  BY <2>2, <2>3 DEF Locals
  <2>5. loc' = [loc EXCEPT ![r] = l] /\ faults' \in Nat
    BY <2>1 DEF Inductive, TypeOK
  <2>6. c \in Calls \ {"Insert", "Log", "LogFailure"} /\ (c = "ServiceUpdate" => l.old # NoSvc)
    BY <2>4 DEF Calls
  <2>7. l.old = swarm[l.svc.name]
    BY <2>4
  <2>. HIDE DEF l, c, o
  <2>. QED  BY <2>1, <2>2, <2>4, <2>5, <2>6, <2>7, LocalInductive
<1>. QED  BY <1>1, <1>2

-----------------------------------------------------------------------------
(* The writes *)

(* After a write, its request goes on to the call c or has failed.          *)
LEMMA OutcomeFootprint ==
  ASSUME TypeOK, NEW r \in Requests, NEW c \in {"Log", "Delete"}, Outcome(r, c)
  PROVE  /\ pc' \in [Requests -> {"idle"} \cup Calls \cup Answers]
         /\ loc' \in [Requests -> Locals]
         /\ faults' \in Nat
         /\ \A q \in Requests \ {r} : pc'[q] = pc[q] /\ loc'[q] = loc[q]
         /\ \/ pc'[r] = c /\ loc'[r] = loc[r]
            \/ pc'[r] = "failed" /\ loc'[r] = Blank
  BY BlankLocals DEF Outcome, Goto, Answer, Fault, TypeOK, Calls, Answers

LEMMA WriteType ==
  ASSUME TypeOK, NEW i \in Ids, NEW n \in Names, NEW h \in BOOLEAN, Write(i, n, h)
  PROVE  /\ rows' \in [Ids -> Row \cup {NoRow}]
         /\ saves' \in Nat /\ saved' \in SUBSET (Names \X Nat)
         /\ rows'[i] # NoRow
  BY DEF TypeOK, Write, Row

(* The bodies of save requests name a service and a cluster. *)
LEMMA BodyType ==
  ASSUME NEW n \in Names, NEW body \in Bodies(n)
  PROVE  body[1] \in Names /\ body[2] \in BOOLEAN
<1>1. CASE CanMove  BY <1>1 DEF Bodies
<1>2. CASE ~CanMove
  <2>1. body = <<n, TRUE>>  BY <1>2 DEF Bodies
  <2>. QED  BY <2>1
<1>. QED  BY <1>1, <1>2

(* Saved rows stay saved when a row is written. *)
LEMMA WriteSaved ==
  ASSUME Inductive, NEW i \in Ids, NEW n \in Names, NEW h \in BOOLEAN, Write(i, n, h),
         NEW r \in Requests, pc'[r] \notin HoldsRow,
         pc'[r] \in {"Log", "LogFailure"} => loc'[r].svc # NoRow,
         \A q \in Requests \ {r} : pc'[q] = pc[q] /\ loc'[q] = loc[q]
  PROVE  SavedRows'
<1>1. \A p \in saved' : p[2] \in 1..saves'
  BY DEF Inductive, TypeOK, SavedRows, Write
<1>2. \A j \in Ids : rows'[j] # NoRow /\ rows'[j].here
          => <<rows'[j].name, rows'[j].spec>> \in saved'
  <2>. TAKE j \in Ids
  <2>1. CASE j = i  BY <2>1 DEF Inductive, TypeOK, Write
  <2>2. CASE j # i  BY <2>2 DEF Inductive, TypeOK, SavedRows, Write
  <2>. QED  BY <2>1, <2>2
<1>3. \A q \in Requests :
        /\ pc'[q] \in HoldsRow \cup {"Log", "LogFailure"} => loc'[q].svc # NoRow
        /\ pc'[q] \in HoldsRow => <<loc'[q].svc.name, loc'[q].svc.spec>> \in saved'
  BY DEF Inductive, SavedRows, Write
<1>. QED  BY <1>1, <1>2, <1>3 DEF SavedRows

LEMMA UpdateInductive ==
  ASSUME Inductive, NEW r \in Requests, Update(r) PROVE Inductive'
<1>. DEFINE i == loc[r].svc.id
<1>0. /\ loc[r] \in Locals /\ loc[r].svc # NoRow /\ pc[r] = "Update"
      /\ i \in Ids /\ loc[r].svc.name \in Names /\ loc[r].op # "delete"
  BY DEF Update, Inductive, TypeOK, SavedRows, DeletedRows, HoldsRow, Locals, Snapshot
<1>1. CASE Fails(r)  BY <1>1, FailsInductive
<1>2. CASE Answer(r, "failed") /\ UNCHANGED <<dbVars, swarmVars, audit, faults>>
  BY <1>2, AnswerInductive DEF Inductive, TypeOK, Answers
<1>3. CASE Goto(r, "Log") /\ UNCHANGED <<dbVars, faults, loc, swarmVars, audit>>
  <2>1. loc' = [loc EXCEPT ![r] = loc[r]] /\ pc' = [pc EXCEPT ![r] = "Log"]
    BY <1>3 DEF Goto, Inductive, TypeOK
  <2>2. /\ \A q \in Requests \ {r} : pc'[q] = pc[q] /\ loc'[q] = loc[q]
        /\ loc'[r] = loc[r] /\ pc'[r] = "Log"
    BY <2>1 DEF Inductive, TypeOK
  <2>3. TypeOK'  BY <1>3, <2>1 DEF Inductive, TypeOK, Calls, dbVars, swarmVars
  <2>4. SavedRows'
    BY <1>0, <1>3, <2>2 DEF Inductive, SavedRows, HoldsRow, dbVars
  <2>6. VersionLock'
    BY <1>3, <2>2 DEF Inductive, VersionLock, swarmVars
  <2>5. DeletedRows' /\ FreshIds' /\ DeletedStayDeleted'
    BY <1>0, <1>3, <2>2 DEF Inductive, DeletedRows, FreshIds, DeletedStayDeleted, dbVars
  <2>. QED  BY <2>3, <2>4, <2>5, <2>6 DEF Inductive
<1>4. ASSUME NEW body \in Bodies(loc[r].svc.name), Affected(i),
             Write(i, body[1], body[2]), Outcome(r, "Log"), UNCHANGED <<swarmVars, audit>>
      PROVE  Inductive'
  <2>1. body[1] \in Names /\ body[2] \in BOOLEAN  BY <1>0, BodyType
  <2>2. /\ \A q \in Requests \ {r} : pc'[q] = pc[q] /\ loc'[q] = loc[q]
        /\ \/ pc'[r] = "Log" /\ loc'[r] = loc[r]
           \/ pc'[r] = "failed" /\ loc'[r] = Blank
    BY <1>4, OutcomeFootprint DEF Inductive
  <2>3. TypeOK'
    BY <1>0, <1>4, <2>1, OutcomeFootprint, WriteType DEF Inductive, TypeOK, swarmVars
  <2>4. SavedRows'
    BY <1>0, <1>4, <2>1, <2>2, WriteSaved DEF HoldsRow
  <2>5. VersionLock'
    BY <1>4, <2>2 DEF Inductive, VersionLock, swarmVars
  <2>6. \A j \in Ids : rows[j] = NoRow => rows'[j] = NoRow
    BY <1>0, <1>4 DEF Affected, Write, Inductive, TypeOK
  <2>7. DeletedRows'
    BY <1>0, <2>2, <2>6 DEF Inductive, DeletedRows, Blank
  <2>8. FreshIds' /\ DeletedStayDeleted'
    BY <1>0, <1>4, <2>2, <2>6 DEF Inductive, FreshIds, DeletedStayDeleted, Blank, Ids
  <2>. QED  BY <2>3, <2>4, <2>5, <2>7, <2>8 DEF Inductive
<1>. QED  BY <1>1, <1>2, <1>3, <1>4 DEF Update

LEMMA InsertInductive ==
  ASSUME Inductive, NEW r \in Requests, Insert(r) PROVE Inductive'
<1>0. /\ loc[r] \in Locals /\ pc[r] = "Insert" /\ rows[r] = NoRow /\ r \in Ids
      /\ loc[r].op # "delete"
      /\ \A q \in Requests : loc[q].svc # NoRow => loc[q].svc.id # r
      /\ \A e \in audit : ~(e.action = "delete" /\ e.state = "SUCCESS" /\ e.target = r)
  BY DEF Insert, Inductive, TypeOK, FreshIds, DeletedRows, Ids
<1>1. CASE Fails(r)  BY <1>1, FailsInductive
<1>2. CASE Answer(r, "refused") /\ UNCHANGED <<dbVars, swarmVars, audit, faults>>
  BY <1>2, AnswerInductive DEF Inductive, TypeOK, Answers
<1>3. ASSUME NEW n \in Names, NEW body \in Bodies(n), Write(r, body[1], body[2]),
             UNCHANGED <<swarmVars, audit>>,
             \/ /\ Goto(r, "Log")
                /\ loc' = [loc EXCEPT ![r].svc = [id |-> r, name |-> body[1], spec |-> saves + 1]]
                /\ UNCHANGED faults
             \/ Fault /\ Answer(r, "failed")
      PROVE  Inductive'
  <2>. DEFINE s == [id |-> r, name |-> body[1], spec |-> saves + 1]
              l == [loc[r] EXCEPT !.svc = s]
  <2>1. body[1] \in Names /\ body[2] \in BOOLEAN  BY BodyType
  <2>2. s \in Snapshot /\ s.id = r
    BY <1>0, <2>1 DEF Inductive, TypeOK, Snapshot
  <2>3. l \in Locals /\ l.svc = s /\ l.op = loc[r].op
    <3>. HIDE DEF s
    <3>. QED  BY <1>0, <2>2 DEF Locals
  <2>4. \/ /\ pc' = [pc EXCEPT ![r] = "Log"] /\ loc' = [loc EXCEPT ![r] = l]
           /\ faults' = faults
        \/ /\ pc' = [pc EXCEPT ![r] = "failed"] /\ loc' = [loc EXCEPT ![r] = Blank]
           /\ faults' = faults + 1
    BY <1>3 DEF Goto, Answer, Fault, Inductive, TypeOK
  <2>. HIDE DEF l, s
  <2>5. /\ pc' \in [Requests -> {"idle"} \cup Calls \cup Answers]
        /\ loc' \in [Requests -> Locals] /\ faults' \in Nat
        /\ \A q \in Requests \ {r} : pc'[q] = pc[q] /\ loc'[q] = loc[q]
        /\ \/ pc'[r] = "Log" /\ loc'[r] = l
           \/ pc'[r] = "failed" /\ loc'[r] = Blank
        /\ l.svc # NoRow
    BY <2>2, <2>3, <2>4, BlankLocals DEF Inductive, TypeOK, Calls, Answers
  <2>6. TypeOK'
    BY <1>0, <1>3, <2>1, <2>5, WriteType DEF Inductive, TypeOK, swarmVars
  <2>7. SavedRows'
    BY <1>0, <1>3, <2>1, <2>5, WriteSaved DEF HoldsRow
  <2>8. VersionLock'
    BY <1>3, <2>5 DEF Inductive, VersionLock, swarmVars
  <2>9. \A j \in Ids : j # r => rows'[j] = rows[j]
    BY <1>3 DEF Write, Inductive, TypeOK
  <2>10. DeletedRows'
    BY <1>0, <2>3, <2>5, <2>9 DEF Inductive, SavedRows, DeletedRows, Blank
  <2>11. FreshIds'
    <3>. SUFFICES ASSUME NEW p \in Requests, pc'[p] \in {"idle", "Insert"}
                  PROVE  /\ rows'[p] = NoRow /\ loc'[p].svc = NoRow
                         /\ \A q \in Requests : loc'[q].svc # NoRow => loc'[q].svc.id # p
                         /\ \A e \in audit : ~(/\ e.action = "delete" /\ e.state = "SUCCESS"
                                                /\ e.target = p)
      BY <1>3 DEF FreshIds
    <3>1. p # r /\ pc[p] \in {"idle", "Insert"} /\ loc'[p] = loc[p]  BY <2>5
    <3>2. rows'[p] = rows[p]  BY <2>9, <3>1 DEF Ids
    <3>3. \A q \in Requests : loc[q].svc # NoRow => loc[q].svc.id # p
      BY <3>1 DEF Inductive, FreshIds
    <3>4. \A q \in Requests : loc'[q].svc # NoRow => loc'[q].svc.id # p
      BY <2>2, <2>3, <2>5, <3>1, <3>3 DEF Blank
    <3>. QED  BY <3>1, <3>2, <3>4 DEF Inductive, FreshIds
  <2>12. DeletedStayDeleted'
    BY <1>0, <1>3, <2>9 DEF Inductive, DeletedStayDeleted
  <2>. QED  BY <2>6, <2>7, <2>8, <2>10, <2>11, <2>12 DEF Inductive
<1>. QED  BY <1>1, <1>2, <1>3 DEF Insert

(* A deployment gives the service the next version.                         *)
LEMMA DeployInductive ==
  ASSUME Inductive, NEW r \in Requests, pc[r] \in {"ServiceCreate", "ServiceUpdate"},
         NEW service \in Service, service.version = index + 1,
         Deploy(r, service), Outcome(r, "Log"), UNCHANGED <<dbVars, running, audit>>
  PROVE  Inductive'
<1>. DEFINE n == loc[r].svc.name
<1>0. n \in Names /\ loc[r].op # "delete"
  BY DEF Inductive, TypeOK, SavedRows, DeletedRows, HoldsRow, Locals, Snapshot
<1>1. /\ \A q \in Requests \ {r} : pc'[q] = pc[q] /\ loc'[q] = loc[q]
      /\ \/ pc'[r] = "Log" /\ loc'[r] = loc[r]
         \/ pc'[r] = "failed" /\ loc'[r] = Blank
  BY OutcomeFootprint DEF Inductive
<1>2. /\ index' = index + 1
      /\ swarm'[n] = service /\ swarm' \in [Names -> Service \cup {NoSvc}]
      /\ \A m \in Names \ {n} : swarm'[m] = swarm[m]
  BY <1>0 DEF Deploy, Inductive, TypeOK
<1>3. TypeOK'
  BY <1>2, OutcomeFootprint DEF Inductive, TypeOK, dbVars
<1>4. SavedRows'
  BY <1>1 DEF Inductive, SavedRows, HoldsRow, dbVars
<1>5. VersionLock'
  <2>1. \A m \in Names : swarm'[m] # NoSvc => swarm'[m].version <= index'
    BY <1>0, <1>2 DEF Inductive, TypeOK, VersionLock, Service
  <2>2. ASSUME NEW q \in Requests, pc'[q] = "ServiceUpdate"
        PROVE  /\ loc'[q].old # NoSvc /\ loc'[q].old.version <= index'
               /\ \/ swarm'[loc'[q].svc.name] = NoSvc
                  \/ swarm'[loc'[q].svc.name].version # loc'[q].old.version
                  \/ swarm'[loc'[q].svc.name] = loc'[q].old
    <3>1. pc[q] = "ServiceUpdate" /\ loc'[q] = loc[q]
      BY <1>1, <2>2
    <3>2. /\ loc[q].old \in Service /\ loc[q].svc.name \in Names
          /\ loc[q].old # NoSvc /\ loc[q].old.version <= index
      BY <3>1 DEF Inductive, TypeOK, VersionLock, SavedRows, HoldsRow, Locals, Snapshot
    <3>3. loc[q].old.version \in Nat /\ index \in Nat
      BY <3>2 DEF Service, Inductive, TypeOK
    <3>4. CASE loc[q].svc.name = n
      BY <1>2, <3>1, <3>2, <3>3, <3>4
    <3>5. CASE loc[q].svc.name # n
      BY <1>2, <3>1, <3>2, <3>3, <3>5 DEF Inductive, VersionLock
    <3>. QED  BY <3>4, <3>5
  <2>. QED  BY <2>1, <2>2 DEF VersionLock
<1>6. DeletedRows' /\ FreshIds' /\ DeletedStayDeleted'
  BY <1>0, <1>1 DEF Inductive, DeletedRows, FreshIds, DeletedStayDeleted, Blank, dbVars
<1>. QED  BY <1>3, <1>4, <1>5, <1>6 DEF Inductive

LEMMA NetworksType ==
  ASSUME Inductive, NEW r \in Requests PROVE loc[r].networks \in BOOLEAN
<1>1. loc[r] \in Locals  BY DEF Inductive, TypeOK
<1>. QED  BY <1>1, Zenon DEF Locals

(* The service a redeploy is about to create or update is well formed.      *)
LEMMA DeployedType ==
  ASSUME Inductive, NEW r \in Requests, pc[r] \in {"ServiceCreate", "ServiceUpdate"},
         NEW id \in Nat, NEW force \in Nat
  PROVE  /\ Deployed(r, id, force) \in Service
         /\ Deployed(r, id, force).version = index + 1
<1>1. loc[r].svc.spec \in Nat
  BY DEF Inductive, TypeOK, SavedRows, HoldsRow, Locals, Snapshot
<1>2. index + 1 \in Nat
  BY DEF Inductive, TypeOK
<1>3. loc[r].networks \in BOOLEAN
  BY NetworksType
<1>4. \A v, s \in Nat, w \in BOOLEAN :
        [id |-> id, version |-> v, force |-> force, spec |-> s, networks |-> w] \in Service
  BY DEF Service
<1>. QED  BY <1>1, <1>2, <1>3, <1>4, Zenon DEF Deployed

LEMMA ServiceCreateInductive ==
  ASSUME Inductive, NEW r \in Requests, ServiceCreate(r) PROVE Inductive'
<1>1. CASE Fails(r)  BY <1>1, FailsInductive
<1>2. CASE Answer(r, "failed") /\ UNCHANGED <<dbVars, swarmVars, audit, faults>>
  BY <1>2, AnswerInductive DEF Inductive, TypeOK, Answers
<1>3. CASE /\ Deploy(r, Deployed(r, index + 1, 0)) /\ Outcome(r, "Log")
           /\ UNCHANGED <<dbVars, running, audit>>
  <2>1. index + 1 \in Nat /\ pc[r] = "ServiceCreate"
    BY DEF ServiceCreate, Inductive, TypeOK
  <2>. QED  BY <1>3, <2>1, DeployedType, DeployInductive
<1>. QED  BY <1>1, <1>2, <1>3 DEF ServiceCreate

LEMMA ServiceUpdateInductive ==
  ASSUME Inductive, NEW r \in Requests, ServiceUpdate(r) PROVE Inductive'
<1>1. CASE Fails(r)  BY <1>1, FailsInductive
<1>2. CASE Answer(r, "failed") /\ UNCHANGED <<dbVars, swarmVars, audit, faults>>
  BY <1>2, AnswerInductive DEF Inductive, TypeOK, Answers
<1>3. CASE /\ Deploy(r, Deployed(r, loc[r].old.id, loc[r].old.force + 1)) /\ Outcome(r, "Log")
           /\ UNCHANGED <<dbVars, running, audit>>
  <2>1. pc[r] = "ServiceUpdate" /\ loc[r].old \in Service
    BY DEF ServiceUpdate, Inductive, TypeOK, VersionLock, Locals
  <2>2. loc[r].old.id \in Nat /\ loc[r].old.force + 1 \in Nat
    BY <2>1 DEF Service
  <2>. QED  BY <1>3, <2>1, <2>2, DeployedType, DeployInductive
<1>. QED  BY <1>1, <1>2, <1>3 DEF ServiceUpdate

LEMMA ServiceRemoveInductive ==
  ASSUME Inductive, NEW r \in Requests, ServiceRemove(r) PROVE Inductive'
<1>. DEFINE n == loc[r].svc.name
<1>0. /\ n \in Names /\ loc[r].svc # NoRow /\ pc[r] = "ServiceRemove"
      /\ <<loc[r].svc.name, loc[r].svc.spec>> \in saved
      /\ UNCHANGED dbVars /\ UNCHANGED <<index, audit>>
  BY DEF ServiceRemove, Fails, Inductive, TypeOK, SavedRows, HoldsRow, Locals, Snapshot, swarmVars
<1>1. CASE Fails(r)  BY <1>1, FailsInductive
<1>2. CASE ~Fails(r)
  <2>1. /\ \/ swarm' = swarm /\ running' = running
           \/ swarm' = [swarm EXCEPT ![n] = NoSvc] /\ running' \in SUBSET running
        /\ \/ faults' = faults
           \/ Fault
        /\ \/ /\ loc' = loc /\ pc' = [pc EXCEPT ![r] = AfterRemove(r)]
           \/ /\ loc' = loc /\ pc' = [pc EXCEPT ![r] = "LogFailure"]
           \/ Answer(r, "failed")
    BY <1>2 DEF ServiceRemove, AfterRemove, Goto, swarmVars
  <2>2. /\ swarm' \in [Names -> Service \cup {NoSvc}] /\ running' \in SUBSET Nat
        /\ faults' \in Nat
        /\ \A m \in Names : swarm'[m] \in {swarm[m], NoSvc}
    <3>1. running' \in SUBSET Nat
      <4>1. running \in SUBSET Nat  BY DEF Inductive, TypeOK
      <4>2. running' \subseteq running  BY <2>1
      <4>. QED  BY <4>1, <4>2
    <3>4. faults' \in Nat
      BY <2>1 DEF Inductive, TypeOK, Fault
    <3>2. CASE swarm' = swarm
      BY <3>1, <3>2, <3>4 DEF Inductive, TypeOK
    <3>3. CASE swarm' = [swarm EXCEPT ![n] = NoSvc]
      BY <1>0, <3>1, <3>3, <3>4 DEF Inductive, TypeOK
    <3>. QED  BY <2>1, <3>2, <3>3, <3>4
  <2>3. /\ \A q \in Requests \ {r} : pc'[q] = pc[q] /\ loc'[q] = loc[q]
        /\ \/ pc'[r] = AfterRemove(r) /\ loc'[r] = loc[r]
           \/ pc'[r] = "LogFailure" /\ loc'[r] = loc[r]
           \/ pc'[r] = "failed" /\ loc'[r] = Blank
        /\ pc' \in [Requests -> {"idle"} \cup Calls \cup Answers]
        /\ loc' \in [Requests -> Locals]
    <3>1. AfterRemove(r) \in Calls /\ "LogFailure" \in Calls /\ "failed" \in Answers
      BY DEF AfterRemove, Calls, Answers
    <3>2. CASE Answer(r, "failed")
      BY <3>1, <3>2, BlankLocals DEF Answer, Goto, Inductive, TypeOK
    <3>3. CASE ~Answer(r, "failed")
      BY <2>1, <3>1, <3>3 DEF Inductive, TypeOK
    <3>. QED  BY <3>2, <3>3
  <2>4. TypeOK'
    BY <1>0, <2>2, <2>3 DEF Inductive, TypeOK, dbVars
  <2>5. SavedRows'
    BY <1>0, <2>3 DEF Inductive, SavedRows, HoldsRow, dbVars
  <2>6. VersionLock'
    <3>1. \A m \in Names : swarm'[m] # NoSvc => swarm'[m].version <= index'
      BY <1>0, <2>2 DEF Inductive, VersionLock
    <3>2. ASSUME NEW q \in Requests, pc'[q] = "ServiceUpdate"
          PROVE  /\ loc'[q].old # NoSvc /\ loc'[q].old.version <= index'
                 /\ \/ swarm'[loc'[q].svc.name] = NoSvc
                    \/ swarm'[loc'[q].svc.name].version # loc'[q].old.version
                    \/ swarm'[loc'[q].svc.name] = loc'[q].old
      <4>1. pc[q] = "ServiceUpdate" /\ loc'[q] = loc[q]
        BY <2>3, <3>2 DEF AfterRemove
      <4>2. loc[q].svc.name \in Names
        BY <4>1 DEF Inductive, TypeOK, SavedRows, HoldsRow, Locals, Snapshot
      <4>. QED  BY <1>0, <2>2, <4>1, <4>2 DEF Inductive, VersionLock
    <3>. QED  BY <3>1, <3>2 DEF VersionLock
  <2>7. DeletedRows'
    BY <1>0, <2>3 DEF Inductive, DeletedRows, Blank, AfterRemove, dbVars
  <2>8. FreshIds' /\ DeletedStayDeleted'
    BY <1>0, <2>3 DEF Inductive, FreshIds, DeletedStayDeleted, Blank, AfterRemove, dbVars
  <2>. QED  BY <2>4, <2>5, <2>6, <2>7, <2>8 DEF Inductive
<1>. QED  BY <1>1, <1>2

LEMMA DeleteInductive ==
  ASSUME Inductive, NEW r \in Requests, Delete(r) PROVE Inductive'
<1>. DEFINE i == loc[r].svc.id
<1>0. i \in Ids /\ loc[r].svc # NoRow /\ pc[r] = "Delete"
  BY DEF Delete, Inductive, TypeOK, SavedRows, HoldsRow, Locals, Snapshot
<1>1. CASE Fails(r)  BY <1>1, FailsInductive
<1>2. CASE ~Fails(r)
  <2>1. /\ rows' = [rows EXCEPT ![i] = NoRow] /\ Outcome(r, "Log")
        /\ UNCHANGED <<saves, saved, swarmVars, audit>>
    BY <1>2 DEF Delete
  <2>2. /\ rows' \in [Ids -> Row \cup {NoRow}] /\ rows'[i] = NoRow
        /\ \A j \in Ids : rows'[j] \in {rows[j], NoRow}
    BY <1>0, <2>1 DEF Inductive, TypeOK
  <2>3. /\ \A q \in Requests \ {r} : pc'[q] = pc[q] /\ loc'[q] = loc[q]
        /\ \/ pc'[r] = "Log" /\ loc'[r] = loc[r]
           \/ pc'[r] = "failed" /\ loc'[r] = Blank
    BY <2>1, OutcomeFootprint DEF Inductive
  <2>4. TypeOK'
    BY <2>1, <2>2, OutcomeFootprint DEF Inductive, TypeOK, swarmVars
  <2>5. SavedRows'
    BY <1>0, <2>1, <2>2, <2>3 DEF Inductive, SavedRows, HoldsRow
  <2>6. VersionLock'
    BY <2>1, <2>3 DEF Inductive, VersionLock, swarmVars
  <2>7. DeletedRows'
    BY <1>0, <2>2, <2>3 DEF Inductive, DeletedRows, Blank
  <2>8. FreshIds' /\ DeletedStayDeleted'
    BY <1>0, <2>1, <2>2, <2>3 DEF Inductive, FreshIds, DeletedStayDeleted, Blank, Ids
  <2>. QED  BY <2>4, <2>5, <2>6, <2>7, <2>8 DEF Inductive
<1>. QED  BY <1>1, <1>2

LEMMA LogInductive ==
  ASSUME Inductive, NEW r \in Requests, Log(r) PROVE Inductive'
<1>. DEFINE state == IF pc[r] = "Log" THEN "SUCCESS" ELSE "FAILED"
            a == IF pc[r] = "Log" THEN "200" ELSE "failed"
            e == Event(r, state)
<1>1. /\ pc[r] \in {"Log", "LogFailure"} /\ loc[r] \in Locals /\ loc[r].svc # NoRow
      /\ UNCHANGED <<dbVars, swarmVars>> /\ Answer(r, a) /\ a \in Answers
      /\ faults' \in Nat
  BY DEF Log, Fault, Inductive, TypeOK, SavedRows, Answers
<1>2. CASE audit' = audit
  BY <1>1, <1>2, AnswerInductive
<1>3. CASE audit' # audit
  <2>1. audit' = audit \cup {e}
    BY <1>3 DEF Log
  <2>2. e \in Events /\ e.action = loc[r].op /\ e.state = state
        /\ (loc[r].op = "delete" => e.target = loc[r].key)
    BY <1>1 DEF Event, Events, Locals, Snapshot
  <2>. HIDE DEF e
  <2>3. /\ \A q \in Requests \ {r} : pc'[q] = pc[q] /\ loc'[q] = loc[q]
        /\ pc'[r] = a /\ loc'[r] = Blank
        /\ pc' \in [Requests -> {"idle"} \cup Calls \cup Answers]
        /\ loc' \in [Requests -> Locals]
    BY <1>1, BlankLocals DEF Answer, Goto, Inductive, TypeOK
  <2>4. TypeOK'
    BY <1>1, <2>1, <2>2, <2>3 DEF Inductive, TypeOK, dbVars, swarmVars
  <2>5. SavedRows' /\ VersionLock'
    BY <1>1, <2>3 DEF Inductive, SavedRows, VersionLock, HoldsRow, dbVars, swarmVars
  <2>6. DeletedRows'
    BY <1>1, <2>3 DEF Inductive, DeletedRows, Blank, dbVars
  <2>7. e.action = "delete" /\ e.state = "SUCCESS" /\ e.target \in Ids
          => /\ rows[e.target] = NoRow /\ loc[r].svc.id = e.target
    BY <1>1, <2>2 DEF Inductive, DeletedRows
  <2>8. DeletedStayDeleted'
    BY <1>1, <2>1, <2>7 DEF Inductive, DeletedStayDeleted, dbVars
  <2>9. FreshIds'
    BY <1>1, <2>1, <2>3, <2>7 DEF Inductive, FreshIds, Blank, Ids, dbVars
  <2>. QED  BY <2>4, <2>5, <2>6, <2>8, <2>9 DEF Inductive
<1>. QED  BY <1>2, <1>3

LEMMA CrashInductive ==
  ASSUME Inductive, Crash PROVE Inductive'
<1>1. \A q \in Requests : \/ pc'[q] = pc[q] /\ loc'[q] = loc[q]
                          \/ pc'[q] = "lost" /\ loc'[q] = Blank
  BY DEF Crash
<1>2. /\ pc' \in [Requests -> {"idle"} \cup Calls \cup Answers]
      /\ loc' \in [Requests -> Locals] /\ faults' \in Nat
      /\ UNCHANGED <<dbVars, swarmVars>> /\ audit' = audit
  BY BlankLocals DEF Crash, Fault, Inductive, TypeOK, Answers
<1>3. TypeOK'
  BY <1>2 DEF Inductive, TypeOK, dbVars, swarmVars
<1>4. SavedRows' /\ VersionLock'
  BY <1>1, <1>2 DEF Inductive, SavedRows, VersionLock, HoldsRow, dbVars, swarmVars
<1>5. DeletedRows'
  BY <1>1, <1>2 DEF Inductive, DeletedRows, Blank, dbVars
<1>6. FreshIds' /\ DeletedStayDeleted'
  BY <1>1, <1>2 DEF Inductive, FreshIds, DeletedStayDeleted, Blank, dbVars
<1>. QED  BY <1>3, <1>4, <1>5, <1>6 DEF Inductive

LEMMA TasksChangeInductive ==
  ASSUME Inductive, NEW n \in Names, TasksChange(n) PROVE Inductive'
<1>1. TypeOK'
  BY DEF TasksChange, Inductive, TypeOK, Service, dbVars
<1>2. SavedRows' /\ VersionLock' /\ DeletedRows' /\ FreshIds' /\ DeletedStayDeleted'
  BY DEF TasksChange, Inductive, SavedRows, VersionLock, DeletedRows, FreshIds,
         DeletedStayDeleted, dbVars
<1>. QED  BY <1>1, <1>2 DEF Inductive

LEMMA NextInductive == Inductive /\ [Next]_vars => Inductive'
<1>. SUFFICES ASSUME Inductive, [Next]_vars PROVE Inductive'
  OBVIOUS
<1>1. CASE UNCHANGED vars
  BY <1>1 DEF vars, dbVars, swarmVars, Inductive, TypeOK, SavedRows, VersionLock,
              DeletedRows, FreshIds, DeletedStayDeleted
<1>2. CASE Next
  BY <1>2, StartInductive, FindOneInductive, ServiceListInductive, TaskListInductive,
     InsertInductive, UpdateInductive, ListsInductive, InspectInductive,
     ServiceCreateInductive, ServiceUpdateInductive, ServiceRemoveInductive,
     DeleteInductive, LogInductive, CrashInductive, TasksChangeInductive
  DEF Next
<1>. QED  BY <1>1, <1>2

(* The invariant itself, which the run also checks on its instance: what the *)
(* types and the deletion rest on, version locks and saved rows included.    *)
THEOREM InductiveAlways == Spec => []Inductive
  BY InitInductive, NextInductive, PTL DEF Spec

(* The rows, locals, swarm and audit log always have their types.           *)
THEOREM TypeCorrect == Spec => []TypeOK
<1>1. Inductive => TypeOK  BY DEF Inductive
<1>. QED  BY <1>1, InitInductive, NextInductive, PTL DEF Spec

(* No save brings a row back whose deletion was audited.                    *)
THEOREM DeletionIsFinal == Spec => []DeletedStayDeleted
<1>1. Inductive => DeletedStayDeleted  BY DEF Inductive
<1>. QED  BY <1>1, InitInductive, NextInductive, PTL DEF Spec

-----------------------------------------------------------------------------
(* ServiceManager implements Deployment *)

LEMMA InitRefines == Init => D!Init
  BY DEF Init, D!Init

LEMMA WriteRefines ==
  ASSUME NEW i \in Ids, NEW n \in Names, NEW h \in BOOLEAN, Write(i, n, h),
         UNCHANGED swarmVars
  PROVE  D!Next
<1>1. D!Save(n)  BY DEF Write, D!Save, swarmVars
<1>. QED  BY <1>1 DEF D!Next

LEMMA InsertRefines ==
  ASSUME NEW r \in Requests, Insert(r) PROVE D!Next \/ UNCHANGED D!vars
<1>1. CASE \E n \in Names : \E body \in Bodies(n) :
             Write(r, body[1], body[2]) /\ UNCHANGED swarmVars
  BY <1>1, BodyType, WriteRefines DEF Ids
<1>2. CASE UNCHANGED <<dbVars, swarmVars>>
  BY <1>2 DEF D!vars, dbVars, swarmVars
<1>. QED  BY <1>1, <1>2 DEF Insert, Fails

LEMMA UpdateRefines ==
  ASSUME Inductive, NEW r \in Requests, Update(r) PROVE D!Next \/ UNCHANGED D!vars
<1>1. loc[r].svc.id \in Ids /\ loc[r].svc.name \in Names
  BY DEF Update, Inductive, TypeOK, SavedRows, HoldsRow, Locals, Snapshot
<1>2. CASE \E body \in Bodies(loc[r].svc.name) :
             Write(loc[r].svc.id, body[1], body[2]) /\ UNCHANGED swarmVars
  BY <1>1, <1>2, BodyType, WriteRefines
<1>3. CASE UNCHANGED <<dbVars, swarmVars>>
  BY <1>3 DEF D!vars, dbVars, swarmVars
<1>. QED  BY <1>2, <1>3 DEF Update, Fails

(* The specification a request deploys was saved under the name. *)
LEMMA HeldSpec ==
  ASSUME Inductive, NEW r \in Requests, pc[r] \in HoldsRow
  PROVE  /\ loc[r].svc.name \in Names
         /\ loc[r].svc.spec \in {t \in 1..saves : <<loc[r].svc.name, t>> \in saved}
<1>1. /\ loc[r].svc \in Snapshot
      /\ <<loc[r].svc.name, loc[r].svc.spec>> \in saved
  BY DEF Inductive, TypeOK, SavedRows, Locals
<1>2. loc[r].svc.spec \in 1..saves
  BY <1>1 DEF Inductive, SavedRows
<1>. QED  BY <1>1, <1>2 DEF Snapshot

LEMMA ServiceCreateRefines ==
  ASSUME Inductive, NEW r \in Requests, ServiceCreate(r) PROVE D!Next \/ UNCHANGED D!vars
<1>. DEFINE n == loc[r].svc.name
<1>1. CASE CreateAccepted(r) /\ Deploy(r, Deployed(r, index + 1, 0)) /\ UNCHANGED dbVars
  <2>1. /\ n \in Names
        /\ loc[r].svc.spec \in {t \in 1..saves : <<n, t>> \in saved}
    BY HeldSpec DEF ServiceCreate, HoldsRow
  <2>2. D!Create(n)
    <3>1. loc[r].networks \in BOOLEAN  BY NetworksType
    <3>2. /\ swarm[n] = NoSvc /\ index' = index + 1 /\ UNCHANGED <<saves, saved>>
          /\ swarm' = [swarm EXCEPT ![n] =
                [id |-> index + 1, version |-> index + 1, force |-> 0,
                 spec |-> loc[r].svc.spec, networks |-> loc[r].networks]]
      BY <1>1 DEF CreateAccepted, Deploy, Deployed, dbVars
    <3>. QED  BY <2>1, <3>1, <3>2, Zenon DEF D!Create
  <2>. QED  BY <2>1, <2>2 DEF D!Next
<1>2. CASE UNCHANGED <<dbVars, swarmVars>>
  BY <1>2 DEF D!vars, dbVars, swarmVars
<1>. QED  BY <1>1, <1>2 DEF ServiceCreate, Fails

(* The version check makes the read of Inspect and the write of             *)
(* ServiceUpdate one step: what was inspected is still there.               *)
LEMMA ServiceUpdateRefines ==
  ASSUME Inductive, NEW r \in Requests, ServiceUpdate(r) PROVE D!Next \/ UNCHANGED D!vars
<1>. DEFINE n == loc[r].svc.name
<1>1. CASE UpdateAccepted(r) /\ UNCHANGED dbVars
           /\ Deploy(r, Deployed(r, loc[r].old.id, loc[r].old.force + 1))
  <2>1. /\ n \in Names
        /\ loc[r].svc.spec \in {t \in 1..saves : <<n, t>> \in saved}
    BY HeldSpec DEF ServiceUpdate, HoldsRow
  <2>2. swarm[n] = loc[r].old /\ swarm[n] # NoSvc
    BY <1>1 DEF UpdateAccepted, ServiceUpdate, Inductive, VersionLock
  <2>3. D!Redeploy(n)
    <3>1. loc[r].networks \in BOOLEAN  BY NetworksType
    <3>2. /\ swarm[n] # NoSvc /\ index' = index + 1 /\ UNCHANGED <<saves, saved>>
          /\ swarm' = [swarm EXCEPT ![n] =
                [id |-> swarm[n].id, version |-> index + 1, force |-> swarm[n].force + 1,
                 spec |-> loc[r].svc.spec, networks |-> loc[r].networks]]
      BY <1>1, <2>2 DEF Deploy, Deployed, dbVars
    <3>. QED  BY <2>1, <3>1, <3>2, Zenon DEF D!Redeploy
  <2>. QED  BY <2>1, <2>3 DEF D!Next
<1>2. CASE UNCHANGED <<dbVars, swarmVars>>
  BY <1>2 DEF D!vars, dbVars, swarmVars
<1>. QED  BY <1>1, <1>2 DEF ServiceUpdate, Fails

LEMMA ServiceRemoveRefines ==
  ASSUME Inductive, NEW r \in Requests, ServiceRemove(r) PROVE D!Next \/ UNCHANGED D!vars
<1>. DEFINE n == loc[r].svc.name
<1>1. CASE /\ swarm[n] # NoSvc /\ swarm' = [swarm EXCEPT ![n] = NoSvc]
           /\ UNCHANGED <<dbVars, index>>
  <2>1. n \in Names
    BY HeldSpec DEF ServiceRemove, HoldsRow
  <2>2. D!Remove(n)
    BY <1>1 DEF D!Remove, dbVars
  <2>. QED  BY <2>1, <2>2 DEF D!Next
<1>2. CASE UNCHANGED <<dbVars, swarmVars>>
  BY <1>2 DEF D!vars, dbVars, swarmVars
<1>. QED  BY <1>1, <1>2 DEF ServiceRemove, Fails

LEMMA StepRefines == Inductive /\ [Next]_vars => [D!Next]_(D!vars)
<1>. SUFFICES ASSUME Inductive, [Next]_vars PROVE D!Next \/ UNCHANGED D!vars
  OBVIOUS
<1>1. CASE UNCHANGED vars
  BY <1>1 DEF vars, dbVars, swarmVars, D!vars
<1>2. CASE Crash \/ \E n \in Names : TasksChange(n)
  BY <1>2 DEF Crash, TasksChange, D!vars, dbVars, swarmVars
<1>3. ASSUME NEW r \in Requests,
             Start(r) \/ FindOne(r) \/ ServiceList(r) \/ TaskList(r) \/ Lists(r)
               \/ Inspect(r) \/ Delete(r) \/ Log(r)
      PROVE  UNCHANGED D!vars
  BY <1>3 DEF Start, FindOne, ServiceList, TaskList, Lists, Inspect, Delete, Log, Fails,
              D!vars, dbVars, swarmVars
<1>. QED  BY <1>1, <1>2, <1>3, InsertRefines, UpdateRefines, ServiceCreateRefines,
             ServiceUpdateRefines, ServiceRemoveRefines DEF Next

(* Redeploys that read and write in separate calls, and overlap, implement  *)
(* the indivisible ones of Deployment.                                      *)
THEOREM Refinement == Spec => ImplementsDeployment
  BY InitInductive, NextInductive, InitRefines, StepRefines, PTL
  DEF Spec, ImplementsDeployment, D!Spec
=============================================================================
