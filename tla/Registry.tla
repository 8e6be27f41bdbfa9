------------------------------ MODULE Registry ------------------------------
(***************************************************************************)
(* What abb promises about its services to whoever has it serve one request *)
(* at a time: the table of services and the swarm of Deployment change      *)
(* together.  Every service that runs has its row, a redeploy runs what the *)
(* row holds at that moment, but for networks that were not listed, and a   *)
(* row goes only when nothing runs under its name.                          *)
(***************************************************************************)
EXTENDS Deployment

CONSTANTS
    Ids,     \* identifiers of rows
    NoRow    \* no row has the identifier

VARIABLE rows  \* the table: id -> row or NoRow

Rows == {i \in Ids : rows[i] # NoRow}

RegistryInit ==
    /\ Init
    /\ \E i \in Ids, n \in Names :
          /\ <<n, 1>> \in saved
          /\ rows = [j \in Ids |->
                IF j = i THEN [name |-> n, here |-> TRUE, spec |-> 1] ELSE NoRow]

Insert(i) ==
    /\ i \notin Rows
    /\ \E n \in Names, here \in BOOLEAN :
          /\ \A j \in Rows : rows[j].name # n
          /\ Save(n)
          /\ rows' = [rows EXCEPT ![i] = [name |-> n, here |-> here, spec |-> saves']]

Rewrite(i) ==
    /\ i \in Rows
    /\ Save(rows[i].name)
    /\ \E here \in BOOLEAN :
          rows' = [rows EXCEPT ![i] = [name |-> rows[i].name, here |-> here, spec |-> saves']]

Deploy(i) ==
    LET n == rows[i].name IN
    /\ i \in Rows
    /\ Create(n) \/ Redeploy(n)
    /\ deployed'[n].spec = rows[i].spec
    /\ UNCHANGED rows

Stop(i) ==
    /\ i \in Rows
    /\ Remove(rows[i].name)
    /\ UNCHANGED rows

Delete(i) ==
    /\ i \in Rows
    /\ deployed[rows[i].name] = NoSvc
    /\ rows' = [rows EXCEPT ![i] = NoRow]
    /\ UNCHANGED vars

RegistryNext ==
    \E i \in Ids : Insert(i) \/ Rewrite(i) \/ Deploy(i) \/ Stop(i) \/ Delete(i)

RegistrySpec == RegistryInit /\ [][RegistryNext]_<<vars, rows>>
=============================================================================
