----------------------------- MODULE Deployment -----------------------------
(***************************************************************************)
(* What abb promises about the services of a swarm, with every redeploy    *)
(* taken as one indivisible step.  Users save service specifications; the  *)
(* swarm runs, under a name, one of the specifications saved for that      *)
(* name, attached to its networks or not: abb does not promise them; each  *)
(* redeploy of a running service raises ForceUpdate by exactly one, so that *)
(* no redeploy is swallowed by another.  ServiceManager, whose redeploys    *)
(* read the database and the swarm in separate calls, is shown to          *)
(* implement this module.                                                  *)
(***************************************************************************)
EXTENDS Naturals

CONSTANTS
    Names,   \* names of services
    NoSvc    \* no service runs under the name

VARIABLES
    saves,     \* how many saves were made; a specification is known by its number
    saved,     \* the pairs <<name, specification>> saved for this cluster
    deployed,  \* the service that runs under each name
    index      \* writes the swarm has accepted: the source of ids and versions

vars == <<saves, saved, deployed, index>>

Init ==
    \E n \in Names :
        /\ saves = 1
        /\ saved = {<<n, 1>>}
        /\ index = 1
        /\ \/ deployed = [m \in Names |-> NoSvc]
           \/ deployed = [m \in Names |->
                 IF m = n THEN [id |-> 1, version |-> 1, force |-> 0, spec |-> 1,
                                networks |-> TRUE]
                          ELSE NoSvc]

(* A specification is saved, for name n of this cluster or for another one. *)
Save(n) ==
    /\ saves' = saves + 1
    /\ saved' \in {saved, saved \cup {<<n, saves + 1>>}}
    /\ UNCHANGED <<deployed, index>>

Create(n) ==
    /\ deployed[n] = NoSvc
    /\ index' = index + 1
    /\ \E s \in {t \in 1..saves : <<n, t>> \in saved}, networks \in BOOLEAN :
          deployed' = [deployed EXCEPT ![n] =
              [id |-> index + 1, version |-> index + 1, force |-> 0, spec |-> s,
               networks |-> networks]]
    /\ UNCHANGED <<saves, saved>>

Redeploy(n) ==
    /\ deployed[n] # NoSvc
    /\ index' = index + 1
    /\ \E s \in {t \in 1..saves : <<n, t>> \in saved}, networks \in BOOLEAN :
          deployed' = [deployed EXCEPT ![n] =
              [id |-> deployed[n].id, version |-> index + 1,
               force |-> deployed[n].force + 1, spec |-> s,
               networks |-> networks]]
    /\ UNCHANGED <<saves, saved>>

Remove(n) ==
    /\ deployed[n] # NoSvc
    /\ deployed' = [deployed EXCEPT ![n] = NoSvc]
    /\ UNCHANGED <<saves, saved, index>>

Next == \E n \in Names : Save(n) \/ Create(n) \/ Redeploy(n) \/ Remove(n)

Spec == Init /\ [][Next]_vars
=============================================================================
