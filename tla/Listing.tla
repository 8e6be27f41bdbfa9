-------------------------------- MODULE Listing --------------------------------
(***************************************************************************)
(* The list endpoints that filter by the roles of the token (abb/           *)
(* endpoints.go): clusters, services and configs, and configGet.  The       *)
(* nested loops over roles, rules, resources, resource names and verbs      *)
(* visit one entry after the other; the order of entries and of the listed  *)
(* items is left out, so the list counts how often it holds each item.      *)
(***************************************************************************)
EXTENDS Naturals, FiniteSets

CONSTANTS
    Names,       \* names of clusters, services or configs
    Slots,       \* the places of the token that hold an entry
    NoRole,      \* a null among the roles of the token
    All,         \* the "*" of a rule
    PageSizes    \* values of the query parameter per_page

ASSUME AllAssumption == All \notin Names /\ IsFiniteSet(Names) /\ IsFiniteSet(Slots)
ASSUME PageAssumption == PageSizes \subseteq Nat

Ops == {"clusters", "services", "configs", "config"}

(* The resource and the verb an operation asks for.                         *)
Resource == [clusters |-> "clusters", services |-> "services",
             configs |-> "configs", config |-> "configs"]
Verb(op) == IF op = "config" THEN "get" ELSE "list"

(* One combination of a rule's namespace, resource, resource name and verb; *)
(* "here" is the cluster of the request, "there" another one.               *)
Entries == [namespace : {"", "*", "here", "there"},
            resource : {"*", "clusters", "services", "configs"},
            name : Names \cup {All}, verb : {"*", "list", "get"}]

VARIABLES
    op,       \* the operation
    rows,     \* what the table or the swarm holds
    roles,    \* the entry in each place of the token
    items,    \* what the endpoint read
    todo,     \* the places that are not visited yet
    isValid,  \* whether an entry grants the operation
    listed,   \* how often each item is in the result
    total,    \* the length of the result
    query,    \* per_page of the request, 0 until it is read
    pages,    \* TotalPage of the answer
    faulty,   \* whether the read failed
    pc        \* what the endpoint does next, or its answer

inputs == <<op, rows, roles>>
filterVars == <<todo, isValid, listed, total>>
answerVars == <<query, pages>>
vars == <<inputs, items, filterVars, answerVars, faulty, pc>>

Init ==
    /\ op \in Ops /\ rows \in SUBSET Names
    /\ roles \in [Slots -> Entries \cup {NoRole}]
    /\ items = {} /\ todo = Slots /\ isValid = FALSE
    /\ listed = [n \in Names |-> 0] /\ total = 0 /\ query = 0 /\ pages = 0 /\ faulty = FALSE
    /\ pc = IF op \in {"clusters", "services"} THEN "read" ELSE "filter"

(* Slips the runs must catch: an item is added again for every entry that   *)
(* names it; the last page is not counted; a rule for one cluster is taken  *)
(* for the list of clusters.                                                *)
AddedAgain(e) == {n \in items : e.name \in {All, n}}
TotalPagesRoundedDown(count, perPage) == count \div perPage
AppliesAnywhere(e) == e.resource \in {"*", Resource[op]} /\ e.verb \in {"*", Verb(op)}

(* Whether a rule is about the operation.  Clusters are in no namespace.    *)
Applies(e) ==
    /\ e.namespace \in (IF op = "clusters" THEN {"", "*"} ELSE {"*", "here"})
    /\ e.resource \in {"*", Resource[op]}
    /\ e.verb \in {"*", Verb(op)}

(* The items an entry adds: those it names that were not found before.      *)
Added(e) == {n \in items : e.name \in {All, n} /\ listed[n] = 0}

(* The endpoints of configs check the permission and then read; a failed    *)
(* SELECT of services is logged and reads as an empty table.                *)
Read ==
    /\ pc = "read"
    /\ \/ /\ items' = rows
          /\ pc' = IF op \in {"clusters", "services"} THEN "filter" ELSE "respond"
          /\ UNCHANGED faulty
       \/ /\ op = "services" /\ faulty' = TRUE
          /\ items' = {} /\ pc' = "filter"
       \/ faulty' = TRUE /\ pc' = "500" /\ UNCHANGED items
    /\ UNCHANGED <<inputs, filterVars, answerVars>>

(* One round of the innermost loop.  A null role is dereferenced.           *)
Visit(s) ==
    /\ pc = "filter" /\ s \in todo
    /\ \/ /\ roles[s] = NoRole
          /\ pc' = "500"
          /\ UNCHANGED filterVars
       \/ /\ roles[s] # NoRole /\ Applies(roles[s])
          /\ todo' = todo \ {s} /\ isValid' = TRUE
          /\ listed' = [n \in Names |-> IF n \in Added(roles[s]) THEN listed[n] + 1
                                                                 ELSE listed[n]]
          /\ total' = total + Cardinality(Added(roles[s]))
          /\ UNCHANGED pc
       \/ /\ roles[s] # NoRole /\ ~Applies(roles[s])
          /\ todo' = todo \ {s}
          /\ UNCHANGED <<isValid, listed, total, pc>>
    /\ UNCHANGED <<inputs, items, answerVars, faulty>>

Decide ==
    /\ pc = "filter" /\ todo = {}
    /\ pc' = IF ~isValid THEN "403"
             ELSE IF op \in {"clusters", "services"} THEN "respond" ELSE "read"
    /\ UNCHANGED <<inputs, items, filterVars, answerVars, faulty>>

(* GetPaginationFromContext *)
PerPage(size) == IF size \in 1..100 THEN size ELSE 25

(* SetTotalCount *)
TotalPages(count, perPage) ==
    LET full == count \div perPage IN
    IF count > 0 /\ full = 0 THEN 1
    ELSE IF count % perPage > 0 THEN full + 1 ELSE full

(* The whole result is sent, whatever the page; configs are not filtered,   *)
(* and configGet has no pages.                                              *)
Respond ==
    /\ pc = "respond"
    /\ query' \in PageSizes
    /\ pages' = CASE op \in {"clusters", "services"} -> TotalPages(total, PerPage(query'))
                  [] op = "configs" -> TotalPages(Cardinality(items), PerPage(query'))
                  [] op = "config" -> 0
    /\ pc' = "200"
    /\ UNCHANGED <<inputs, items, filterVars, faulty>>

Next == Read \/ (\E s \in Slots : Visit(s)) \/ Decide \/ Respond

Spec == Init /\ [][Next]_vars

-----------------------------------------------------------------------------
(* Properties *)

(* Type invariant: what was read, and a result no longer than that.         *)
TypeOK ==
    /\ op \in Ops /\ rows \in SUBSET Names /\ roles \in [Slots -> Entries \cup {NoRole}]
    /\ items \in SUBSET Names /\ todo \in SUBSET Slots
    /\ isValid \in BOOLEAN /\ faulty \in BOOLEAN
    /\ listed \in [Names -> Nat] /\ total \in 0..Cardinality(items)
    /\ query \in PageSizes \cup {0} /\ pages \in Nat
    /\ pc \in {"read", "filter", "respond", "200", "403", "500"}

(* What the roles of a token are meant to allow, by quantifiers.            *)
Allows(e) ==
    /\ \/ e.namespace = "*"
       \/ op = "clusters" /\ e.namespace = ""
       \/ op # "clusters" /\ e.namespace = "here"
    /\ e.resource = "*" \/ e.resource = Resource[op]
    /\ e.verb = "*" \/ e.verb = Verb(op)

Allowed == {s \in Slots : roles[s] # NoRole /\ Allows(roles[s])}

(* However the entries of the token overlap, the answer holds each item     *)
(* that one of them allows exactly once and no other, it is a refusal only  *)
(* if none allows the operation, and only a null role or a failed read      *)
(* makes it fail (the loops of endpoints.go:507-536 and 1199-1228).         *)
ListExact ==
    /\ pc = "200" =>
          /\ Allowed # {}
          /\ faulty \/ items = rows
          /\ op \in {"clusters", "services"} => \A n \in Names :
                listed[n] = IF n \in items /\ \E s \in Allowed : roles[s].name \in {All, n}
                            THEN 1 ELSE 0
    /\ pc = "403" => Allowed = {}
    /\ pc = "500" => faulty \/ \E s \in Slots : roles[s] = NoRole

(* total_page of a list is the number of pages that hold all of it, at both *)
(* edges: an empty list, and a last page that is full (application.go:20-31). *)
PagesExact ==
    pc = "200" /\ op \in {"clusters", "services"} =>
       LET count == Cardinality({n \in Names : listed[n] > 0}) IN
       /\ count <= pages * PerPage(query)
       /\ pages > 0 => (pages - 1) * PerPage(query) < count

(* ListExact is inductive together with what has been found so far: the     *)
(* result is exact for the places that were visited.                        *)
Visited == Allowed \ todo

FoundSoFar ==
    /\ op \in Ops /\ roles \in [Slots -> Entries \cup {NoRole}]
    /\ rows \subseteq Names /\ items \subseteq Names /\ todo \subseteq Slots
    /\ isValid \in BOOLEAN /\ faulty \in BOOLEAN /\ listed \in [Names -> Nat]
    /\ isValid <=> Visited # {}
    /\ op \in {"clusters", "services"} =>
          /\ pc = "read" => todo = Slots /\ items = {}
          /\ pc = "filter" => faulty \/ items = rows
          /\ \A n \in Names :
                listed[n] = IF n \in items /\ \E s \in Visited : roles[s].name \in {All, n}
                            THEN 1 ELSE 0
    /\ op \notin {"clusters", "services"} /\ pc = "read" => todo = {} /\ isValid
    /\ pc \in {"respond", "200"} =>
          /\ todo = {} /\ isValid
          /\ faulty \/ items = rows
    /\ pc = "403" => todo = {} /\ ~isValid
    /\ pc = "500" => faulty \/ \E s \in Slots : roles[s] = NoRole
=============================================================================
