----------------------------- MODULE ListingProofs -----------------------------
(***************************************************************************)
(* Proofs about Listing.  The loop invariant FoundSoFar says of the places  *)
(* of the token that were visited what ListExact says of all of them.       *)
(***************************************************************************)
EXTENDS Listing, FiniteSetTheorems, TLAPS

(* The condition of the loops is the one the roles are meant to express.    *)
LEMMA AppliesAllows ==
    ASSUME op \in Ops, NEW e \in Entries
    PROVE  Applies(e) <=> Allows(e)
<1>1. op = "clusters" \/ (op # "clusters" /\ op \in Ops)
  OBVIOUS
<1>2. e.namespace \in {"", "*", "here", "there"}
  BY DEF Entries
<1> QED BY <1>1, <1>2 DEF Applies, Allows

LEMMA InitFound == Init => FoundSoFar
<1> SUFFICES ASSUME Init PROVE FoundSoFar
  OBVIOUS
<1>1. Visited = {}
  BY DEF Init, Visited, Allowed
<1>2. listed \in [Names -> Nat] /\ \A n \in Names : listed[n] = 0
  BY DEF Init
<1>3. pc \in {"read", "filter"} /\ (pc = "read" => op \in {"clusters", "services"})
      /\ (pc = "filter" => op \notin {"clusters", "services"})
  BY DEF Init
<1> QED BY <1>1, <1>2, <1>3 DEF Init, FoundSoFar

LEMMA ReadFound == FoundSoFar /\ Read => FoundSoFar'
<1> SUFFICES ASSUME FoundSoFar, Read PROVE FoundSoFar'
  OBVIOUS
<1> USE DEF Read, FoundSoFar, inputs, filterVars, answerVars
<1>1. Allowed' = Allowed /\ Visited' = Visited
  BY DEF Allowed, Allows, Visited
<1>2. CASE op \in {"clusters", "services"}
  <2>1. todo = Slots /\ Visited = {}
    BY <1>2 DEF Visited, Allowed
  <2>2. \A n \in Names : listed[n] = 0
    BY <1>2, <2>1
  <2>3. op' = op /\ rows' = rows /\ roles' = roles /\ todo' = todo
        /\ isValid' = isValid /\ listed' = listed
    OBVIOUS
  <2>4. pc' \in {"filter", "500"} /\ items' \subseteq Names
        /\ (faulty' \/ items' = rows) /\ (pc' = "500" => faulty') /\ faulty' \in BOOLEAN
    BY <1>2
  <2> QED BY <1>1, <1>2, <2>1, <2>2, <2>3, <2>4
<1>3. CASE op \notin {"clusters", "services"}
  <2>1. op' = op /\ rows' = rows /\ roles' = roles /\ todo' = todo
        /\ isValid' = isValid /\ listed' = listed
    OBVIOUS
  <2>2. pc' \in {"respond", "500"} /\ items' \subseteq Names
        /\ (pc' = "respond" => faulty' \/ items' = rows)
        /\ (pc' = "500" => faulty') /\ faulty' \in BOOLEAN
    BY <1>3
  <2> QED BY <1>1, <1>3, <2>1, <2>2
<1> QED BY <1>2, <1>3

LEMMA VisitFound == ASSUME FoundSoFar, NEW s \in Slots, Visit(s) PROVE FoundSoFar'
<1> USE DEF FoundSoFar, inputs, answerVars
<1>1. op' = op /\ roles' = roles /\ items' = items /\ rows' = rows /\ faulty' = faulty
  BY DEF Visit
<1>2. Allowed' = Allowed
  BY <1>1 DEF Allowed, Allows
<1>3. CASE roles[s] = NoRole
  <2>1. UNCHANGED filterVars /\ pc' = "500"
    BY <1>3 DEF Visit
  <2>2. Visited' = Visited
    BY <1>2, <2>1 DEF Visited, filterVars
  <2> QED BY <1>1, <1>2, <1>3, <2>1, <2>2 DEF filterVars
<1>4. CASE roles[s] # NoRole /\ Applies(roles[s])
  <2>1. /\ pc = "filter" /\ pc' = pc /\ s \in todo
        /\ todo' = todo \ {s} /\ isValid' = TRUE
        /\ listed' = [n \in Names |-> IF n \in Added(roles[s]) THEN listed[n] + 1 ELSE listed[n]]
    BY <1>4 DEF Visit
  <2>2. roles[s] \in Entries
    BY <1>4
  <2>3. s \in Allowed
    BY <1>4, <2>2, AppliesAllows DEF Allowed
  <2>4. Visited' = Visited \cup {s}
    BY <1>2, <2>1, <2>3 DEF Visited
  <2>5. ASSUME op \in {"clusters", "services"}, NEW n \in Names
        PROVE listed'[n] = IF n \in items /\ \E q \in Visited' : roles[q].name \in {All, n}
                           THEN 1 ELSE 0
    BY <2>1, <2>4, <2>5 DEF Added
  <2> QED BY <1>1, <2>1, <2>4, <2>5
<1>5. CASE roles[s] # NoRole /\ ~Applies(roles[s])
  <2>1. /\ pc = "filter" /\ pc' = pc /\ todo' = todo \ {s}
        /\ isValid' = isValid /\ listed' = listed
    BY <1>5 DEF Visit
  <2>2. roles[s] \in Entries
    BY <1>5
  <2>3. s \notin Allowed
    BY <1>5, <2>2, AppliesAllows DEF Allowed
  <2>4. Visited' = Visited
    BY <1>2, <2>1, <2>3 DEF Visited
  <2> QED BY <1>1, <2>1, <2>4
<1> QED BY <1>3, <1>4, <1>5 DEF Visit

LEMMA DecideFound == FoundSoFar /\ Decide => FoundSoFar'
<1> SUFFICES ASSUME FoundSoFar, Decide PROVE FoundSoFar'
  OBVIOUS
<1>1. Allowed' = Allowed /\ Visited' = Visited
  BY DEF Decide, inputs, filterVars, Allowed, Allows, Visited
<1> QED BY <1>1 DEF Decide, FoundSoFar, inputs, filterVars, answerVars, Ops

LEMMA RespondFound == FoundSoFar /\ Respond => FoundSoFar'
<1> SUFFICES ASSUME FoundSoFar, Respond PROVE FoundSoFar'
  OBVIOUS
<1>1. Allowed' = Allowed /\ Visited' = Visited
  BY DEF Respond, inputs, filterVars, Allowed, Allows, Visited
<1> QED BY <1>1 DEF Respond, FoundSoFar, inputs, filterVars

LEMMA StepFound == FoundSoFar /\ [Next]_vars => FoundSoFar'
<1> SUFFICES ASSUME FoundSoFar, [Next]_vars PROVE FoundSoFar'
  OBVIOUS
<1>1. CASE Read
  BY <1>1, ReadFound
<1>2. ASSUME NEW s \in Slots, Visit(s) PROVE FoundSoFar'
  BY <1>2, VisitFound
<1>3. CASE Decide
  BY <1>3, DecideFound
<1>4. CASE Respond
  BY <1>4, RespondFound
<1>5. CASE UNCHANGED vars
  <2>1. Allowed' = Allowed /\ Visited' = Visited
    BY <1>5 DEF vars, inputs, filterVars, Allowed, Allows, Visited
  <2> QED BY <1>5, <2>1 DEF vars, inputs, filterVars, FoundSoFar
<1> QED BY <1>1, <1>2, <1>3, <1>4, <1>5 DEF Next

LEMMA FoundExact == FoundSoFar => ListExact
<1> SUFFICES ASSUME FoundSoFar PROVE ListExact
  OBVIOUS
<1>1. todo = {} => Visited = Allowed
  BY DEF Visited
<1> QED BY <1>1 DEF FoundSoFar, ListExact

(* Whatever the roles of the token, the items and their number, a list      *)
(* answer holds each allowed item once and no other, and refusals and       *)
(* failures have their reason.                                              *)
THEOREM ListingExact == Spec => []ListExact
<1>1. Spec => []FoundSoFar
  BY InitFound, StepFound, PTL DEF Spec
<1> QED BY <1>1, FoundExact, PTL

-----------------------------------------------------------------------------
(* The length of the result and its pages *)

Found == {n \in Names : listed[n] > 0}

Kinds ==
    /\ op \in Ops /\ rows \in SUBSET Names /\ roles \in [Slots -> Entries \cup {NoRole}]
    /\ items \in SUBSET Names /\ todo \in SUBSET Slots
    /\ isValid \in BOOLEAN /\ faulty \in BOOLEAN /\ listed \in [Names -> Nat]
    /\ query \in PageSizes \cup {0} /\ pages \in Nat
    /\ pc \in {"read", "filter", "respond", "200", "403", "500"}

(* The length of the result is the number of the items found; nothing is    *)
(* found before it is read; and the pages are those of that length.         *)
CountsFound ==
    /\ Kinds
    /\ Found \subseteq items /\ total = Cardinality(Found)
    /\ pc = "read" \/ (pc = "filter" /\ op \notin {"clusters", "services"}) => items = {}
    /\ pc = "200" /\ op \in {"clusters", "services"} =>
          pages = TotalPages(total, PerPage(query))

LEMMA NamesFinite == \A S \in SUBSET Names : IsFiniteSet(S) /\ Cardinality(S) \in Nat
  BY AllAssumption, FS_Subset, FS_CardinalityType

LEMMA InitCounts == Init => CountsFound
<1> SUFFICES ASSUME Init PROVE CountsFound
  OBVIOUS
<1>1. Found = {}
  BY DEF Init, Found
<1>2. total = Cardinality(Found)
  BY <1>1, FS_EmptySet DEF Init
<1>3. Kinds
  BY DEF Init, Kinds
<1>4. (pc = "filter" => op \notin {"clusters", "services"}) /\ pc # "200" /\ items = {}
  BY DEF Init
<1> QED BY <1>1, <1>2, <1>3, <1>4 DEF CountsFound

(* Dividing and rounding up. *)
LEMMA TotalPagesFit ==
  ASSUME NEW count \in Nat, NEW size \in Nat
  PROVE  LET perPage == PerPage(size)
             n == TotalPages(count, perPage) IN
         /\ n \in Nat
         /\ count <= n * perPage
         /\ n > 0 => (n - 1) * perPage < count
<1> DEFINE p == PerPage(size)
           full == count \div p
           rest == count % p
<1>1. p \in 1..100
  BY DEF PerPage
<1> HIDE DEF p
<1>2. full \in Nat /\ rest \in Nat /\ rest < p /\ count = p * full + rest
  BY <1>1
<1>3. TotalPages(count, p) = IF count > 0 /\ full = 0 THEN 1
                             ELSE IF rest > 0 THEN full + 1 ELSE full
  BY DEF TotalPages
<1> HIDE DEF full, rest
<1>4. p * full \in Nat /\ p * full = full * p
  BY <1>1, <1>2
<1>5. CASE full = 0
  <2>1. count = rest
    BY <1>1, <1>2, <1>5
  <2> QED BY <1>1, <1>2, <1>3, <1>5, <2>1 DEF p
<1>6. CASE full # 0 /\ rest = 0
  <2>1. TotalPages(count, p) = full /\ count = full * p
    BY <1>2, <1>3, <1>4, <1>6
  <2>2. (full - 1) * p = full * p - p
    BY <1>1, <1>2
  <2> QED BY <1>1, <1>2, <1>4, <2>1, <2>2 DEF p
<1>7. CASE full # 0 /\ rest > 0
  <2>1. TotalPages(count, p) = full + 1
    BY <1>2, <1>3, <1>7
  <2>2. (full + 1) * p = full * p + p /\ (full + 1) - 1 = full
    BY <1>1, <1>2
  <2> QED BY <1>1, <1>2, <1>4, <1>7, <2>1, <2>2 DEF p
<1> QED BY <1>2, <1>5, <1>6, <1>7

LEMMA ReadCounts == CountsFound /\ Read => CountsFound'
<1> SUFFICES ASSUME CountsFound, Read PROVE CountsFound'
  OBVIOUS
<1>1. /\ pc = "read" /\ items = {} /\ Found = {} /\ items' \in SUBSET Names
      /\ op' = op /\ rows' = rows /\ roles' = roles /\ todo' = todo /\ isValid' = isValid
      /\ listed' = listed /\ total' = total /\ query' = query /\ pages' = pages
      /\ faulty' \in BOOLEAN
      /\ pc' \in {"filter", "respond", "500"}
      /\ pc' = "filter" => op \in {"clusters", "services"}
  BY DEF Read, CountsFound, Kinds, inputs, filterVars, answerVars
<1>2. Found' = {}
  BY <1>1 DEF Found
<1>3. Kinds'
  BY <1>1 DEF CountsFound, Kinds
<1> QED BY <1>1, <1>2, <1>3 DEF CountsFound

LEMMA VisitCounts == ASSUME CountsFound, NEW s \in Slots, Visit(s) PROVE CountsFound'
<1>1. /\ pc = "filter" /\ op' = op /\ rows' = rows /\ roles' = roles /\ items' = items
      /\ faulty' = faulty /\ query' = query /\ pages' = pages
  BY DEF Visit, inputs, answerVars
<1>2. CASE UNCHANGED <<listed, total>> /\ pc' \in {"filter", "500"}
           /\ todo' \in SUBSET Slots /\ isValid' = isValid
  <2>1. Found' = Found
    BY <1>2 DEF Found
  <2>2. Kinds'
    BY <1>1, <1>2 DEF CountsFound, Kinds
  <2> QED BY <1>1, <1>2, <2>1, <2>2 DEF CountsFound
<1>3. CASE roles[s] # NoRole /\ Applies(roles[s])
  <2> DEFINE more == Added(roles[s])
  <2>1. /\ pc' = pc /\ todo' = todo \ {s} /\ isValid' = TRUE
        /\ listed' = [n \in Names |-> IF n \in more THEN listed[n] + 1 ELSE listed[n]]
        /\ total' = total + Cardinality(more)
    BY <1>3 DEF Visit
  <2>2. more \subseteq items /\ more \subseteq Names /\ more \cap Found = {}
    BY DEF Added, Found, CountsFound, Kinds
  <2> HIDE DEF more
  <2>3. listed' \in [Names -> Nat]
    BY <2>1 DEF CountsFound, Kinds
  <2>4. Found' = Found \cup more
    BY <2>1, <2>2 DEF Found, CountsFound, Kinds
  <2>5. Found \subseteq Names
    BY DEF Found
  <2>6. Cardinality(Found') = Cardinality(Found) + Cardinality(more)
    <3>1. /\ IsFiniteSet(Found) /\ Cardinality(Found) \in Nat
          /\ IsFiniteSet(more) /\ Cardinality(more) \in Nat
      BY <2>2, <2>5, NamesFinite
    <3>2. Cardinality(Found \cup more)
          = Cardinality(Found) + Cardinality(more) - Cardinality(Found \cap more)
      BY <3>1, FS_Union
    <3>3. Cardinality(Found \cap more) = 0
      <4>1. Found \cap more = {}
        BY <2>2
      <4> QED BY <4>1, FS_EmptySet
    <3>4. Cardinality(Found \cup more) = Cardinality(Found) + Cardinality(more)
      BY <3>1, <3>2, <3>3
    <3> QED BY <2>4, <3>4
  <2>7. Kinds'
    BY <1>1, <2>1, <2>3 DEF CountsFound, Kinds
  <2> QED BY <1>1, <2>1, <2>2, <2>4, <2>6, <2>7 DEF CountsFound
<1>4. CASE ~(roles[s] # NoRole /\ Applies(roles[s]))
  BY <1>1, <1>2, <1>4 DEF Visit, filterVars, CountsFound, Kinds
<1> QED BY <1>3, <1>4

LEMMA DecideCounts == CountsFound /\ Decide => CountsFound'
<1> SUFFICES ASSUME CountsFound, Decide PROVE CountsFound'
  OBVIOUS
<1>1. Found' = Found
  BY DEF Decide, filterVars, Found
<1> QED BY <1>1 DEF Decide, CountsFound, Kinds, inputs, filterVars, answerVars

LEMMA RespondCounts == CountsFound /\ Respond => CountsFound'
<1> SUFFICES ASSUME CountsFound, Respond PROVE CountsFound'
  OBVIOUS
<1>1. /\ op' = op /\ rows' = rows /\ roles' = roles /\ items' = items /\ todo' = todo
      /\ isValid' = isValid /\ listed' = listed /\ total' = total /\ faulty' = faulty
      /\ pc' = "200" /\ query' \in PageSizes
      /\ op \in {"clusters", "services"} => pages' = TotalPages(total, PerPage(query'))
      /\ op = "configs" => pages' = TotalPages(Cardinality(items), PerPage(query'))
      /\ op = "config" => pages' = 0
  BY DEF Respond, inputs, filterVars
<1>2. Found' = Found
  BY <1>1 DEF Found
<1>3. total \in Nat /\ Cardinality(items) \in Nat /\ query' \in Nat
  <2>1. Found \subseteq Names
    BY DEF Found
  <2> QED BY <1>1, <2>1, NamesFinite, PageAssumption DEF CountsFound, Kinds
<1>4. pages' \in Nat
  <2>1. \A count, size \in Nat : TotalPages(count, PerPage(size)) \in Nat
    BY TotalPagesFit
  <2>2. op \in Ops
    BY DEF CountsFound, Kinds
  <2>3. TotalPages(total, PerPage(query')) \in Nat
    BY <1>3, <2>1
  <2>4. TotalPages(Cardinality(items), PerPage(query')) \in Nat
    BY <1>3, <2>1
  <2> QED BY <1>1, <2>2, <2>3, <2>4 DEF Ops
<1>5. Kinds'
  BY <1>1, <1>4 DEF CountsFound, Kinds
<1> QED BY <1>1, <1>2, <1>5 DEF CountsFound

LEMMA StepCounts == CountsFound /\ [Next]_vars => CountsFound'
<1> SUFFICES ASSUME CountsFound, [Next]_vars PROVE CountsFound'
  OBVIOUS
<1>1. CASE UNCHANGED vars
  <2>1. Found' = Found
    BY <1>1 DEF vars, filterVars, Found
  <2> QED BY <1>1, <2>1 DEF vars, inputs, filterVars, answerVars, CountsFound, Kinds
<1> QED BY <1>1, ReadCounts, VisitCounts, DecideCounts, RespondCounts DEF Next

LEMMA CountsAlways == Spec => []CountsFound
  BY InitCounts, StepCounts, PTL DEF Spec

(* The result of a list is never longer than what was read.                 *)
THEOREM TypeCorrect == Spec => []TypeOK
<1>1. CountsFound => TypeOK
  <2> SUFFICES ASSUME CountsFound PROVE TypeOK
    OBVIOUS
  <2>1. Found \in SUBSET Names /\ Found \subseteq items /\ items \in SUBSET Names
    BY DEF CountsFound, Kinds, Found
  <2>2. Cardinality(Found) \in Nat /\ Cardinality(items) \in Nat
        /\ Cardinality(Found) <= Cardinality(items)
    BY <2>1, NamesFinite, FS_Subset
  <2>3. total \in 0..Cardinality(items)
    BY <2>2 DEF CountsFound
  <2> QED BY <2>3 DEF CountsFound, Kinds, TypeOK
<1> QED BY <1>1, CountsAlways, PTL

(* Whatever the number of items and the query, the number of pages is the   *)
(* least that holds the whole list.                                         *)
THEOREM PagesFit == Spec => []PagesExact
<1>1. CountsFound => PagesExact
  <2> SUFFICES ASSUME CountsFound, pc = "200", op \in {"clusters", "services"}
               PROVE  /\ Cardinality(Found) <= pages * PerPage(query)
                      /\ pages > 0 => (pages - 1) * PerPage(query) < Cardinality(Found)
    BY DEF PagesExact, Found
  <2>1. Found \in SUBSET Names
    BY DEF Found
  <2>2. Cardinality(Found) \in Nat /\ query \in Nat
    BY <2>1, NamesFinite, PageAssumption DEF CountsFound, Kinds
  <2> QED BY <2>2, TotalPagesFit DEF CountsFound
<1> QED BY <1>1, CountsAlways, PTL
=============================================================================
