-------------------------- MODULE HealthCheckProofs --------------------------
(***************************************************************************)
(* Proofs, for every number of checks and any capacities, of when a health  *)
(* check is reported down, and that its alerts are each sent once and in    *)
(* order.                                                                   *)
(***************************************************************************)
EXTENDS HealthCheck, FiniteSetTheorems, SequenceTheorems, TLAPS

(* At the start nothing has failed.                                         *)
LEMMA InitCountFits == Init => CountFits
  BY DEF Init, CountFits, Pending

(* Counting a probe's result keeps the count between the failures in a row  *)
(* and twice as many.                                                       *)
LEMMA CountedBounds ==
  ASSUME NEW count \in Nat, NEW row \in Nat, NEW result \in Results,
         row <= count, count <= 2 * row
  PROVE  LET next == IF result = "ok" THEN 0 ELSE row + 1 IN
         /\ Counted(count, result) \in Nat
         /\ next <= Counted(count, result) /\ Counted(count, result) <= 2 * next
<1>1. CASE result = "ok"      BY <1>1 DEF Counted
<1>2. CASE result = "not_ok"  BY <1>2 DEF Counted
<1>3. CASE result = "error"   BY <1>3 DEF Counted
<1>. QED  BY <1>1, <1>2, <1>3 DEF Results

LEMMA ProbeCountFits ==
  ASSUME CountFits, NEW h \in Checks, Probe(h) PROVE CountFits'
<1>1. PICK result \in Results :
        /\ failed' = [failed EXCEPT ![h] = Counted(failed[h], result)]
        /\ streak' = [streak EXCEPT ![h] = IF result = "ok" THEN 0 ELSE @ + 1]
        /\ \/ Turns(h, Counted(failed[h], result)) /\ Raise(h)
           \/ /\ ~Turns(h, Counted(failed[h], result))
              /\ UNCHANGED <<isHealth, raised, alert, at>>
  BY DEF Probe
<1>. DEFINE count == Counted(failed[h], result)
            row == IF result = "ok" THEN 0 ELSE streak[h] + 1
<1>2. /\ at[h] = "wait" /\ failed[h] \in Nat /\ streak[h] \in Nat /\ isHealth[h] \in BOOLEAN
      /\ streak[h] <= failed[h] /\ failed[h] <= 2 * streak[h]
  BY DEF Probe, CountFits
<1>3. count \in Nat /\ row \in Nat /\ row <= count /\ count <= 2 * row
  BY <1>2, CountedBounds
<1>4. /\ failed' = [failed EXCEPT ![h] = count] /\ streak' = [streak EXCEPT ![h] = row]
  BY <1>1
<1>. HIDE DEF count, row
<1>5. CASE Turns(h, count) /\ Raise(h)
  <2>1. isHealth'[h] = ~isHealth[h] /\ at'[h] = "address"
    BY <1>2, <1>5 DEF Raise, CountFits
  <2>2. CASE isHealth[h]
    <3>1. ~isHealth'[h] /\ count >= 3
      BY <1>5, <2>1, <2>2 DEF Turns
    <3>. QED  BY <1>3, <1>4, <1>5, <2>1, <3>1 DEF CountFits, Raise, Pending
  <2>3. CASE ~isHealth[h]
    <3>1. isHealth'[h] /\ count = 0
      BY <1>5, <2>1, <2>3 DEF Turns
    <3>. QED  BY <1>3, <1>4, <1>5, <2>1, <3>1 DEF CountFits, Raise, Pending
  <2>. QED  BY <2>2, <2>3
<1>6. CASE ~Turns(h, count) /\ UNCHANGED <<isHealth, raised, alert, at>>
  <2>1. isHealth[h] => count < 3
    BY <1>3, <1>6 DEF Turns
  <2>. QED  BY <1>2, <1>3, <1>4, <1>6, <2>1 DEF CountFits, Pending
<1>. QED  BY <1>1, <1>5, <1>6 DEF count

LEMMA NextCountFits == CountFits /\ [Next]_vars => CountFits'
<1>. SUFFICES ASSUME CountFits, [Next]_vars PROVE CountFits'
  OBVIOUS
<1>1. CASE UNCHANGED checkVars
  BY <1>1 DEF checkVars, CountFits, Pending
<1>2. ASSUME NEW h \in Checks, Address(h) \/ Send(h) PROVE CountFits'
  BY <1>2 DEF Address, Send, CountFits, Pending
<1>. QED  BY <1>1, <1>2, ProbeCountFits DEF Next, vars

(* A check is reported down after two failed probes in a row at the         *)
(* earliest, and is down by the third.                                      *)
THEOREM ReportedOnTime == Spec => []DownOnTime
<1>1. CountFits => DownOnTime
  <2>. SUFFICES ASSUME CountFits, NEW h \in Checks
       PROVE  /\ isHealth[h] => streak[h] < 3
              /\ ~isHealth[h] /\ Pending(h) => streak[h] >= 2
    BY DEF DownOnTime
  <2>. QED  BY DEF CountFits
<1>. QED  BY <1>1, InitCountFits, NextCountFits, PTL DEF Spec

-----------------------------------------------------------------------------
(* Types *)

(* The manager only waits in its select with a connection, and there is one *)
(* reader for each, so that as many connections were opened as broke, or    *)
(* one more.                                                                *)
LinkFits ==
    /\ mgr \notin {"select", "event"} => link = "none"
    /\ breaks <= MaxBreaks
    /\ cur <= IF link = "open" THEN breaks + 1 ELSE breaks

RTMTypes ==
    /\ mgr \in ManagerStates /\ link \in {"none", "open", "broken"} /\ cur \in Nat
    /\ reader \in [Connections -> {"off", "loop", "read", "raw", "error"}]
    /\ incoming \in 0..InCap
    /\ outgoing \in Seq(Messages) /\ Len(outgoing) <= OutCap
    /\ posted \in Seq(Messages) /\ lost \in SUBSET Messages
    /\ long \in Nat /\ frames \in Nat /\ breaks \in Nat /\ dials \in Nat

CheckTypes ==
    /\ failed \in [Checks -> Nat] /\ isHealth \in [Checks -> BOOLEAN]
    /\ at \in [Checks -> {"wait", "address", "send"}]
    /\ alert \in [Checks -> Messages]
    /\ raised \in [Checks -> Nat] /\ streak \in [Checks -> Nat]
    /\ probes \in [Checks -> Nat]

Types == RTMTypes /\ CheckTypes /\ LinkFits

LEMMA States ==
  /\ DOMAIN After = {"connecting", "connection_error", "connected", "event",
                     "disconnected", "invalid_auth"}
  /\ ManagerStates = {"connecting", "connection_error", "connected", "event",
                      "disconnected", "invalid_auth", "dial", "select", "done"}
  /\ \A m \in DOMAIN After : After[m] \in ManagerStates
  /\ After["connected"] = "select" /\ After["event"] = "select"
  /\ \A m \in DOMAIN After : m \notin {"connected", "event"} => After[m] \notin {"select", "event"}
<1>1. DOMAIN After = {"connecting", "connection_error", "connected", "event",
                      "disconnected", "invalid_auth"}
  BY DEF After
<1>2. /\ After["connecting"] = "dial" /\ After["connection_error"] = "connecting"
      /\ After["connected"] = "select" /\ After["event"] = "select"
      /\ After["disconnected"] = "connecting" /\ After["invalid_auth"] = "done"
  BY DEF After
<1>3. ManagerStates = {"connecting", "connection_error", "connected", "event",
                       "disconnected", "invalid_auth", "dial", "select", "done"}
  BY <1>1 DEF ManagerStates
<1>. QED  BY <1>1, <1>2, <1>3

LEMMA InitTypes == Init => Types
<1>. SUFFICES ASSUME Init PROVE Types
  OBVIOUS
<1>1. RTMTypes
  BY States, CapacityAssumption DEF Init, InitRTM, RTMTypes
<1>2. CheckTypes
  BY DEF Init, CheckTypes, Messages
<1>3. LinkFits
  BY BudgetAssumption DEF Init, InitRTM, LinkFits
<1>. QED  BY <1>1, <1>2, <1>3 DEF Types

LEMMA DeliverTypes == Types /\ Deliver => RTMTypes' /\ LinkFits'
<1>. SUFFICES ASSUME Types, Deliver PROVE RTMTypes' /\ LinkFits'
  OBVIOUS
<1>1. /\ mgr \in DOMAIN After /\ mgr' = After[mgr]
      /\ incoming < InCap /\ incoming' = incoming + 1
      /\ outgoing' = outgoing /\ posted' = posted /\ lost' = lost
      /\ long' = long /\ frames' = frames /\ breaks' = breaks /\ dials' = dials
  BY DEF Deliver, Report, envVars
<1>2. incoming' \in 0..InCap /\ mgr' \in ManagerStates
  BY <1>1, States, CapacityAssumption DEF Types, RTMTypes
<1>3. CASE mgr = "connected"
  <2>1. cur' = cur + 1 /\ link' = "open" /\ reader' = [reader EXCEPT ![cur + 1] = "read"]
    BY <1>3 DEF Deliver
  <2>2. link = "none" /\ cur <= breaks /\ cur \in Nat /\ breaks \in Nat
    BY <1>3 DEF Types, LinkFits, RTMTypes
  <2>3. RTMTypes'
    <3>1. reader' \in [Connections -> {"off", "loop", "read", "raw", "error"}]
      BY <2>1 DEF Types, RTMTypes
    <3>2. cur' \in Nat /\ link' \in {"none", "open", "broken"}
      BY <2>1, <2>2
    <3>. QED  BY <1>1, <1>2, <3>1, <3>2 DEF Types, RTMTypes
  <2>4. LinkFits'
    BY <1>1, <1>3, <2>1, <2>2, States DEF Types, LinkFits
  <2>. QED  BY <2>3, <2>4
<1>4. CASE mgr # "connected"
  <2>1. cur' = cur /\ link' = link /\ reader' = reader
    BY <1>4 DEF Deliver
  <2>2. RTMTypes'
    BY <1>1, <1>2, <2>1 DEF Types, RTMTypes
  <2>3. mgr' \notin {"select", "event"} => mgr \notin {"select", "event"}
    BY <1>1, States
  <2>. QED  BY <1>1, <2>1, <2>2, <2>3 DEF Types, LinkFits
<1>. QED  BY <1>3, <1>4

LEMMA SendOutgoingTypes == Types /\ SendOutgoing => RTMTypes' /\ LinkFits'
<1>. SUFFICES ASSUME Types, SendOutgoing PROVE RTMTypes' /\ LinkFits'
  OBVIOUS
<1>1. /\ mgr = "select" /\ outgoing # <<>> /\ outgoing' = Tail(outgoing)
      /\ link' = link /\ cur' = cur /\ reader' = reader /\ incoming' = incoming
      /\ long' \in Nat /\ frames' = frames /\ breaks' = breaks /\ dials' = dials
      /\ mgr' \in {"select", "event"}
  BY DEF SendOutgoing, GiveUp, envVars, Types, RTMTypes
<1>2. /\ Head(outgoing) \in Messages /\ Tail(outgoing) \in Seq(Messages)
      /\ Len(Tail(outgoing)) <= OutCap
  BY <1>1, CapacityAssumption DEF Types, RTMTypes
<1>3. posted' \in Seq(Messages) /\ lost' \in SUBSET Messages
  <2>1. \/ posted' = posted \/ posted' = Append(posted, Head(outgoing))
    BY DEF SendOutgoing, GiveUp, Post
  <2>2. \/ lost' = lost \/ lost' = lost \cup {Head(outgoing)}
    BY DEF SendOutgoing, GiveUp, Post
  <2>3. posted \in Seq(Messages) /\ lost \in SUBSET Messages
    BY DEF Types, RTMTypes
  <2>4. posted' \in Seq(Messages)
    BY <1>2, <2>1, <2>3
  <2>5. lost' \in SUBSET Messages
    BY <1>2, <2>2, <2>3
  <2>. QED  BY <2>4, <2>5
<1>4. mgr' \in ManagerStates
  BY <1>1, States
<1>5. RTMTypes'
  BY <1>1, <1>2, <1>3, <1>4 DEF Types, RTMTypes
<1>6. LinkFits'
  BY <1>1 DEF Types, LinkFits
<1>. QED  BY <1>5, <1>6

LEMMA RTMStepTypes == Types /\ NextRTM => RTMTypes' /\ LinkFits'
<1>. SUFFICES ASSUME Types, NextRTM PROVE RTMTypes' /\ LinkFits'
  OBVIOUS
<1>1. CASE Dial
  <2>1. /\ mgr = "dial" /\ mgr' \in {"connected", "connection_error", "invalid_auth"}
        /\ dials' \in Nat
        /\ UNCHANGED <<link, cur, reader, incoming, outgoing, posted, lost, long, frames, breaks>>
    BY <1>1 DEF Dial, Types, RTMTypes
  <2>2. mgr' \in ManagerStates
    BY <2>1, States
  <2>. QED  BY <2>1, <2>2 DEF Types, RTMTypes, LinkFits
<1>2. CASE PingFails
  <2>1. /\ mgr' = "disconnected" /\ link = "broken" /\ link' = "none"
        /\ UNCHANGED <<cur, reader, incoming, outgoing, posted, lost, long, frames, breaks, dials>>
    BY <1>2 DEF PingFails, envVars
  <2>. QED  BY <2>1, States DEF Types, RTMTypes, LinkFits
<1>3. CASE Break
  <2>1. /\ link = "open" /\ link' = "broken" /\ breaks < MaxBreaks /\ breaks' = breaks + 1
        /\ UNCHANGED <<mgr, cur, reader, incoming, outgoing, posted, lost, long, frames, dials>>
    BY <1>3 DEF Break
  <2>2. mgr \in {"select", "event"} /\ breaks \in Nat
    BY <2>1 DEF Types, LinkFits, RTMTypes
  <2>. QED  BY <2>1, <2>2, BudgetAssumption DEF Types, RTMTypes, LinkFits
<1>4. ASSUME NEW k \in Connections, HandleRaw(k) PROVE RTMTypes' /\ LinkFits'
  <2>1. /\ mgr = "select" /\ mgr' \in {"select", "event"}
        /\ reader' = [reader EXCEPT ![k] = "loop"]
        /\ UNCHANGED <<link, cur, incoming, outgoing, posted, lost, long, frames, breaks, dials>>
    BY <1>4 DEF HandleRaw, envVars
  <2>. QED  BY <2>1, States DEF Types, RTMTypes, LinkFits
<1>5. ASSUME NEW k \in Connections, Loop(k) \/ Receive(k) \/ ReportError(k)
      PROVE  RTMTypes' /\ LinkFits'
  <2>1. /\ UNCHANGED <<mgr, link, cur, outgoing, posted, lost, breaks, dials>>
        /\ long' = long /\ frames' \in Nat /\ incoming' \in 0..InCap
    BY <1>5, CapacityAssumption DEF Loop, Receive, ReportError, Report, envVars, Types, RTMTypes
  <2>2. \E q \in {"off", "loop", "read", "raw", "error"} : reader' = [reader EXCEPT ![k] = q]
    BY <1>5 DEF Loop, Receive, ReportError
  <2>. QED  BY <2>1, <2>2 DEF Types, RTMTypes, LinkFits
<1>. QED  BY <1>1, <1>2, <1>3, <1>4, <1>5, DeliverTypes, SendOutgoingTypes DEF NextRTM

LEMMA ProbeParts ==
  ASSUME NEW h \in Checks, Probe(h)
  PROVE  /\ at[h] = "wait" /\ UNCHANGED rtmVars
         /\ \E result \in Results :
              /\ failed' = [failed EXCEPT ![h] = Counted(failed[h], result)]
              /\ streak' = [streak EXCEPT ![h] = IF result = "ok" THEN 0 ELSE @ + 1]
         /\ probes' = [probes EXCEPT ![h] = @ + 1]
         /\ Raise(h) \/ UNCHANGED <<isHealth, raised, alert, at>>
  BY DEF Probe

LEMMA CheckStepTypes ==
  ASSUME Types, NEW h \in Checks, Probe(h) \/ Address(h) \/ Send(h) PROVE Types'
<1>1. CASE Probe(h)
  <2>1. PICK result \in Results :
          /\ failed' = [failed EXCEPT ![h] = Counted(failed[h], result)]
          /\ streak' = [streak EXCEPT ![h] = IF result = "ok" THEN 0 ELSE @ + 1]
    BY <1>1, ProbeParts
  <2>2. Counted(failed[h], result) \in Nat
    BY DEF Counted, Types, CheckTypes
  <2>3. failed' \in [Checks -> Nat] /\ streak' \in [Checks -> Nat] /\ probes' \in [Checks -> Nat]
    BY <1>1, <2>1, <2>2, ProbeParts DEF Types, CheckTypes
  <2>4. /\ isHealth' \in [Checks -> BOOLEAN] /\ raised' \in [Checks -> Nat]
        /\ alert' \in [Checks -> Messages] /\ at' \in [Checks -> {"wait", "address", "send"}]
    <3>1. CASE Raise(h)
      <4>1. [check |-> h, down |-> isHealth[h], n |-> raised[h] + 1, to |-> FALSE] \in Messages
        BY DEF Messages, Types, CheckTypes
      <4>. QED  BY <3>1, <4>1 DEF Raise, Types, CheckTypes
    <3>2. CASE UNCHANGED <<isHealth, raised, alert, at>>
      BY <3>2 DEF Types, CheckTypes
    <3>. QED  BY <1>1, <3>1, <3>2, ProbeParts
  <2>5. UNCHANGED rtmVars
    BY <1>1, ProbeParts
  <2>. QED  BY <2>3, <2>4, <2>5 DEF Types, CheckTypes, RTMTypes, LinkFits, rtmVars, envVars
<1>2. CASE Address(h)
  <2>1. PICK found \in BOOLEAN : alert' = [alert EXCEPT ![h].to = found]
    BY <1>2 DEF Address
  <2>2. alert' \in [Checks -> Messages]
    BY <2>1 DEF Types, CheckTypes, Messages
  <2>3. /\ at' = [at EXCEPT ![h] = "send"]
        /\ UNCHANGED <<rtmVars, failed, isHealth, raised, streak, probes>>
    BY <1>2 DEF Address
  <2>. QED  BY <2>2, <2>3 DEF Types, CheckTypes, RTMTypes, LinkFits, rtmVars, envVars
<1>3. CASE Send(h)
  <2>1. /\ Len(outgoing) < OutCap /\ outgoing' = Append(outgoing, alert[h])
        /\ at' = [at EXCEPT ![h] = "wait"]
        /\ UNCHANGED <<mgr, link, cur, reader, incoming, posted, lost, envVars>>
        /\ UNCHANGED <<failed, isHealth, alert, raised, streak, probes>>
    BY <1>3 DEF Send
  <2>2. outgoing' \in Seq(Messages) /\ Len(outgoing') <= OutCap
    <3>1. outgoing \in Seq(Messages) /\ alert[h] \in Messages
      BY DEF Types, RTMTypes, CheckTypes
    <3>2. Append(outgoing, alert[h]) \in Seq(Messages)
          /\ Len(Append(outgoing, alert[h])) = Len(outgoing) + 1 /\ Len(outgoing) \in Nat
      BY <3>1
    <3>. QED  BY <2>1, <3>2, CapacityAssumption
  <2>. QED  BY <2>1, <2>2 DEF Types, CheckTypes, RTMTypes, LinkFits, envVars
<1>. QED  BY <1>1, <1>2, <1>3

LEMMA NextTypes == Types /\ [Next]_vars => Types'
<1>. SUFFICES ASSUME Types, [Next]_vars PROVE Types'
  OBVIOUS
<1>1. CASE NextRTM /\ UNCHANGED checkVars
  <2>1. CheckTypes'
    BY <1>1 DEF checkVars, Types, CheckTypes
  <2>. QED  BY <1>1, <2>1, RTMStepTypes DEF Types
<1>2. CASE UNCHANGED vars
  BY <1>2 DEF vars, rtmVars, envVars, checkVars, Types, RTMTypes, CheckTypes, LinkFits
<1>. QED  BY <1>1, <1>2, CheckStepTypes DEF Next

LEMMA TypesAlways == Spec => []Types
  BY InitTypes, NextTypes, PTL DEF Spec

(* The channels keep to their capacities and no reader is left without a    *)
(* connection it was started for.                                           *)
THEOREM TypeCorrect == Spec => []TypeOK
<1>1. Types => TypeOK
  <2>. SUFFICES ASSUME Types PROVE TypeOK
    OBVIOUS
  <2>1. cur \in 0..(MaxBreaks + 1)
    BY BudgetAssumption DEF Types, RTMTypes, LinkFits
  <2>. QED  BY <2>1 DEF Types, RTMTypes, CheckTypes, TypeOK
<1>. QED  BY <1>1, TypesAlways, PTL

-----------------------------------------------------------------------------
(* The alerts *)

Same(m, k) == m.check = k.check /\ m.n = k.n

(* The messages that have left the goroutine of their check.                *)
Gone(m) == m \in lost \/ \E i \in DOMAIN Stream : Stream[i] = m

InOrder ==
    \A i, j \in DOMAIN Stream :
        i < j /\ Stream[i].check = Stream[j].check => Stream[i].n < Stream[j].n

(* No alert is lost twice, or lost and in the stream.                       *)
Apart ==
    /\ \A m, k \in lost : Same(m, k) => m = k
    /\ \A m \in lost : \A i \in DOMAIN Stream : ~Same(m, Stream[i])

(* The alert a check is about to send is its newest; the ones that have     *)
(* left are older, and the newest of all says what the check holds true.    *)
NewestLeaves ==
    /\ \A h \in Checks : Pending(h) =>
          alert[h].check = h /\ alert[h].n = raised[h] /\ alert[h].down = ~isHealth[h]
    /\ \A m \in Messages : Gone(m) =>
          /\ m.n <= raised[m.check]
          /\ Pending(m.check) => m.n < raised[m.check]
          /\ m.n = raised[m.check] => m.down = ~isHealth[m.check]

Complete ==
    \A h \in Checks : \A n \in 1..raised[h] :
        \/ Pending(h) /\ alert[h].n = n
        \/ \E m \in Messages : Gone(m) /\ m.check = h /\ m.n = n

AlertsKept == InOrder /\ Apart /\ NewestLeaves /\ Complete

LEMMA StreamIs ==
  ASSUME Types
  PROVE  /\ Stream \in Seq(Messages) /\ Len(Stream) = Len(posted) + Len(outgoing)
         /\ DOMAIN Stream = 1..Len(Stream) /\ Len(posted) \in Nat /\ Len(outgoing) \in Nat
         /\ \A i \in 1..Len(posted) : Stream[i] = posted[i]
         /\ \A i \in 1..Len(outgoing) : Stream[Len(posted) + i] = outgoing[i]
<1>1. posted \in Seq(Messages) /\ outgoing \in Seq(Messages)
  BY DEF Types, RTMTypes
<1>. QED  BY <1>1 DEF Stream

LEMMA InitKept == Init => AlertsKept
<1>. SUFFICES ASSUME Init PROVE AlertsKept
  OBVIOUS
<1>1. lost = {} /\ Stream = <<>>
  BY DEF Init, InitRTM, Stream
<1>2. DOMAIN Stream = {}
  BY <1>1
<1>3. \A h \in Checks : raised[h] = 0 /\ ~Pending(h)
  BY DEF Init, Pending
<1>. QED  BY <1>1, <1>2, <1>3 DEF AlertsKept, InOrder, Apart, NewestLeaves, Complete, Gone

(* A step that leaves the checks as they are, and the messages that have    *)
(* left them, if it keeps them in order and apart.                          *)
LEMMA MovesKept ==
  ASSUME AlertsKept, UNCHANGED <<isHealth, raised, alert, at>>,
         \A m \in Messages : Gone(m)' <=> Gone(m), InOrder', Apart'
  PROVE  AlertsKept'
<1>1. \A h : Pending(h)' <=> Pending(h)
  BY DEF Pending
<1>2. NewestLeaves'
  BY <1>1 DEF AlertsKept, NewestLeaves
<1>3. Complete'
  BY <1>1 DEF AlertsKept, Complete
<1>. QED  BY <1>2, <1>3 DEF AlertsKept

LEMMA StillKept ==
  ASSUME AlertsKept, UNCHANGED <<isHealth, raised, alert, at>>,
         Stream' = Stream, lost' = lost
  PROVE  AlertsKept'
<1>1. \A m \in Messages : Gone(m)' <=> Gone(m)
  BY DEF Gone
<1>2. InOrder' /\ Apart'
  BY DEF AlertsKept, InOrder, Apart
<1>. QED  BY <1>1, <1>2, MovesKept

(* The head of the queue is posted, which leaves the stream as it is, or    *)
(* lost, which takes it out of the stream.                                  *)
LEMMA SendOutgoingKept == ASSUME Types, AlertsKept, SendOutgoing, UNCHANGED checkVars
                          PROVE  AlertsKept'
<1>. DEFINE p == Len(posted)
            q == Len(outgoing)
            head == Head(outgoing)
<1>1. /\ outgoing # <<>> /\ outgoing' = Tail(outgoing)
      /\ UNCHANGED <<isHealth, raised, alert, at>>
  BY DEF SendOutgoing, checkVars
<1>2. posted \in Seq(Messages) /\ outgoing \in Seq(Messages)
  BY DEF Types, RTMTypes
<1>3. /\ p \in Nat /\ q \in Nat /\ q > 0 /\ head = outgoing[1] /\ head \in Messages
      /\ Len(Tail(outgoing)) = q - 1 /\ Tail(outgoing) \in Seq(Messages)
      /\ \A i \in 1..(q - 1) : Tail(outgoing)[i] = outgoing[i + 1]
  BY <1>1, <1>2
<1>4. CASE posted' = Append(posted, head) /\ lost' = lost
  <2>1. Stream' = Append(posted, head) \o Tail(outgoing)
    BY <1>1, <1>4 DEF Stream
  <2>2. Append(posted, head) \o Tail(outgoing) = posted \o outgoing
    <3>1. /\ Append(posted, head) \in Seq(Messages) /\ Len(Append(posted, head)) = p + 1
          /\ \A i \in 1..p : Append(posted, head)[i] = posted[i]
          /\ Append(posted, head)[p + 1] = head
      BY <1>2, <1>3
    <3>. HIDE DEF p, q, head
    <3>. DEFINE a == Append(posted, head)
                t == Tail(outgoing)
    <3>2. Len(a) = p + 1 /\ Len(t) = q - 1 /\ a \in Seq(Messages) /\ t \in Seq(Messages)
      BY <1>3, <3>1
    <3>3. \A i \in 1..p : a[i] = posted[i]
      BY <3>1
    <3>4. a[p + 1] = outgoing[1] /\ \A i \in 1..(q - 1) : t[i] = outgoing[i + 1]
      BY <1>3, <3>1
    <3>. HIDE DEF a, t
    <3>5. /\ a \o t \in Seq(Messages) /\ Len(a \o t) = p + q
          /\ posted \o outgoing \in Seq(Messages) /\ Len(posted \o outgoing) = p + q
      <4>1. a \o t \in Seq(Messages) /\ Len(a \o t) = p + q
        BY <1>3, <3>2
      <4>2. posted \o outgoing \in Seq(Messages) /\ Len(posted \o outgoing) = p + q
        BY <1>2 DEF p, q
      <4>. QED  BY <4>1, <4>2
    <3>6. ASSUME NEW i \in 1..(p + q) PROVE (a \o t)[i] = (posted \o outgoing)[i]
      <4>1. CASE i \in 1..p
        BY <1>2, <1>3, <3>2, <3>3, <4>1 DEF p, q
      <4>2. CASE i = p + 1
        BY <1>2, <1>3, <3>2, <3>4, <4>2 DEF p, q
      <4>3. CASE i \in (p + 2)..(p + q)
        <5>1. i - (p + 1) \in 1..(q - 1) /\ (i - (p + 1)) + 1 = i - p
          BY <1>3, <4>3
        <5>2. (a \o t)[i] = t[i - (p + 1)]
          BY <1>3, <3>2, <4>3
        <5>3. (posted \o outgoing)[i] = outgoing[i - p]
          BY <1>2, <1>3, <4>3 DEF p, q
        <5>. QED  BY <3>4, <5>1, <5>2, <5>3
      <4>4. p \in Nat /\ q \in Nat /\ q > 0 /\ i \in 1..(p + q)
        BY <1>3, <3>6 DEF p, q
      <4>5. i \in 1..p \/ i = p + 1 \/ i \in (p + 2)..(p + q)
        BY <4>4
      <4>. QED  BY <4>1, <4>2, <4>3, <4>5
    <3>. DEFINE now == a \o t
                before == posted \o outgoing
    <3>7. a \o t = posted \o outgoing
      <4>1. /\ now \in Seq(Messages) /\ before \in Seq(Messages)
            /\ Len(now) = p + q /\ Len(before) = p + q
            /\ \A i \in 1..(p + q) : now[i] = before[i]
        BY <3>5, <3>6
      <4>. HIDE DEF now, before
      <4>2. now = before
        BY <4>1, SeqEqual
      <4>. QED  BY <4>2 DEF now, before
    <3>. QED  BY <3>7 DEF a, t
  <2>3. Stream' = Stream
    BY <2>1, <2>2 DEF Stream
  <2>. QED  BY <1>1, <1>4, <2>3, StillKept
<1>5. CASE posted' = posted /\ lost' = lost \cup {head}
  <2>. DEFINE d == p + q - 1
  <2>1. /\ DOMAIN Stream = 1..(p + q) /\ Stream[p + 1] = head
    BY <1>3, StreamIs
  <2>2. /\ DOMAIN Stream' = 1..d
        /\ \A i \in 1..p : Stream'[i] = Stream[i]
        /\ \A i \in (p + 1)..d : Stream'[i] = Stream[i + 1]
    <3>1. Stream' = posted \o Tail(outgoing)
      BY <1>1, <1>5 DEF Stream
    <3>. DEFINE t == Tail(outgoing)
    <3>2. Len(t) = q - 1 /\ t \in Seq(Messages) /\ Stream' = posted \o t
          /\ \A i \in 1..(q - 1) : t[i] = outgoing[i + 1]
      BY <1>3, <3>1
    <3>. HIDE DEF t
    <3>3. DOMAIN Stream' = 1..d /\ \A i \in 1..p : Stream'[i] = posted[i]
      <4>1. /\ posted \o t \in Seq(Messages) /\ Len(posted \o t) = p + (q - 1)
            /\ \A i \in 1..p : (posted \o t)[i] = posted[i]
        BY <1>2, <1>3, <3>2
      <4>2. DOMAIN (posted \o t) = 1..Len(posted \o t)
        BY <4>1
      <4>3. p + (q - 1) = d
        BY <1>3
      <4>. QED  BY <3>2, <4>1, <4>2, <4>3
    <3>4. ASSUME NEW i \in (p + 1)..d PROVE Stream'[i] = Stream[i + 1]
      <4>1. i - p \in 1..(q - 1) /\ p + (i - p + 1) = i + 1 /\ i - p + 1 \in 1..q
        BY <1>3, <3>4
      <4>2. Stream'[i] = t[i - p]
        BY <1>2, <1>3, <3>2, <3>4
      <4>3. t[i - p] = outgoing[i - p + 1]
        BY <3>2, <4>1
      <4>4. Stream[p + (i - p + 1)] = outgoing[i - p + 1]
        BY <4>1, StreamIs
      <4>. QED  BY <4>1, <4>2, <4>3, <4>4
    <3>. QED  BY <3>3, <3>4, StreamIs
  <2>3. PICK f \in [1..d -> 1..(p + q)] :
          /\ \A i \in 1..d : Stream'[i] = Stream[f[i]] /\ f[i] # p + 1
          /\ \A i, j \in 1..d : i < j => f[i] < f[j]
          /\ \A k \in 1..(p + q) : k # p + 1 => \E i \in 1..d : f[i] = k
    <3>. DEFINE g == [i \in 1..d |-> IF i <= p THEN i ELSE i + 1]
    <3>1. g \in [1..d -> 1..(p + q)]
      BY <1>3
    <3>2. \A i \in 1..d : Stream'[i] = Stream[g[i]] /\ g[i] # p + 1
      <4>1. ASSUME NEW i \in 1..d PROVE Stream'[i] = Stream[g[i]] /\ g[i] # p + 1
        <5>1. CASE i <= p
          BY <1>3, <2>2, <4>1, <5>1
        <5>2. CASE i > p
          BY <1>3, <2>2, <4>1, <5>2
        <5>. QED  BY <1>3, <4>1, <5>1, <5>2
      <4>. QED  BY <4>1
    <3>3. \A i, j \in 1..d : i < j => g[i] < g[j]
      BY <1>3
    <3>4. ASSUME NEW k \in 1..(p + q), k # p + 1 PROVE \E i \in 1..d : g[i] = k
      <4>1. CASE k <= p
        <5>1. k \in 1..d /\ g[k] = k
          BY <1>3, <3>4, <4>1
        <5>. QED  BY <5>1
      <4>2. CASE k > p + 1
        <5>1. k - 1 \in 1..d /\ g[k - 1] = k
          BY <1>3, <3>4, <4>2
        <5>. QED  BY <5>1
      <4>. QED  BY <1>3, <3>4, <4>1, <4>2
    <3>. HIDE DEF g
    <3>. QED  BY <3>1, <3>2, <3>3, <3>4
  <2>. HIDE DEF p, q, d, head
  <2>4. p + 1 \in DOMAIN Stream
    BY <1>3, <2>1
  <2>5. \A m \in Messages : Gone(m)' <=> Gone(m)
    <3>1. ASSUME NEW m \in Messages, Gone(m)' PROVE Gone(m)
      <4>1. m \in lost \/ m = head \/ \E i \in 1..d : Stream'[i] = m
        BY <1>5, <2>2, <3>1 DEF Gone
      <4>. QED  BY <2>1, <2>3, <2>4, <4>1 DEF Gone
    <3>2. ASSUME NEW m \in Messages, Gone(m) PROVE Gone(m)'
      <4>1. CASE m \in lost \/ m = head
        BY <1>5, <4>1 DEF Gone
      <4>2. ASSUME NEW k \in DOMAIN Stream, Stream[k] = m PROVE Gone(m)'
        <5>1. CASE k = p + 1
          BY <2>1, <4>1, <4>2, <5>1
        <5>2. CASE k # p + 1
          <6>1. PICK i \in 1..d : f[i] = k
            BY <2>1, <2>3, <5>2
          <6>2. i \in DOMAIN Stream' /\ Stream'[i] = m
            BY <2>2, <2>3, <4>2, <6>1
          <6>. QED  BY <6>2 DEF Gone
        <5>. QED  BY <5>1, <5>2
      <4>. QED  BY <3>2, <4>1, <4>2 DEF Gone
    <3>. QED  BY <3>1, <3>2
  <2>6. InOrder'
    <3>1. ASSUME NEW i \in 1..d, NEW j \in 1..d, i < j, Stream'[i].check = Stream'[j].check
          PROVE  Stream'[i].n < Stream'[j].n
      <4>1. /\ f[i] \in DOMAIN Stream /\ f[j] \in DOMAIN Stream /\ f[i] < f[j]
            /\ Stream'[i] = Stream[f[i]] /\ Stream'[j] = Stream[f[j]]
        BY <2>1, <2>3, <3>1
      <4>. QED  BY <3>1, <4>1 DEF AlertsKept, InOrder
    <3>. QED  BY <2>2, <3>1 DEF InOrder
  <2>7. \A k \in DOMAIN Stream : k # p + 1 => ~Same(head, Stream[k])
    <3>1. ASSUME NEW k \in DOMAIN Stream, k # p + 1, Same(head, Stream[k]) PROVE FALSE
      <4>1. k \in Nat /\ p + 1 \in Nat /\ Stream[k] \in Messages
        BY <1>3, <2>1, <3>1, StreamIs
      <4>2. Stream[k].n \in Nat /\ head.n \in Nat
        BY <1>3, <4>1 DEF Messages
      <4>3. k < p + 1 \/ p + 1 < k
        BY <3>1, <4>1
      <4>4. Stream[k].n < head.n \/ head.n < Stream[k].n
        BY <2>1, <2>4, <3>1, <4>3 DEF AlertsKept, InOrder, Same
      <4>. QED  BY <3>1, <4>2, <4>4 DEF Same
    <3>. QED  BY <3>1
  <2>8. Apart'
    <3>1. \A m \in lost : ~Same(m, head) /\ ~Same(head, m)
      BY <2>1, <2>4 DEF AlertsKept, Apart, Same
    <3>2. \A m, k \in lost' : Same(m, k) => m = k
      BY <1>5, <3>1 DEF AlertsKept, Apart
    <3>3. ASSUME NEW m \in lost', NEW i \in 1..d PROVE ~Same(m, Stream'[i])
      <4>1. f[i] \in DOMAIN Stream /\ f[i] # p + 1 /\ Stream'[i] = Stream[f[i]]
        BY <2>1, <2>3
      <4>. QED  BY <1>5, <2>7, <4>1 DEF AlertsKept, Apart
    <3>4. \A m \in lost' : \A i \in DOMAIN Stream' : ~Same(m, Stream'[i])
      BY <2>2, <3>3
    <3>. QED  BY <3>2, <3>4 DEF Apart, Same
  <2>. QED  BY <1>1, <2>5, <2>6, <2>8, MovesKept
<1>. QED  BY <1>4, <1>5 DEF SendOutgoing, GiveUp, Post

LEMMA RTMStepKept ==
  ASSUME Types, AlertsKept, NextRTM, UNCHANGED checkVars PROVE AlertsKept'
<1>1. CASE ~SendOutgoing
  <2>1. UNCHANGED <<outgoing, posted, lost>>
    BY <1>1 DEF NextRTM, Deliver, Dial, PingFails, Break, HandleRaw, Loop, Receive, ReportError
  <2>2. Stream' = Stream
    BY <2>1 DEF Stream
  <2>. QED  BY <2>1, <2>2, StillKept DEF checkVars
<1>. QED  BY <1>1, SendOutgoingKept

(* A new alert is the newest of its check. *)
LEMMA ProbeKept == ASSUME Types, AlertsKept, NEW h \in Checks, Probe(h) PROVE AlertsKept'
<1>1. at[h] = "wait" /\ UNCHANGED <<outgoing, posted, lost>>
  BY ProbeParts DEF rtmVars
<1>2. Stream' = Stream /\ lost' = lost
  BY <1>1 DEF Stream
<1>3. \A m \in Messages : Gone(m)' <=> Gone(m)
  BY <1>2 DEF Gone
<1>4. CASE UNCHANGED <<isHealth, raised, alert, at>>
  BY <1>2, <1>4, StillKept
<1>5. CASE Raise(h)
  <2>1. InOrder' /\ Apart'
    BY <1>2 DEF AlertsKept, InOrder, Apart
  <2>2. /\ raised \in [Checks -> Nat] /\ isHealth \in [Checks -> BOOLEAN]
        /\ at \in [Checks -> {"wait", "address", "send"}] /\ alert \in [Checks -> Messages]
    BY DEF Types, CheckTypes
  <2>3. /\ raised'[h] = raised[h] + 1 /\ isHealth'[h] = ~isHealth[h] /\ at'[h] = "address"
        /\ alert'[h] = [check |-> h, down |-> isHealth[h], n |-> raised[h] + 1, to |-> FALSE]
        /\ \A k \in Checks : k # h =>
              /\ raised'[k] = raised[k] /\ isHealth'[k] = isHealth[k] /\ at'[k] = at[k]
              /\ alert'[k] = alert[k]
    BY <1>5, <2>2 DEF Raise
  <2>4. ASSUME NEW k \in Checks, Pending(k)'
        PROVE  alert'[k].check = k /\ alert'[k].n = raised'[k] /\ alert'[k].down = ~isHealth'[k]
    <3>1. CASE k = h
      <4>1. alert'[h].check = h /\ alert'[h].n = raised'[h] /\ alert'[h].down = isHealth[h]
        BY <2>3
      <4>2. isHealth[h] = ~isHealth'[h]
        BY <2>2, <2>3
      <4>. QED  BY <3>1, <4>1, <4>2, Zenon
    <3>2. CASE k # h
      <4>1. /\ raised'[k] = raised[k] /\ isHealth'[k] = isHealth[k] /\ at'[k] = at[k]
            /\ alert'[k] = alert[k]
        BY <2>3, <3>2
      <4>2. alert[k].check = k /\ alert[k].n = raised[k] /\ alert[k].down = ~isHealth[k]
        BY <2>4, <4>1 DEF AlertsKept, NewestLeaves, Pending
      <4>. QED  BY <4>1, <4>2
    <3>. QED  BY <3>1, <3>2
  <2>5. ASSUME NEW m \in Messages, Gone(m)
        PROVE  /\ m.n <= raised'[m.check]
               /\ Pending(m.check)' => m.n < raised'[m.check]
               /\ m.n = raised'[m.check] => m.down = ~isHealth'[m.check]
    <3>1. m.n \in Nat /\ m.check \in Checks
      BY DEF Messages
    <3>2. m.n <= raised[m.check] /\ (Pending(m.check) => m.n < raised[m.check])
      BY <2>5, Zenon DEF AlertsKept, NewestLeaves
    <3>3. m.n = raised[m.check] => m.down = ~isHealth[m.check]
      BY <2>5, Zenon DEF AlertsKept, NewestLeaves
    <3>4. CASE m.check = h
      <4>1. raised'[h] = raised[h] + 1 /\ raised[h] \in Nat
        BY <2>2, <2>3
      <4>2. m.n < raised'[h]
        BY <3>1, <3>2, <3>4, <4>1
      <4>3. raised'[h] \in Nat
        BY <4>1
      <4>4. m.n <= raised'[h] /\ m.n # raised'[h]
        BY <3>1, <4>2, <4>3
      <4>. QED  BY <3>4, <4>2, <4>4, Zenon
    <3>5. CASE m.check # h
      <4>1. /\ raised'[m.check] = raised[m.check] /\ isHealth'[m.check] = isHealth[m.check]
            /\ at'[m.check] = at[m.check]
        BY <2>3, <3>1, <3>5
      <4>2. Pending(m.check)' <=> Pending(m.check)
        BY <4>1 DEF Pending
      <4>. QED  BY <3>2, <3>3, <4>1, <4>2, Zenon
    <3>. QED  BY <3>4, <3>5
  <2>6. ASSUME NEW k \in Checks, NEW n \in 1..raised'[k]
        PROVE  \/ Pending(k)' /\ alert'[k].n = n
               \/ \E m \in Messages : Gone(m) /\ m.check = k /\ m.n = n
    <3>1. CASE k = h
      <4>1. ~Pending(h)
        BY <1>1 DEF Pending
      <4>2. CASE n = raised[h] + 1
        BY <2>3, <3>1, <4>2 DEF Pending
      <4>3. CASE n # raised[h] + 1
        <5>1. n \in 1..raised[h]
          BY <2>2, <2>3, <2>6, <3>1, <4>3
        <5>. QED  BY <3>1, <4>1, <5>1 DEF AlertsKept, Complete
      <4>. QED  BY <4>2, <4>3
    <3>2. CASE k # h
      BY <2>3, <2>6, <3>2 DEF AlertsKept, Complete, Pending
    <3>. QED  BY <3>1, <3>2
  <2>7. NewestLeaves'
    BY <1>3, <2>4, <2>5 DEF NewestLeaves
  <2>8. Complete'
    BY <1>3, <2>6 DEF Complete
  <2>. QED  BY <2>1, <2>7, <2>8 DEF AlertsKept
<1>. QED  BY <1>4, <1>5, ProbeParts

LEMMA AddressKept == ASSUME Types, AlertsKept, NEW h \in Checks, Address(h) PROVE AlertsKept'
<1>1. /\ at[h] = "address" /\ UNCHANGED <<outgoing, posted, lost, isHealth, raised>>
      /\ at' = [at EXCEPT ![h] = "send"]
  BY DEF Address, rtmVars
<1>2. PICK found \in BOOLEAN : alert' = [alert EXCEPT ![h].to = found]
  BY DEF Address
<1>3. Stream' = Stream
  BY <1>1 DEF Stream
<1>4. /\ at \in [Checks -> {"wait", "address", "send"}] /\ alert \in [Checks -> Messages]
  BY DEF Types, CheckTypes
<1>5. \A k \in Checks :
        /\ Pending(k)' <=> Pending(k)
        /\ alert'[k].check = alert[k].check /\ alert'[k].n = alert[k].n
        /\ alert'[k].down = alert[k].down
  BY <1>1, <1>2, <1>4 DEF Pending, Messages
<1>6. \A m \in Messages : Gone(m)' <=> Gone(m)
  BY <1>1, <1>3 DEF Gone
<1>7. InOrder' /\ Apart'
  BY <1>1, <1>3 DEF AlertsKept, InOrder, Apart
<1>8. NewestLeaves'
  <2>1. \A m \in Messages : m.check \in Checks
    BY DEF Messages
  <2>. QED  BY <1>1, <1>5, <1>6, <2>1 DEF AlertsKept, NewestLeaves
<1>9. Complete'
  BY <1>1, <1>5, <1>6 DEF AlertsKept, Complete
<1>. QED  BY <1>7, <1>8, <1>9 DEF AlertsKept

(* The newest alert of a check goes to the end of the stream. *)
LEMMA SendKept == ASSUME Types, AlertsKept, NEW h \in Checks, Send(h) PROVE AlertsKept'
<1>. DEFINE new == alert[h]
            e == Len(Stream)
<1>1. /\ at[h] = "send" /\ outgoing' = Append(outgoing, new) /\ at' = [at EXCEPT ![h] = "wait"]
      /\ UNCHANGED <<posted, lost, isHealth, alert, raised>>
  BY DEF Send
<1>2. /\ new \in Messages /\ at \in [Checks -> {"wait", "address", "send"}]
      /\ raised \in [Checks -> Nat]
  BY DEF Types, CheckTypes
<1>3. /\ Stream \in Seq(Messages) /\ e \in Nat /\ DOMAIN Stream = 1..e
  BY StreamIs
<1>4. Stream' = Append(Stream, new)
  <2>1. Stream' = posted \o Append(outgoing, new)
    BY <1>1 DEF Stream
  <2>2. posted \in Seq(Messages) /\ outgoing \in Seq(Messages)
    BY DEF Types, RTMTypes
  <2>3. posted \o Append(outgoing, new) = Append(posted \o outgoing, new)
    BY <1>2, <2>2
  <2>. QED  BY <2>1, <2>3 DEF Stream
<1>5. /\ DOMAIN Stream' = 1..(e + 1) /\ Stream'[e + 1] = new
      /\ \A i \in 1..e : Stream'[i] = Stream[i]
  BY <1>2, <1>3, <1>4
<1>6. /\ Pending(h) /\ ~Pending(h)' /\ \A k \in Checks : k # h => (Pending(k)' <=> Pending(k))
  BY <1>1, <1>2 DEF Pending
<1>7. new.check = h /\ new.n = raised[h] /\ new.down = ~isHealth[h]
  BY <1>6 DEF AlertsKept, NewestLeaves
<1>. HIDE DEF new, e
<1>8. \A m \in Messages : Gone(m)' <=> Gone(m) \/ m = new
  BY <1>1, <1>3, <1>5 DEF Gone
<1>9. ASSUME NEW m \in Messages, Gone(m), m.check = h PROVE m.n < raised[h]
  BY <1>6, <1>9 DEF AlertsKept, NewestLeaves
<1>10. \A i \in 1..e : Stream[i] \in Messages /\ Gone(Stream[i])
  BY <1>3 DEF Gone
<1>11. InOrder'
  <2>1. ASSUME NEW i \in 1..(e + 1), NEW j \in 1..(e + 1), i < j,
               Stream'[i].check = Stream'[j].check
        PROVE  Stream'[i].n < Stream'[j].n
    <3>1. i \in 1..e /\ Stream'[i] = Stream[i]
      BY <1>3, <1>5, <2>1
    <3>2. CASE j \in 1..e
      BY <1>3, <1>5, <2>1, <3>1, <3>2 DEF AlertsKept, InOrder
    <3>3. CASE j = e + 1
      <4>1. Stream'[j] = new /\ Stream[i].check = h
        BY <1>5, <1>7, <2>1, <3>1, <3>3
      <4>. QED  BY <1>7, <1>9, <1>10, <3>1, <4>1
    <3>. QED  BY <1>3, <3>2, <3>3
  <2>. QED  BY <1>5, <2>1 DEF InOrder
<1>12. Apart'
  <2>1. ASSUME NEW m \in lost PROVE ~Same(m, new)
    <3>1. m \in Messages /\ Gone(m) /\ m.n \in Nat
      BY DEF Gone, Types, RTMTypes, Messages
    <3>. QED  BY <1>2, <1>7, <1>9, <3>1 DEF Same
  <2>2. ASSUME NEW m \in lost, NEW i \in 1..(e + 1) PROVE ~Same(m, Stream'[i])
    <3>1. CASE i = e + 1
      BY <1>5, <2>1, <3>1
    <3>2. CASE i \in 1..e
      BY <1>3, <1>5, <3>2 DEF AlertsKept, Apart
    <3>. QED  BY <1>3, <3>1, <3>2
  <2>3. \A m, k \in lost' : Same(m, k) => m = k
    BY <1>1 DEF AlertsKept, Apart
  <2>. QED  BY <1>1, <1>5, <2>2, <2>3 DEF Apart, Same
<1>13. NewestLeaves'
  <2>1. ASSUME NEW k \in Checks, Pending(k)'
        PROVE  alert'[k].check = k /\ alert'[k].n = raised'[k] /\ alert'[k].down = ~isHealth'[k]
    BY <1>1, <1>6, <2>1 DEF AlertsKept, NewestLeaves
  <2>2. ASSUME NEW m \in Messages, Gone(m) \/ m = new
        PROVE  /\ m.n <= raised[m.check]
               /\ Pending(m.check)' => m.n < raised[m.check]
               /\ m.n = raised[m.check] => m.down = ~isHealth[m.check]
    <3>1. m.check \in Checks
      BY DEF Messages
    <3>2. CASE m = new
      BY <1>2, <1>6, <1>7, <3>2
    <3>3. CASE Gone(m)
      BY <1>6, <3>1, <3>3 DEF AlertsKept, NewestLeaves
    <3>. QED  BY <2>2, <3>2, <3>3
  <2>. QED  BY <1>1, <1>8, <2>1, <2>2 DEF NewestLeaves
<1>14. Complete'
  <2>1. ASSUME NEW k \in Checks, NEW n \in 1..raised[k]
        PROVE  \/ Pending(k)' /\ alert[k].n = n
               \/ \E m \in Messages : (Gone(m) \/ m = new) /\ m.check = k /\ m.n = n
    <3>1. CASE \E m \in Messages : Gone(m) /\ m.check = k /\ m.n = n
      BY <3>1
    <3>2. CASE Pending(k) /\ alert[k].n = n
      <4>1. CASE k = h
        BY <1>2, <1>7, <3>2, <4>1 DEF new
      <4>2. CASE k # h
        BY <1>6, <3>2, <4>2
      <4>. QED  BY <4>1, <4>2
    <3>. QED  BY <3>1, <3>2 DEF AlertsKept, Complete
  <2>. QED  BY <1>1, <1>8, <2>1 DEF Complete
<1>. QED  BY <1>11, <1>12, <1>13, <1>14 DEF AlertsKept

LEMMA NextKept == Types /\ AlertsKept /\ [Next]_vars => Types' /\ AlertsKept'
<1>. SUFFICES ASSUME Types, AlertsKept, [Next]_vars PROVE AlertsKept'
  BY NextTypes
<1>1. CASE UNCHANGED vars
  <2>1. Stream' = Stream /\ lost' = lost /\ UNCHANGED <<isHealth, raised, alert, at>>
    BY <1>1 DEF vars, rtmVars, checkVars, Stream
  <2>. QED  BY <2>1, StillKept
<1>. QED  BY <1>1, RTMStepKept, ProbeKept, AddressKept, SendKept DEF Next

LEMMA KeptAlways == Spec => [](Types /\ AlertsKept)
  BY InitTypes, InitKept, NextKept, PTL DEF Spec

(* Whatever breaks and whenever, an alert is neither lost twice nor         *)
(* repeated nor forgotten.                                                  *)
THEOREM EachAlertOnce == Spec => []AlertsOnce
<1>1. Types /\ AlertsKept => AlertsOnce
  <2>. SUFFICES ASSUME Types, AlertsKept, NEW h \in Checks, NEW n \in 1..raised[h]
                PROVE  Cardinality({i \in DOMAIN Stream : Stream[i].check = h /\ Stream[i].n = n})
                         + Cardinality({m \in lost : m.check = h /\ m.n = n})
                         + (IF Pending(h) /\ alert[h].n = n THEN 1 ELSE 0) = 1
    BY DEF AlertsOnce
  <2>. DEFINE S == {i \in DOMAIN Stream : Stream[i].check = h /\ Stream[i].n = n}
              L == {m \in lost : m.check = h /\ m.n = n}
              P == Pending(h) /\ alert[h].n = n
  <2>1. /\ DOMAIN Stream = 1..Len(Stream) /\ Len(Stream) \in Nat
        /\ \A i \in DOMAIN Stream : Stream[i] \in Messages /\ Gone(Stream[i])
        /\ \A m \in lost : m \in Messages /\ Gone(m)
    BY StreamIs DEF Gone, Types, RTMTypes
  <2>2. ASSUME P, NEW m \in Messages, Gone(m), m.check = h PROVE m.n # n
    <3>1. m.n < raised[h] /\ alert[h].n = raised[h] /\ raised[h] \in Nat /\ m.n \in Nat
      BY <2>2 DEF AlertsKept, NewestLeaves, Types, CheckTypes, Messages
    <3>. QED  BY <2>2, <3>1
  <2>3. P => S = {} /\ L = {}
    BY <2>1, <2>2
  <2>4. \A i, j \in S : i = j
    <3>1. ASSUME NEW i \in S, NEW j \in S, i # j PROVE FALSE
      <4>1. i \in Nat /\ j \in Nat /\ n \in Nat
        BY <2>1
      <4>2. i < j \/ j < i
        BY <3>1, <4>1
      <4>. QED  BY <4>1, <4>2 DEF AlertsKept, InOrder
    <3>. QED  BY <3>1
  <2>5. \A m, k \in L : m = k
    BY DEF AlertsKept, Apart, Same
  <2>6. S = {} \/ L = {}
    BY DEF AlertsKept, Apart, Same
  <2>7. P \/ S # {} \/ L # {}
    <3>1. CASE \E m \in Messages : Gone(m) /\ m.check = h /\ m.n = n
      BY <3>1 DEF Gone
    <3>. QED  BY <3>1 DEF AlertsKept, Complete
  <2>8. S = {} \/ \E x : S = {x}
    BY <2>4
  <2>9. L = {} \/ \E x : L = {x}
    BY <2>5
  <2>. HIDE DEF S, L, P
  <2>10. /\ S = {} => Cardinality(S) = 0
         /\ S # {} => Cardinality(S) = 1
         /\ L = {} => Cardinality(L) = 0
         /\ L # {} => Cardinality(L) = 1
    BY <2>8, <2>9, FS_EmptySet, FS_Singleton
  <2>11. Cardinality(S) + Cardinality(L) + (IF P THEN 1 ELSE 0) = 1
    BY <2>3, <2>6, <2>7, <2>10
  <2>. QED  BY <2>11 DEF S, L, P
<1>. QED  BY <1>1, KeptAlways, PTL

(* However often the connection breaks, the channel hears of a check's      *)
(* changes in their order, and its newest alert is true.                    *)
THEOREM NewestTrue == Spec => []NewestTellsTruth
<1>1. Types /\ AlertsKept => NewestTellsTruth
  <2>. SUFFICES ASSUME Types, AlertsKept PROVE NewestTellsTruth
    OBVIOUS
  <2>1. \A m \in {Stream[i] : i \in DOMAIN Stream} \cup lost : m \in Messages /\ Gone(m)
    BY StreamIs DEF Gone, Types, RTMTypes
  <2>. QED  BY <2>1 DEF AlertsKept, InOrder, NewestLeaves, NewestTellsTruth
<1>. QED  BY <1>1, KeptAlways, PTL

-----------------------------------------------------------------------------
(* HealthCheck implements AlertQueue *)

(* A check that has raised an odd number of alerts is down.                 *)
Alternates == \A h \in Checks : isHealth[h] <=> raised[h] % 2 = 0

LEMMA Turned ==
  ASSUME NEW n \in Nat PROVE (n + 1) % 2 = 0 <=> ~(n % 2 = 0)
  OBVIOUS

LEMMA NextAlternates == Types /\ Alternates /\ [Next]_vars => Alternates'
<1>. SUFFICES ASSUME Types, Alternates, [Next]_vars PROVE Alternates'
  OBVIOUS
<1>1. CASE UNCHANGED <<isHealth, raised>>
  BY <1>1 DEF Alternates
<1>2. ASSUME NEW h \in Checks, Raise(h) PROVE Alternates'
  <2>1. /\ isHealth' = [isHealth EXCEPT ![h] = ~@] /\ isHealth \in [Checks -> BOOLEAN]
        /\ raised' = [raised EXCEPT ![h] = @ + 1] /\ raised \in [Checks -> Nat]
    BY <1>2 DEF Raise, Types, CheckTypes
  <2>2. ASSUME NEW k \in Checks PROVE isHealth'[k] <=> raised'[k] % 2 = 0
    <3>1. CASE k = h
      <4>1. (raised[h] + 1) % 2 = 0 <=> ~(raised[h] % 2 = 0)
        BY <2>1, Turned
      <4>2. isHealth'[h] = ~isHealth[h] /\ raised'[h] = raised[h] + 1
        BY <2>1
      <4>. QED  BY <3>1, <4>1, <4>2 DEF Alternates
    <3>2. CASE k # h
      <4>1. isHealth'[k] = isHealth[k] /\ raised'[k] = raised[k]
        BY <2>1, <3>2
      <4>. QED  BY <4>1 DEF Alternates
    <3>. QED  BY <3>1, <3>2
  <2>. QED  BY <2>2 DEF Alternates
<1>3. \/ UNCHANGED <<isHealth, raised>> \/ \E h \in Checks : Raise(h)
  BY ProbeParts DEF Next, vars, checkVars, Address, Send
<1>. QED  BY <1>1, <1>2, <1>3

(* A step that neither changes the queue nor lets a check wait.             *)
LEMMA QueueStutters ==
  ASSUME UNCHANGED <<outgoing, posted, lost, raised>>,
         \A k \in Checks : Pending(k)' <=> Pending(k)
  PROVE  UNCHANGED Q!vars
  BY DEF Q!vars

(* What the manager takes off the queue is posted or given up.              *)
LEMMA SendOutgoingRefines ==
  ASSUME SendOutgoing, UNCHANGED checkVars PROVE Q!Handle
<1>1. /\ outgoing # <<>> /\ outgoing' = Tail(outgoing)
      /\ \/ Head(outgoing).to /\ posted' = Append(posted, Head(outgoing)) /\ UNCHANGED lost
         \/ lost' = lost \cup {Head(outgoing)} /\ UNCHANGED posted
  BY DEF SendOutgoing, GiveUp, Post
<1>2. raised' = raised /\ at' = at
  BY DEF checkVars
<1>. QED  BY <1>1, <1>2 DEF Q!Handle, Pending

LEMMA RaiseRefines ==
  ASSUME Types, NEW h \in Checks, at[h] = "wait", Raise(h), UNCHANGED rtmVars
  PROVE  Q!Raise(h)
<1>1. /\ raised' = [raised EXCEPT ![h] = @ + 1] /\ at' = [at EXCEPT ![h] = "address"]
      /\ at \in [Checks -> {"wait", "address", "send"}]
      /\ UNCHANGED <<outgoing, posted, lost>>
  BY DEF Raise, Types, CheckTypes, rtmVars
<1>2. {k \in Checks : Pending(k)}' = {k \in Checks : Pending(k)} \cup {h}
  BY <1>1 DEF Pending
<1>. QED  BY <1>1, <1>2 DEF Q!Raise, Pending

(* The alert that is sent is the newest one, and says what its number does. *)
LEMMA SendRefines ==
  ASSUME Types, AlertsKept, Alternates, NEW h \in Checks, Send(h) PROVE Q!Send(h)
<1>1. /\ at[h] = "send" /\ Len(outgoing) < OutCap /\ outgoing' = Append(outgoing, alert[h])
      /\ at' = [at EXCEPT ![h] = "wait"] /\ UNCHANGED <<posted, lost, raised>>
  BY DEF Send
<1>2. /\ at \in [Checks -> {"wait", "address", "send"}] /\ alert[h] \in Messages
      /\ raised[h] \in Nat /\ isHealth[h] \in BOOLEAN
  BY DEF Types, CheckTypes
<1>3. Pending(h)
  BY <1>1 DEF Pending
<1>4. alert[h].check = h /\ alert[h].n = raised[h] /\ alert[h].down = ~isHealth[h]
  BY <1>3 DEF AlertsKept, NewestLeaves
<1>5. raised[h] % 2 \in {0, 1}
  BY <1>2
<1>6. alert[h].down = (raised[h] % 2 = 1)
  <2>1. isHealth[h] <=> raised[h] % 2 = 0
    BY DEF Alternates
  <2>2. raised[h] % 2 = 1 <=> ~(raised[h] % 2 = 0)
    BY <1>5
  <2>. QED  BY <1>2, <1>4, <2>1, <2>2, Zenon
<1>7. alert[h] = [check |-> alert[h].check, down |-> alert[h].down, n |-> alert[h].n,
                  to |-> alert[h].to] /\ alert[h].to \in BOOLEAN
  BY <1>2 DEF Messages
<1>8. alert[h] = Q!Alert(h, raised[h], alert[h].to)
  BY <1>4, <1>6, <1>7, Zenon DEF Q!Alert
<1>9. {k \in Checks : Pending(k)}' = {k \in Checks : Pending(k)} \ {h}
  BY <1>1, <1>2 DEF Pending
<1>. QED  BY <1>1, <1>3, <1>7, <1>8, <1>9 DEF Q!Send

LEMMA QueueStep ==
  Types /\ AlertsKept /\ Alternates /\ [Next]_vars => [Q!Next]_(Q!vars)
<1>. SUFFICES ASSUME Types, AlertsKept, Alternates, [Next]_vars
              PROVE  Q!Next \/ UNCHANGED Q!vars
  OBVIOUS
<1>1. CASE UNCHANGED vars
  BY <1>1, QueueStutters DEF vars, rtmVars, checkVars, Pending
<1>2. CASE NextRTM /\ UNCHANGED checkVars
  <2>1. CASE SendOutgoing
    BY <1>2, <2>1, SendOutgoingRefines DEF Q!Next
  <2>2. CASE ~SendOutgoing
    <3>1. UNCHANGED <<outgoing, posted, lost>>
      BY <1>2, <2>2
         DEF NextRTM, Deliver, Dial, PingFails, Break, HandleRaw, Loop, Receive, ReportError
    <3>. QED  BY <1>2, <3>1, QueueStutters DEF checkVars, Pending
  <2>. QED  BY <2>1, <2>2
<1>3. ASSUME NEW h \in Checks, Probe(h) PROVE Q!Next \/ UNCHANGED Q!vars
  <2>1. at[h] = "wait" /\ UNCHANGED rtmVars
    BY <1>3, ProbeParts
  <2>2. CASE Raise(h)
    BY <2>1, <2>2, RaiseRefines DEF Q!Next
  <2>3. CASE UNCHANGED <<isHealth, raised, alert, at>>
    BY <2>1, <2>3, QueueStutters DEF rtmVars, Pending
  <2>. QED  BY <1>3, <2>2, <2>3, ProbeParts
<1>4. ASSUME NEW h \in Checks, Address(h) PROVE UNCHANGED Q!vars
  <2>1. /\ at[h] = "address" /\ at' = [at EXCEPT ![h] = "send"]
        /\ at \in [Checks -> {"wait", "address", "send"}]
        /\ UNCHANGED <<outgoing, posted, lost, raised>>
    BY <1>4 DEF Address, rtmVars, Types, CheckTypes
  <2>. QED  BY <2>1, QueueStutters DEF Pending
<1>5. ASSUME NEW h \in Checks, Send(h) PROVE Q!Next
  BY <1>5, SendRefines DEF Q!Next
<1>. QED  BY <1>1, <1>2, <1>3, <1>4, <1>5 DEF Next

(* For every number of checks and all capacities: seen from outside, alerts *)
(* take turns and go through a bounded queue that repeats none.             *)
THEOREM QueueRefinement == Spec => ImplementsAlertQueue
<1>1. Init => Q!Init /\ Alternates
  BY DEF Init, InitRTM, Q!Init, Pending, Alternates
<1>. QED
  BY <1>1, InitTypes, InitKept, NextKept, NextAlternates, QueueStep, PTL
  DEF Spec, ImplementsAlertQueue, Q!Spec

-----------------------------------------------------------------------------
(* Events *)

LEMMA InitCounted == Init => EventsCounted
<1>. SUFFICES ASSUME Init PROVE EventsCounted
  OBVIOUS
<1>1. 1 \in Connections
  BY BudgetAssumption DEF Connections
<1>. QED  BY <1>1 DEF Init, InitRTM, EventsCounted, Events, EventsLeft

(* What EventsLeft is, state by state.                                      *)
LEMMA EventsLeftIs ==
  /\ EventsLeft \in {0, 1, 2, 3}
  /\ mgr \in DOMAIN After => EventsLeft >= 1
  BY States DEF EventsLeft

(* A report uses up one of the events that were left.                       *)
LEMMA DeliverCounted == Types /\ EventsCounted /\ Deliver => EventsCounted'
<1>. SUFFICES ASSUME Types, EventsCounted, Deliver, breaks' = 0 PROVE EventsCounted'
  BY DEF EventsCounted, Events
<1>1. /\ mgr \in DOMAIN After /\ mgr' = After[mgr] /\ incoming' = incoming + 1
      /\ incoming \in Nat /\ long \in Nat /\ frames \in Nat /\ dials \in Nat /\ cur \in Nat
      /\ breaks = 0 /\ long' = long /\ frames' = frames /\ dials' = dials
      /\ reader \in [Connections -> {"off", "loop", "read", "raw", "error"}]
      /\ 1 \in Connections
  BY CapacityAssumption, BudgetAssumption
     DEF Deliver, Report, Types, RTMTypes, envVars, Connections
<1>2. mgr \in {"connecting", "connection_error", "connected", "event", "invalid_auth"}
  BY <1>1, States DEF EventsCounted, Events
<1>3. /\ After["connecting"] = "dial" /\ After["connection_error"] = "connecting"
      /\ After["connected"] = "select" /\ After["event"] = "select"
      /\ After["invalid_auth"] = "done"
  BY DEF After
<1>4. CASE mgr = "connected"
  <2>1. cur = 0 /\ cur' = 1 /\ link' = "open" /\ reader' = [reader EXCEPT ![1] = "read"]
    BY <1>1, <1>4 DEF Deliver, EventsCounted, Events
  <2>2. EventsLeft = 1 /\ EventsLeft' = 0 /\ mgr' = "select"
    BY <1>1, <1>3, <1>4 DEF EventsLeft
  <2>3. \A k \in Connections : reader[k] = "off"
    BY <1>1, <2>1 DEF EventsCounted, Events, Connections
  <2>4. /\ reader'[1] = "read"
        /\ \A k \in Connections : reader'[k] # "error" /\ (k # 1 => reader'[k] = "off")
    BY <1>1, <2>1, <2>3
  <2>5. incoming + 1 <= 2 + 2 * dials + frames + long
    BY <1>1, <2>2, <2>3 DEF EventsCounted, Events
  <2>6. incoming' + EventsLeft' + (IF reader'[1] = "raw" THEN 1 ELSE 0)
          <= 2 + 2 * dials' + frames' + long'
    BY <1>1, <2>2, <2>4, <2>5
  <2>. QED  BY <2>1, <2>2, <2>4, <2>6 DEF EventsCounted, Events
<1>5. CASE mgr # "connected"
  <2>1. UNCHANGED <<cur, link, reader>>
    BY <1>5 DEF Deliver
  <2>2. EventsLeft' = EventsLeft - 1
    BY <1>1, <1>2, <1>3, <1>5 DEF EventsLeft
  <2>3. mgr' \in {"select", "event"} <=> mgr \in {"select", "event"}
    BY <1>1, <1>2, <1>3, <1>5
  <2>4. mgr' # "disconnected" /\ EventsLeft \in {0, 1, 2, 3}
    BY <1>1, <1>2, <1>3, EventsLeftIs
  <2>. QED  BY <1>1, <2>1, <2>2, <2>3, <2>4 DEF EventsCounted, Events
<1>. QED  BY <1>4, <1>5

LEMMA DialCounted == Types /\ EventsCounted /\ Dial => EventsCounted'
<1>. SUFFICES ASSUME Types, EventsCounted, Dial, breaks' = 0 PROVE EventsCounted'
  BY DEF EventsCounted, Events
<1>1. /\ mgr = "dial" /\ incoming \in Nat /\ long \in Nat /\ frames \in Nat /\ dials \in Nat /\ breaks = 0
      /\ UNCHANGED <<link, cur, reader, incoming, long, frames>>
      /\ \/ mgr' = "connected" /\ dials' = dials
         \/ mgr' \in {"connection_error", "invalid_auth"} /\ dials' = dials + 1
  BY CapacityAssumption DEF Dial, Types, RTMTypes
<1>2. EventsLeft = 1 /\ EventsLeft' <= 1 + 2 * (dials' - dials) /\ EventsLeft' \in {0, 1, 2, 3}
  BY <1>1 DEF EventsLeft
<1>. QED  BY <1>1, <1>2 DEF EventsCounted, Events

LEMMA RTMStepCounted == Types /\ EventsCounted /\ NextRTM => EventsCounted'
<1>. SUFFICES ASSUME Types, EventsCounted, NextRTM, breaks' = 0 PROVE EventsCounted'
  BY DEF EventsCounted, Events
<1>1. /\ incoming \in Nat /\ long \in Nat /\ frames \in Nat /\ dials \in Nat /\ breaks \in Nat
      /\ reader \in [Connections -> {"off", "loop", "read", "raw", "error"}]
      /\ 1 \in Connections
  BY CapacityAssumption, BudgetAssumption DEF Types, RTMTypes, Connections
<1>2. CASE SendOutgoing
  <2>1. /\ mgr = "select" /\ UNCHANGED <<link, cur, reader, incoming, frames, breaks, dials>>
        /\ \/ mgr' = "event" /\ long' = long + 1
           \/ /\ mgr' \in {"select", "event"} /\ long' = long
              /\ link = "broken" \/ mgr' = mgr
    BY <1>2 DEF SendOutgoing, GiveUp, envVars
  <2>2. \/ mgr' = "event" /\ long' = long + 1
        \/ mgr' = mgr /\ long' = long
    BY <2>1 DEF EventsCounted
  <2>3. EventsLeft = 0 /\ EventsLeft' = long' - long
    BY <1>1, <2>1, <2>2 DEF EventsLeft
  <2>4. incoming' + EventsLeft' + (IF reader'[1] = "raw" THEN 1 ELSE 0)
          <= 2 + 2 * dials' + frames' + long'
    BY <1>1, <2>1, <2>2, <2>3 DEF EventsCounted, Events
  <2>. QED  BY <2>1, <2>2, <2>4 DEF EventsCounted, Events
<1>3. CASE PingFails
  BY <1>3 DEF PingFails, EventsCounted, Events, envVars
<1>4. CASE Break
  BY <1>1, <1>4 DEF Break
<1>5. ASSUME NEW k \in Connections, HandleRaw(k) PROVE EventsCounted'
  <2>1. /\ mgr = "select" /\ mgr' \in {"select", "event"} /\ reader[k] = "raw"
        /\ reader' = [reader EXCEPT ![k] = "loop"]
        /\ UNCHANGED <<link, cur, incoming, long, frames, breaks, dials>>
    BY <1>5 DEF HandleRaw, envVars
  <2>2. k = 1 /\ cur = 1
    BY <2>1 DEF EventsCounted, Events, Connections
  <2>3. EventsLeft = 0 /\ EventsLeft' \in 0..1
    BY <2>1 DEF EventsLeft
  <2>4. /\ link' # "broken" /\ mgr' # "disconnected" /\ cur' = 1 /\ link' = "open"
        /\ incoming + 1 <= 2 + 2 * dials + frames + long
    BY <1>1, <2>1, <2>2, <2>3 DEF EventsCounted, Events
  <2>5. \A q \in Connections : reader'[q] # "error" /\ (q # 1 => reader'[q] = "off")
    BY <1>1, <2>1, <2>2 DEF EventsCounted, Events
  <2>6. reader'[1] = "loop"
    BY <1>1, <2>1, <2>2
  <2>7. /\ incoming' = incoming /\ long' = long /\ dials' = dials /\ frames' = frames
        /\ (IF reader'[1] = "raw" THEN 1 ELSE 0) = 0
    BY <2>1, <2>6
  <2>8. ASSUME NEW n \in 0..1, n = EventsLeft'
        PROVE  incoming + EventsLeft' + 0 <= 2 + 2 * dials + frames + long
    <3>1. incoming + n + 0 <= 2 + 2 * dials + frames + long
      BY <1>1, <2>4
    <3>. QED  BY <3>1, <2>8
  <2>. QED  BY <2>1, <2>3, <2>4, <2>5, <2>7, <2>8 DEF EventsCounted, Events
<1>6. ASSUME NEW k \in Connections, Loop(k) \/ Receive(k) \/ ReportError(k)
      PROVE  EventsCounted'
  <2>1. /\ UNCHANGED <<mgr, link, cur, long, breaks, dials>> /\ breaks = 0
        /\ reader[k] # "error" /\ reader[k] # "off"
    BY <1>6 DEF Loop, Receive, ReportError, EventsCounted, Events, envVars
  <2>2. /\ k = 1 /\ cur = 1 /\ link = "open"
        /\ EventsLeft' = EventsLeft /\ EventsLeft \in {0, 1, 2, 3}
    BY <2>1, EventsLeftIs DEF EventsCounted, Events, EventsLeft, Connections
  <2>3. CASE Loop(k)
    <3>1. /\ reader[k] = "loop" /\ UNCHANGED <<incoming, long, frames>>
          /\ \E q \in {"read", "off"} : reader' = [reader EXCEPT ![k] = q]
      BY <2>3 DEF Loop, envVars
    <3>. QED  BY <1>1, <2>1, <2>2, <3>1 DEF EventsCounted, Events
  <2>4. CASE Receive(k)
    <3>1. /\ reader[k] = "read" /\ frames' = frames + 1 /\ incoming' = incoming
          /\ reader' = [reader EXCEPT ![k] = "raw"]
      BY <2>2, <2>4 DEF Receive, KeepRunning
    <3>. QED  BY <1>1, <2>1, <2>2, <3>1 DEF EventsCounted, Events
  <2>. QED  BY <1>6, <2>1, <2>3, <2>4 DEF ReportError
<1>. QED  BY <1>2, <1>3, <1>4, <1>5, <1>6, DeliverCounted, DialCounted DEF NextRTM

LEMMA NextCounted == Types /\ EventsCounted /\ [Next]_vars => EventsCounted'
<1>. SUFFICES ASSUME Types, EventsCounted, [Next]_vars PROVE EventsCounted'
  OBVIOUS
<1>1. CASE UNCHANGED rtmVars
  BY <1>1 DEF rtmVars, envVars, EventsCounted, Events, EventsLeft
<1>2. ASSUME NEW h \in Checks, Send(h) PROVE EventsCounted'
  BY <1>2 DEF Send, envVars, EventsCounted, Events, EventsLeft
<1>. QED  BY <1>1, <1>2, RTMStepCounted, ProbeParts DEF Next, vars, Address

(* Whatever the capacity of the channel nobody reads, and however often a   *)
(* dial fails: it is not the first connection that fills it, but the frames *)
(* it receives, the messages too long for Slack and its break.              *)
THEOREM RoomAtFirst == Spec => []RoomUntilBreak
<1>1. Types /\ EventsCounted => RoomUntilBreak
  <2>. SUFFICES ASSUME Types, EventsCounted, breaks = 0, Events <= InCap
       PROVE  /\ incoming <= Events
              /\ mgr \in DOMAIN After => incoming < InCap
    BY DEF RoomUntilBreak
  <2>1. incoming \in Nat /\ long \in Nat /\ frames \in Nat /\ dials \in Nat
    BY CapacityAssumption DEF Types, RTMTypes
  <2>. QED  BY <2>1, EventsLeftIs, CapacityAssumption DEF EventsCounted, Events
<1>. QED  BY <1>1, InitTypes, NextTypes, InitCounted, NextCounted, PTL DEF Spec

(* The manager has an event to report and the channel is full.              *)
Stuck == mgr \in DOMAIN After /\ incoming = InCap

(* A manager that finds the channel full does so for ever, and no alert is  *)
(* posted or given up any more.                                             *)
THEOREM StuckForEver ==
  ASSUME NEW p, NEW l
  PROVE  Spec => [](Stuck /\ posted = p /\ lost = l => [](Stuck /\ posted = p /\ lost = l))
<1>1. Stuck /\ posted = p /\ lost = l /\ Types /\ [Next]_vars
        => (Stuck /\ posted = p /\ lost = l)'
  <2>. SUFFICES ASSUME Stuck, Types, [Next]_vars
                PROVE  UNCHANGED <<mgr, incoming, posted, lost>>
    BY DEF Stuck
  <2>1. mgr \notin {"dial", "select", "done"} /\ ~(incoming < InCap)
    BY States, CapacityAssumption DEF Stuck
  <2>2. CASE NextRTM
    BY <2>1, <2>2 DEF NextRTM, Deliver, Dial, SendOutgoing, PingFails, Break, HandleRaw,
                      Loop, Receive, ReportError, Report
  <2>3. CASE \E h \in Checks : Probe(h) \/ Address(h) \/ Send(h)
    BY <2>3, ProbeParts DEF Address, Send, rtmVars
  <2>. QED  BY <2>2, <2>3 DEF Next, vars, rtmVars
<1>. QED  BY <1>1, TypesAlways, PTL DEF Spec
=============================================================================
