----------------------------- MODULE HealthCheck -----------------------------
(***************************************************************************)
(* The health checks of abb (abb/health_check.go:140-201): one goroutine    *)
(* per enabled check, which probes a URL, counts failures and sends an      *)
(* alert through the queue of SlackRTM when the check goes down or comes    *)
(* back up.                                                                 *)
(***************************************************************************)
EXTENDS SlackRTM

CONSTANTS
    Checks,     \* the enabled health checks
    MaxProbes   \* how many ticks each check gets

ASSUME ProbesAssumption == MaxProbes \in Nat

VARIABLES
    failed,    \* failedCount of each check
    isHealth,  \* IsHealth of each check
    at,        \* what each goroutine does: wait for a tick, look up the channel, send
    alert,     \* the message it is about to send
    raised,    \* history: how many alerts each check has raised
    streak,    \* history: how many probes in a row have failed
    probes     \* how many probes each check has made

checkVars == <<failed, isHealth, at, alert, raised, streak, probes>>
vars == <<rtmVars, checkVars>>

(* A message: its text (the check, and whether it is down), its number for  *)
(* that check, and whether the Slack channel was found.                     *)
Messages == [check : Checks, down : BOOLEAN, n : Nat, to : BOOLEAN]

Results == {"ok", "not_ok", "error"}

Init ==
    /\ InitRTM
    /\ failed = [h \in Checks |-> 0] /\ isHealth = [h \in Checks |-> TRUE]
    /\ at = [h \in Checks |-> "wait"]
    /\ alert = [h \in Checks |-> [check |-> h, down |-> FALSE, n |-> 0, to |-> FALSE]]
    /\ raised = [h \in Checks |-> 0] /\ streak = [h \in Checks |-> 0]
    /\ probes = [h \in Checks |-> 0]

(* A slip the runs must catch: an answer does not clear the count.          *)
CountedNeverReset(count, result) ==
    CASE result = "error" -> count + 2
      [] result = "not_ok" -> count + 1
      [] OTHER -> count

(* An error has no response, so it is counted by both ifs: twice.           *)
Counted(count, result) ==
    CASE result = "error" -> count + 2
      [] result = "not_ok" -> count + 1
      [] OTHER -> 0

(* Whether the count turns the check over. *)
Turns(h, count) == IF isHealth[h] THEN count >= 3 ELSE count = 0

(* A slip the runs must catch: a check that is reported stays as it was.    *)
RaiseOnly(h) ==
    /\ UNCHANGED isHealth
    /\ raised' = [raised EXCEPT ![h] = @ + 1]
    /\ alert' = [alert EXCEPT ![h] =
          [check |-> h, down |-> isHealth[h], n |-> raised[h] + 1, to |-> FALSE]]
    /\ at' = [at EXCEPT ![h] = "address"]

Raise(h) ==
    /\ isHealth' = [isHealth EXCEPT ![h] = ~@]
    /\ raised' = [raised EXCEPT ![h] = @ + 1]
    /\ alert' = [alert EXCEPT ![h] =
          [check |-> h, down |-> isHealth[h], n |-> raised[h] + 1, to |-> FALSE]]
    /\ at' = [at EXCEPT ![h] = "address"]

Probe(h) ==
    /\ at[h] = "wait" /\ probes[h] < MaxProbes
    /\ probes' = [probes EXCEPT ![h] = @ + 1]
    /\ \E result \in Results :
          LET count == Counted(failed[h], result) IN
          /\ failed' = [failed EXCEPT ![h] = count]
          /\ streak' = [streak EXCEPT ![h] = IF result = "ok" THEN 0 ELSE @ + 1]
          /\ \/ Turns(h, count) /\ Raise(h)
             \/ ~Turns(h, count) /\ UNCHANGED <<isHealth, raised, alert, at>>
    /\ UNCHANGED rtmVars

(* GetGroupIDByName asks Slack for the channel; on an error the message is  *)
(* addressed to the channel "".                                             *)
Address(h) ==
    /\ at[h] = "address"
    /\ \E found \in BOOLEAN : alert' = [alert EXCEPT ![h].to = found]
    /\ at' = [at EXCEPT ![h] = "send"]
    /\ UNCHANGED <<rtmVars, failed, isHealth, raised, streak, probes>>

(* Slips the runs must catch: a send that drops the alert when the queue is *)
(* full, and one that does not heed the capacity.                           *)
SendOrDrop(h) ==
    /\ at[h] = "send"
    /\ outgoing' = IF Len(outgoing) < OutCap THEN Append(outgoing, alert[h]) ELSE outgoing
    /\ at' = [at EXCEPT ![h] = "wait"]
    /\ UNCHANGED <<mgr, link, cur, reader, incoming, posted, lost, envVars>>
    /\ UNCHANGED <<failed, isHealth, alert, raised, streak, probes>>
SendUnbounded(h) ==
    /\ at[h] = "send"
    /\ outgoing' = Append(outgoing, alert[h])
    /\ at' = [at EXCEPT ![h] = "wait"]
    /\ UNCHANGED <<mgr, link, cur, reader, incoming, posted, lost, envVars>>
    /\ UNCHANGED <<failed, isHealth, alert, raised, streak, probes>>

(* SendMessage blocks while the queue is full. *)
Send(h) ==
    /\ at[h] = "send" /\ Len(outgoing) < OutCap
    /\ outgoing' = Append(outgoing, alert[h])
    /\ at' = [at EXCEPT ![h] = "wait"]
    /\ UNCHANGED <<mgr, link, cur, reader, incoming, posted, lost, envVars>>
    /\ UNCHANGED <<failed, isHealth, alert, raised, streak, probes>>

Next ==
    \/ NextRTM /\ UNCHANGED checkVars
    \/ \E h \in Checks : Probe(h) \/ Address(h) \/ Send(h)

(* A goroutine that can run does.  A blocked sender waits in the channel's  *)
(* queue of senders and select picks at random among the cases that are     *)
(* ready, so one that is ready again and again is taken (SF).  Nothing is   *)
(* assumed of Slack, of ticks or of probes: they may never come or answer,  *)
(* and a dial, which has no timeout, may never return.                      *)
Fairness ==
    /\ WF_vars(Deliver /\ UNCHANGED checkVars)
    /\ SF_vars(SendOutgoing /\ UNCHANGED checkVars)
    /\ WF_vars(PingFails /\ UNCHANGED checkVars)
    /\ \A h \in Checks : SF_vars(Send(h))

Spec == Init /\ [][Next]_vars
FairSpec == Spec /\ Fairness

-----------------------------------------------------------------------------
(* Properties *)

(* Type invariant: the goroutines, the channels with their capacities, and  *)
(* the counters.                                                            *)
TypeOK ==
    /\ mgr \in ManagerStates /\ link \in {"none", "open", "broken"}
    /\ cur \in 0..(MaxBreaks + 1)
    /\ reader \in [Connections -> {"off", "loop", "read", "raw", "error"}]
    /\ incoming \in 0..InCap
    /\ outgoing \in Seq(Messages) /\ Len(outgoing) <= OutCap
    /\ posted \in Seq(Messages) /\ lost \in SUBSET Messages
    /\ long \in Nat /\ frames \in Nat /\ breaks \in Nat /\ dials \in Nat
    /\ failed \in [Checks -> Nat] /\ isHealth \in [Checks -> BOOLEAN]
    /\ at \in [Checks -> {"wait", "address", "send"}]
    /\ alert \in [Checks -> Messages]
    /\ raised \in [Checks -> Nat] /\ streak \in [Checks -> Nat]
    /\ probes \in [Checks -> Nat]

(* The messages on their way to the reader of the channel, oldest first.    *)
Stream == posted \o outgoing

Pending(h) == at[h] # "wait"

(* Every alert a check has raised is in exactly one place: about to be      *)
(* sent, queued, posted or lost.  A reconnect neither repeats nor           *)
(* forgets a queued alert, and an alert that meets a broken connection, or  *)
(* is too long for Slack, is given up, not tried again.                     *)
AlertsOnce ==
    \A h \in Checks : \A n \in 1..raised[h] :
        Cardinality({i \in DOMAIN Stream : Stream[i].check = h /\ Stream[i].n = n})
          + Cardinality({m \in lost : m.check = h /\ m.n = n})
          + (IF Pending(h) /\ alert[h].n = n THEN 1 ELSE 0) = 1

(* The channel is never told of a check's changes in the wrong order, and   *)
(* the newest alert of a check, queued, posted or lost, says what the check *)
(* holds to be true.                                                        *)
NewestTellsTruth ==
    /\ \A i, j \in DOMAIN Stream :
          i < j /\ Stream[i].check = Stream[j].check => Stream[i].n < Stream[j].n
    /\ \A m \in {Stream[i] : i \in DOMAIN Stream} \cup lost :
          m.n = raised[m.check] => m.down = ~isHealth[m.check]

(* With all the connections, readers and events left out, alerts go through *)
(* a bounded queue: those of a check say "down" and "up" in turns, it raises *)
(* none while one of its own waits (health_check.go:178-199), and each in   *)
(* its turn is posted or given up.                                          *)
Q == INSTANCE AlertQueue WITH Cap <- OutCap, queue <- outgoing,
                              waiting <- {h \in Checks : Pending(h)}

ImplementsAlertQueue == Q!Spec

(* Nothing receives the events, so what fills their channel is all that was *)
(* ever reported.  Until a connection breaks that is no more than two events *)
(* for each failed dial, two for the connection, one for each frame and one *)
(* for each message too long: with that much room the manager does not wait *)
(* (slack/websocket_managed_conn.go).                                       *)
Events == 2 + 2 * dials + frames + long

RoomUntilBreak ==
    breaks = 0 /\ Events <= InCap =>
        /\ incoming <= Events
        /\ mgr \in DOMAIN After => incoming < InCap

(* What makes RoomUntilBreak inductive: the events the manager has yet to   *)
(* report before it waits for messages, and the frame its reader holds.     *)
EventsLeft ==
    CASE mgr = "connecting" -> 2
      [] mgr = "connection_error" -> 3
      [] mgr \in {"dial", "connected", "event", "disconnected", "invalid_auth"} -> 1
      [] OTHER -> 0

EventsCounted ==
    breaks = 0 =>
        /\ link # "broken" /\ mgr # "disconnected"
        /\ cur = IF mgr \in {"select", "event"} THEN 1 ELSE 0
        /\ \A k \in Connections : reader[k] # "error" /\ (k # cur => reader[k] = "off")
        /\ link = IF cur = 1 THEN "open" ELSE "none"
        /\ incoming + EventsLeft + (IF reader[1] = "raw" THEN 1 ELSE 0)
              <= Events

(* Although an error counts twice and anything else once, a check is never  *)
(* reported down for one failed probe, and always by the third in a row.    *)
DownOnTime ==
    \A h \in Checks :
        /\ isHealth[h] => streak[h] < 3
        /\ ~isHealth[h] /\ Pending(h) => streak[h] >= 2

(* DownOnTime is inductive together with what the count says of the streak. *)
CountFits ==
    /\ failed \in [Checks -> Nat] /\ streak \in [Checks -> Nat]
    /\ isHealth \in [Checks -> BOOLEAN] /\ at \in [Checks -> {"wait", "address", "send"}]
    /\ \A h \in Checks :
          /\ streak[h] <= failed[h] /\ failed[h] <= 2 * streak[h]
          /\ isHealth[h] => failed[h] < 3
          /\ ~isHealth[h] /\ Pending(h) => failed[h] >= 3

(* websocket_managed_conn.go:14-16 "It will connect to the slack RTM API    *)
(* and handle all incoming and outgoing events": unless Slack leaves a dial *)
(* without an answer for ever, an alert whose goroutine is ready to send it *)
(* is posted or given up, or the token is refused.                          *)
Settled(h, n) ==
    \/ \E i \in DOMAIN posted : posted[i].check = h /\ posted[i].n = n
    \/ \E m \in lost : m.check = h /\ m.n = n
    \/ mgr = "done"

AlertsHandled ==
    []<>(mgr # "dial") =>
        \A h \in Checks : \A n \in 1..MaxProbes :
            (at[h] = "send" /\ alert[h].n = n) ~> Settled(h, n)
=============================================================================
