------------------------------ MODULE AlertQueue ------------------------------
(***************************************************************************)
(* What the health checks and the Slack connection promise together: the    *)
(* alerts of a check say "down" and "up" in turns, a check raises none while *)
(* the one before waits for room, and the queue is a bounded one, first in, *)
(* first out, that posts each message or gives it up.  HealthCheck, with    *)
(* the connections, readers and events of SlackRTM, is shown to implement   *)
(* this module.                                                             *)
(***************************************************************************)
EXTENDS Naturals, Sequences

CONSTANTS
    Checks,   \* the health checks
    Cap       \* how many messages the queue holds

VARIABLES
    raised,    \* how many alerts each check has raised
    waiting,   \* the checks whose newest alert is not in the queue yet
    queue,     \* the messages to be sent
    posted,    \* the messages the channel got, in order
    lost       \* the messages that were given up

vars == <<raised, waiting, queue, posted, lost>>

(* The n-th alert of a check; `to` is whether its channel was found.        *)
Alert(h, n, to) == [check |-> h, down |-> n % 2 = 1, n |-> n, to |-> to]

Init ==
    /\ raised = [h \in Checks |-> 0] /\ waiting = {}
    /\ queue = <<>> /\ posted = <<>> /\ lost = {}

Raise(h) ==
    /\ h \notin waiting
    /\ raised' = [raised EXCEPT ![h] = @ + 1]
    /\ waiting' = waiting \cup {h}
    /\ UNCHANGED <<queue, posted, lost>>

Send(h) ==
    /\ h \in waiting /\ Len(queue) < Cap
    /\ \E to \in BOOLEAN : queue' = Append(queue, Alert(h, raised[h], to))
    /\ waiting' = waiting \ {h}
    /\ UNCHANGED <<raised, posted, lost>>

Handle ==
    /\ queue # <<>> /\ queue' = Tail(queue)
    /\ \/ Head(queue).to /\ posted' = Append(posted, Head(queue)) /\ UNCHANGED lost
       \/ lost' = lost \cup {Head(queue)} /\ UNCHANGED posted
    /\ UNCHANGED <<raised, waiting>>

Next == Handle \/ \E h \in Checks : Raise(h) \/ Send(h)

Spec == Init /\ [][Next]_vars
=============================================================================
