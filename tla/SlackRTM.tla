------------------------------ MODULE SlackRTM ------------------------------
(***************************************************************************)
(* The Slack connection abb keeps (abb/init.go:31): the goroutine of        *)
(* ManageConnection, which connects, sends the queued messages and handles  *)
(* events, and one reader goroutine per connection, as vendored in          *)
(* github.com/nlopes/slack.  Both report every event on the channel         *)
(* IncomingEvents; abb has no code that receives from it, so it only fills. *)
(***************************************************************************)
EXTENDS Naturals, Sequences, FiniteSets

CONSTANTS
    InCap,      \* capacity of IncomingEvents (50 in the code)
    OutCap,     \* capacity of outgoingMessages (20 in the code)
    MaxFrames,  \* how many frames Slack sends: pongs, acks, messages, ...
    MaxBreaks,  \* how many connections break
    MaxDials,   \* how many attempts to connect fail
    LongDown,   \* the checks whose "is not health" is longer than Slack's limit
    LongUp      \* the checks whose "is health" is longer too

ASSUME CapacityAssumption == InCap \in Nat /\ OutCap \in Nat \ {0}
ASSUME BudgetAssumption ==
    MaxFrames \in Nat /\ MaxBreaks \in Nat /\ MaxDials \in Nat
ASSUME LongAssumption == LongUp \subseteq LongDown

VARIABLES
    mgr,       \* the manager: the event it reports next, or what it waits for
    link,      \* its connection
    cur,       \* how many connections were opened
    reader,    \* the reader goroutine of each connection
    incoming,  \* how many events are in IncomingEvents
    outgoing,  \* the queue outgoingMessages
    posted,    \* history: the messages Slack has posted, in order
    lost,      \* history: the messages too long, to no channel, or to a broken connection
    long,      \* history: how many messages were too long
    frames, breaks, dials   \* how much of each bound is used up

envVars == <<long, frames, breaks, dials>>
rtmVars == <<mgr, link, cur, reader, incoming, outgoing, posted, lost, envVars>>

Connections == 1..(MaxBreaks + 1)

(* A slip the runs must catch: a failed dial is a lost connection too.      *)
AfterTwice == [connecting |-> "dial", connection_error |-> "disconnected",
               connected |-> "select", event |-> "select",
               disconnected |-> "connecting", invalid_auth |-> "done"]

(* Where the manager goes once the event has room in IncomingEvents.        *)
After == [connecting |-> "dial", connection_error |-> "connecting",
          connected |-> "select", event |-> "select",
          disconnected |-> "connecting", invalid_auth |-> "done"]

ManagerStates == DOMAIN After \cup {"dial", "select", "done"}

InitRTM ==
    /\ mgr = "connecting" /\ link = "none" /\ cur = 0
    /\ reader = [k \in Connections |-> "off"]
    /\ incoming = 0 /\ outgoing = <<>> /\ posted = <<>> /\ lost = {}
    /\ long = 0 /\ frames = 0 /\ breaks = 0 /\ dials = 0

Report == incoming < InCap /\ incoming' = incoming + 1

-----------------------------------------------------------------------------
(* The manager *)

(* Every send on IncomingEvents blocks while the channel is full.  After    *)
(* "connected" the new connection gets its reader.                          *)
Deliver ==
    /\ mgr \in DOMAIN After
    /\ Report
    /\ mgr' = After[mgr]
    /\ \/ /\ mgr = "connected"
          /\ cur' = cur + 1 /\ link' = "open"
          /\ reader' = [reader EXCEPT ![cur + 1] = "read"]
       \/ mgr # "connected" /\ UNCHANGED <<cur, link, reader>>
    /\ UNCHANGED <<outgoing, posted, lost, envVars>>

(* startRTMAndDial: an HTTP call and a handshake, both without a timeout.   *)
(* A refused token ends ManageConnection.                                   *)
Dial ==
    /\ mgr = "dial"
    /\ \/ mgr' = "connected" /\ UNCHANGED dials
       \/ /\ dials < MaxDials /\ dials' = dials + 1
          /\ mgr' \in {"connection_error", "invalid_auth"}
    /\ UNCHANGED <<link, cur, reader, incoming, outgoing, posted, lost, long, frames, breaks>>

Post(m) ==
    IF m.to THEN posted' = Append(posted, m) /\ UNCHANGED lost
            ELSE lost' = lost \cup {m} /\ UNCHANGED posted

TooLong(m) == m.check \in IF m.down THEN LongDown ELSE LongUp

(* A message too long for Slack is reported and given up, whatever the link. *)
GiveUp ==
    /\ TooLong(Head(outgoing)) /\ long' = long + 1
    /\ lost' = lost \cup {Head(outgoing)} /\ mgr' = "event"
    /\ UNCHANGED <<posted, frames, breaks, dials>>

(* A slip the runs must catch: a message that fails is queued again.        *)
SendOutgoingRequeue ==
    /\ mgr = "select" /\ outgoing # <<>>
    /\ \/ GiveUp /\ outgoing' = Tail(outgoing)
       \/ /\ ~TooLong(Head(outgoing)) /\ UNCHANGED envVars
          /\ \/ /\ link = "open" /\ outgoing' = Tail(outgoing)
                /\ Post(Head(outgoing)) /\ UNCHANGED mgr
             \/ /\ link = "broken" /\ outgoing' = Append(Tail(outgoing), Head(outgoing))
                /\ mgr' \in {"select", "event"} /\ UNCHANGED <<posted, lost>>
    /\ UNCHANGED <<link, cur, reader, incoming>>

(* sendOutgoingMessage takes the message off the queue whatever comes of    *)
(* it; a write to a broken connection may fail or vanish in a buffer.       *)
SendOutgoing ==
    /\ mgr = "select" /\ outgoing # <<>>
    /\ outgoing' = Tail(outgoing)
    /\ \/ GiveUp
       \/ /\ ~TooLong(Head(outgoing)) /\ UNCHANGED envVars
          /\ \/ link = "open" /\ Post(Head(outgoing)) /\ UNCHANGED mgr
             \/ /\ link = "broken" /\ lost' = lost \cup {Head(outgoing)}
                /\ mgr' \in {"select", "event"} /\ UNCHANGED posted
    /\ UNCHANGED <<link, cur, reader, incoming>>

(* A ping that fails; killConnection closes the connection and the reader's *)
(* keepRunning.  A ping that succeeds changes nothing; its pong is a frame. *)
PingFails ==
    /\ mgr = "select" /\ link = "broken"
    /\ mgr' = "disconnected" /\ link' = "none"
    /\ UNCHANGED <<cur, reader, incoming, outgoing, posted, lost, envVars>>

(* A raw event of reader k; all but a few kinds are reported.               *)
HandleRaw(k) ==
    /\ mgr = "select" /\ reader[k] = "raw"
    /\ reader' = [reader EXCEPT ![k] = "loop"]
    /\ mgr' \in {"select", "event"}
    /\ UNCHANGED <<link, cur, incoming, outgoing, posted, lost, envVars>>

-----------------------------------------------------------------------------
(* The readers *)

KeepRunning(k) == k = cur /\ link # "none"

(* The check of keepRunning at the top of handleIncomingEvents.             *)
Loop(k) ==
    /\ reader[k] = "loop"
    /\ reader' = [reader EXCEPT ![k] = IF KeepRunning(k) THEN "read" ELSE "off"]
    /\ UNCHANGED <<mgr, link, cur, incoming, outgoing, posted, lost, envVars>>

(* ReadJSON: a frame, or an error of a connection that broke or was closed. *)
(* A reader reads rtm.conn anew at every call, so a reader that passed its  *)
(* check before the connection was replaced reads from the new one.  gorilla *)
(* never returns io.EOF here, so forcePing is not used.                     *)
Receive(k) ==
    /\ reader[k] = "read"
    /\ \/ /\ link = "open" /\ frames < MaxFrames
          /\ frames' = frames + 1
          /\ reader' = [reader EXCEPT ![k] = "raw"]
       \/ /\ link = "broken" \/ ~KeepRunning(k)
          /\ reader' = [reader EXCEPT ![k] = "error"]
          /\ UNCHANGED frames
    /\ UNCHANGED <<mgr, link, cur, incoming, outgoing, posted, lost, long, breaks, dials>>

(* incoming_error; then the reader loops and reads the same error again.    *)
ReportError(k) ==
    /\ reader[k] = "error"
    /\ Report
    /\ reader' = [reader EXCEPT ![k] = "loop"]
    /\ UNCHANGED <<mgr, link, cur, outgoing, posted, lost, envVars>>

(* The connection breaks. *)
Break ==
    /\ link = "open" /\ breaks < MaxBreaks
    /\ link' = "broken" /\ breaks' = breaks + 1
    /\ UNCHANGED <<mgr, cur, reader, incoming, outgoing, posted, lost, long, frames, dials>>

NextRTM ==
    \/ Deliver \/ Dial \/ SendOutgoing \/ PingFails \/ Break
    \/ \E k \in Connections : HandleRaw(k) \/ Loop(k) \/ Receive(k) \/ ReportError(k)
=============================================================================
