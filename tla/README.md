# abb: specifications, model checking and proofs

abb is a small HTTP service in Go that keeps the definitions of Docker Swarm
services in a database, deploys them to swarms through the Docker API, probes
URLs and tells a Slack channel about the result, and keeps its own users,
accounts and roles.  This directory holds TLA+ modules of the parts whose
correctness depends on the order of steps, the TLC configurations that check
them on small instances, and proofs that TLAPS checks for every instance.

The program runs one goroutine per request, one per health check and two or
more for the Slack connection.  No mutex appears in it.  Requests share only
the MySQL tables and the swarm; transactions are used in two places
(`CreateUser`, `UpdateUserRole`).  So the steps of the models are the calls of
the database and of the Docker API, and anything may happen between two calls.

## 1. Inventory

Source paths are below `src/`.  About 5,570 lines are abb's own; the rest is
vendored.  There are no tests and no database schema in the repository.

| Component | Source | State | Operations | Module |
|---|---|---|---|---|
| Service manager | `abb/services.go`, `abb/endpoints.go` | rows of `services`, services of the swarm | create, save, get, list, stop, delete, redeploy, raw, logs, rollback (empty) | `ServiceManager`, `Deployment`, `Registry` |
| Service repository | `abb/services.go:551-690` | the table `services` | Insert, Update, Delete, Find, FindOne | in `ServiceManager` |
| Service status | `abb/utils.go:11-61`, `abb/services.go:414-438` | none | put a status together from three lists, count the replicas | `ClusterRequests`; what deletion needs of it, in `ServiceManager` |
| Audit log | vendored `go-audit` | the table of events | Log | in `ServiceManager` (services), `ClusterRequests` (clusters, checks) |
| Error handling | `abb/error_handling_middleware.go` | none | turn a panic into an answer | in `ServiceManager`, `ClusterRequests` |
| Accounts and login | `identity/account.go`, `identity/membership.go` | rows of `accounts` | login, change of password, unlock | `Account`, `AccountPolicy` |
| Users, roles, tokens | `identity/membership.go`, `identity/roles.go`, `identity/userprofile.go`, `identity/endpoints.go` | `userprofiles`, `accounts`, `roles`, `users_roles` | create user, set a user's roles, create and update a role, make a token, list, update profile | `Membership`, `UserTables` |
| JWT middleware | `identity/middleware_jwt.go` | none | verify a token | not modelled |
| Health checks | `abb/health_check.go`, `abb/utils.go:63-76` | per goroutine: count of failures, up or down | probe, look up the channel, send; create, list | `HealthCheck`, `AlertQueue`; create and list in `ClusterRequests` |
| Slack connection | `abb/init.go`, vendored `nlopes/slack` | manager, readers, two channels | connect, send, ping, read, report | `SlackRTM` |
| Permission filter | `abb/endpoints.go` (list endpoints) | none (locals of a request) | filter by the roles of the token | `Listing` |
| Pagination | `app/application.go`, `app/pkg.go` | none | `per_page`, `total_page` | in `Listing` |
| Clusters | `abb/clusters.go` | rows of `clusters` | list, create, find by name with retry | `ClusterRequests`; the filter of the list in `Listing` |
| Nodes | `abb/node.go` | the swarm's nodes | list, get, update | `ClusterRequests` |
| Networks, tasks | `abb/task.go` | none | list | `ClusterRequests` |
| Config files | `abb/config.go` | the swarm's configs | list, get, create, delete | `ClusterRequests`; the permission check in `Listing` |
| MongoDB repositories | `abb/services.go`, `abb/clusters.go` | collections | unfinished alternative to MySQL | not modelled |
| Configuration, start | `config/`, `app/init.go`, `cmd/api` | none after start | read a file, wire the parts | not modelled |

How they interact: an endpoint finds the cluster, makes a manager for it and
calls it; the manager reads the row, asks the swarm, writes the row or the
swarm; the endpoint writes an audit event.  An error is a panic that the
middleware turns into an answer.  `Login` reads and writes the account and then
makes a token out of the tables of roles; the lists later read the roles out of
the token, not out of the tables.  A check shares nothing with requests: it
reads its row once at the start and talks to the manager of the Slack
connection over a channel of 20 messages; that manager and its readers write
events to a channel of 50 that nothing reads.

### What is hard, and what makes each component correct

`PROJECT.json` lists every hazard at its line, with its properties.  In short:

* **Service manager.**  Every operation is read-then-act over two stores that
  no transaction spans, and `ServiceGetByID` is called twice per request.  Correct
  means: the swarm only ever runs something that was saved under that name (but for
networks that could not be listed), no
  redeploy is lost in another, a deleted row stays deleted, a redeploy never goes
  back behind what its endpoint saw, and a failure half way leaves no service
  that nothing manages.
* **Accounts.**  Row copies are written back without a check.  Correct means:
  lock and count agree, no failure is invented, and the count starts anew after
  a successful login.
* **Membership.**  Two transactions, and calls outside of them.  Correct means:
  a user exists wholly or not, has the roles that whole requests gave its id, and a
  token holds roles the user had.  Neither the ids of a change of roles nor the names
  of roles are checked by the code.  `CreateUser` needs a second connection of the pool while its
  transaction holds one, so that enough of them at once wait for each other.
* **Health checks and Slack.**  Goroutines that block on bounded channels.
  Correct means: a check is reported down neither early nor late, each alert is
  handled once and in order, and in the end.  What others see is a bounded queue of
  alerts, whatever connections break under it.
* **Look-ups and the swarm.**  Every request under `/v1/clusters` first looks
  its cluster up in a loop of ten tries that ends, after ten bad connections,
  with a cluster that has no fields and no error; some endpoints check what they
  are given, some dereference it, some use its empty id.  Then they read the
  swarm in several calls while others change it.  Correct means: no call of
  Docker without a cluster that was found, a health check in and with the cluster it
  was asked for, no update of a node lost in another, and a status that was not
  false of every moment it was taken in.
* **Lists.**  Nested loops over overlapping rules.  Correct means: exactly
  what the roles allow, once each, and a page count that fits.

## 2. Modules

    Deployment          what the swarm may run (abstract)
      ^ extended by
    Registry            the table and the swarm together (abstract)
      ^ implemented, one request at a time, by
    ServiceManager      service requests, call by call
      ServiceManagerProofs, ServiceOrderProofs, MCServiceManager
    AccountPolicy       the lock policy, request by request (abstract)
      ^ implemented by the writes of a request that is alone, and by all
        of them one at a time
    Account             login, password, unlock, call by call
      AccountProofs, AccountPolicyProofs, MCAccount
    ClusterRequests     the look-up, and the other requests under /v1/clusters
      ClusterRequestsProofs, MCClusterRequests
    SlackRTM            the connection: manager, readers, channels
      ^ extended by
    HealthCheck         the goroutines of the checks, which send through it
      HealthCheckProofs, MCHealthCheck
      v implements
    AlertQueue          a bounded queue of alerts (abstract)
    UserTables          users, roles and names, request by request (abstract)
      ^ implemented by
    Membership          users, roles and tokens, call by call
      MembershipProofs, MCMembership
    Listing             the permission filter and the pages
      ListingProofs, MCListing

**ServiceManager.**  `rows` is the table, `swarm` the services by name, `loc`
the locals of each request, `pc` the call it makes next.  A specification is
known by the number of the save that wrote it, so "older" and "newer" make
sense; ports, environment and the rest of it are not told apart, and of the networks
only whether all were found.  Each
call is an action of the same name; `again` tells the endpoint's
`ServiceGetByID` from the manager's.  `FindOne` reads a fault as "no row",
because `ServiceDAO.Find` logs the error and returns nothing.  A write that
returns an error may have been done (`Outcome`).  `Lists` stands for the three
lists whose errors are overwritten, so that a list that failed and one that lacks what
the row names are the same: `networks` tells whether every network was found (one that
was not is left out of the specification, and the swarm takes it so), `refs` whether
every secret and config was (one that was not stays in it without an id).  `saved` is a history variable.  External:
the swarm refuses a create of a name in use, an update with an old version, and a
secret or config without its id; tasks start and end at any time (`TasksChange`).
`ServiceManager` implements `Deployment` under any overlap: that module knows which
specifications were saved, not which rows are left.  `Registry` adds the table, as
it should change with the swarm: a service runs only under a row, a redeploy runs
what the row holds (with its networks or without, as in `Deployment`), a row goes only when nothing runs under its name.  The code
keeps that only when requests come one at a time and rename nothing.

**Account.**  `account` is the row, `loc[r].copy` the row a request works on.
A password stands for its hash and salt.  The read of a request and the
comparison of hashes are one step, each write is a step: `SaveCounters` writes
the two lock columns, `Update` all of them.  `overlapped` is a history variable:
the requests in service while another one was.  `PolicyWhenAlone` says of each
write of a request not among them that it is one step of `AccountPolicy`, whatever
overlapping requests had written before, and `CountSinceLoginAlone` what the comment
says of the count for as long as the set is empty.  Served one at a time, `Account`
implements `AccountPolicy` throughout, which is proved and not a run of its own.

**Membership.**  `tx[r]` holds the writes of the open transaction of a
request, which others see when it commits; an insert of a username another
transaction has inserted waits for it, and so do a delete and an insert of roles of an
id whose roles another one has changed.  A change of roles (`Start`) names any id of a
user and any ids of roles, for `UpdateUserRole` and its endpoint check neither: it may be of a user
that is created later, who then has these roles besides those of its creation, or of roles that
are not there.  `Empty` is the name that is the empty string, which no endpoint
refuses and which is no condition of `FindRoles`' SELECT (`Found`).  Every call needs one of the `MaxConns` connections of the pool (`app/init.go`
sets 300 and no limit of the wait), and a transaction keeps the one it began with;
`FindRoles` reads outside the transaction, as the code does, on a second one.
`NotAllWait` says that requests never all wait for each other, for a connection, a
username or a user's roles, while the creations in a transaction are fewer than the
connections; with as many of them as connections they do, which the code does
nothing against.  `UserTables` is the same tables with every change one step: a
request asks for a change (`wants`), and it is made as it was asked for, once, or not at
all.  `held`,
`granted` and `renames` are history.  Names of roles are compared without case
in the code, which the model's names stand for.

**ClusterRequests.**  The requests that are not on services: health checks,
clusters, nodes, configs, and what the lists of services, tasks, logs and raw
services read.  `Prepare` and `Get` are the two calls of a turn of
`ClusterByName`; a bad connection is a turn that leaves nothing, needs no fault
budget, and at the last turn leaves the cluster `Zero`.  `Found` is what each
kind of endpoint does with a row, with nil and with `Zero` (a Docker client needs
its host, a query or an insert only its id); the endpoints that do the same with it are one
operation, `view`.  One cluster, `Home`, has its swarm modelled:
the swarms share nothing, the tables do.  `Others` are the other users
of that swarm and the swarm itself: a node goes down or is updated, a task
stops or starts, a service is removed and made again.  `hist` records what the
properties compare a request's view with: the specification a node update
replaced and the one it was based on, and the tasks that were up at some time, and
all the time, since the request listed the nodes.  `CallsLeft` is what a request has
before it at most; `EachCallCounts` says that every call, retries included, lowers it.

**SlackRTM, HealthCheck.**  `mgr` is what the manager reports or waits for;
`reader[k]` the goroutine of connection k, which may outlive it; `incoming` is
only the length of `IncomingEvents`, since nothing reads it.  A check goes from
`wait` through `address` (a call of Slack's web API) to `send`, which blocks.
`LongDown` and `LongUp` are the checks whose names, which have no limit, make a message too
long for Slack: it is reported and given up on any link.
In `AlertQueue` nothing of the connection is left: checks that raise "down" and "up" in
turns and wait for room, and a queue whose head is posted or given up.
`RoomUntilBreak` counts the events: two of each failed dial, one of each frame and of
each message too long, two of the connection; until these fill their channel only a
break does.

**Listing.**  The five nested loops visit *entries*, the combinations of
namespace, resource, resource name and verb of a rule, in any order; a place of
the token may also hold a null role, which `GenerateToken` can produce.

### What is assumed of things not in the repository

`CreateUser` and `serviceCreateEndpoint` handle MySQL error 1062, which shows
that usernames and names of services are unique.  Names of roles are taken to
be unique, since URLs and tokens name roles by them.  No foreign key of `users_roles` is
taken to be there, for there is no schema and nothing handles such an error.  Locks and transactions are
InnoDB's at its default isolation; if two `UpdateUserRole` of one user end in a
deadlock, the one that MySQL refuses is a call that fails.  Names of clusters are unique; that an insert of a
health check may be refused is read off `health_check.go`'s handling of 1062.  The
swarm refuses an update of a node that does not name its version, counts its
versions up, and starts tasks only on nodes that are not down.  These are the definitions the map marks as external or that say so in
their comment.

## 3. Runs

| Run | Question | Bounds |
|---|---|---|
| `ServiceConcurrent` | With requests that overlap, renames and faults, does the swarm change as `Deployment` says (`ImplementsDeployment`), do deleted rows stay deleted (`DeletedStayDeleted`), does no redeploy go back (`DeploysNotOlder`)?  Also checks `TypeOK` and the `Inductive` invariant of the proofs. | 3 requests, 2 in flight, 2 names, 1 fault |
| `ServiceSerial` | One request at a time, can failures leave a service without a row (`NoOrphans`), or a redeploy that does not run the row, but for networks that were not listed (`RedeployRunsLatest`)?  Do table and swarm change together (`ImplementsRegistry`)? | 3 requests, 2 faults, no renames |
| `ServiceDeleteRunning` | Does delete remove only stopped services, as a comment says?  **Violated** | 1 request |
| `ServiceReferences` | Do references always have ids, as a comment says?  **Violated**, without any failed call | 1 request, no fault |
| `AccountConcurrent` | Do count and lock agree (`LockedAtFive`), is every failure earned (`CountEarned`)?  Does a request that is alone follow the policy (`PolicyWhenAlone`), and does the count start again as long as nothing overlapped (`CountSinceLoginAlone`)? | 3 requests all in flight, 2 passwords, 1 fault |
| `AccountStaleCount` | Does a successful login clear the failures, as a comment says?  **Violated** by a failed login that read the row before | 2 logins |
| `AlertsSafety` | Is each alert in one place (`AlertsOnce`), are they in order and is the newest true (`NewestTellsTruth`), is a check reported in time (`DownOnTime`)?  Is all of it a bounded queue (`ImplementsAlertQueue`), and does the manager have room until a break (`RoomUntilBreak`)? | 2 checks, 3 probes each, the "down" of one too long, queue of 2, 7 events, a frame, a break, a failed dial |
| `AlertsLive` | Is every alert handled while there is room for events and dials come to an end? | 2 checks that share a queue of 1, the "down" of one too long, 6 events, a frame, a failed dial |
| `AlertsStuck` | Is every alert handled, with the code's capacities?  **Violated**: one broken connection fills the channel nobody reads | 1 check, 1 break, 50 events, 20 messages |
| `MembershipConcurrent` | Do the tables agree (`UsersWhole`), and does a token hold what the user had (`TokenRolesHeld`)?  Is every request as good as one step (`ImplementsUserTables`), and can one always go on (`NotAllWait`)? | 3 requests in flight, 2 connections, 1 role at first, 2 names of roles, one of them empty, 1 role per request, 2 usernames, 1 fault |
| `ClusterLookup` | Are checks placed and listed with their cluster (`ChecksPlaced`), is Docker called only for a cluster that was found (`DockerOnFound`), are node updates kept (`NodeUpdatesKept`), is a status true of some moment for each replica (`StatusBracketed`), does the audit log tell the truth (`AuditExact`), does every call bring a request nearer to its end (`EachCallCounts`)? | 2 requests, 2 clusters, 1 node, 2 tasks, 1 config, 3 tries, 1 fault, 3 changes by others |
| `ListingRoles` | Does a list hold what the roles allow, once (`ListExact`), and do its pages fit (`PagesExact`)? | every token of 2 entries, tables of up to 3 items, `per_page` 0, 1, 2 and 101 |

Why the bounds are enough to be of interest: two service requests in flight
make every pairwise race, and the third, served before, between or after, makes
the row or the service another one; one fault is placed before and after every
effect of every call, twice in the serial run so that a retry may fail too.  In
the accounts the initial count is any of 0..5, so that three requests reach the
limit from each side.  For alerts, a queue of two shared by two checks is full,
partly full and empty; with one break a queue is carried over to a second
connection while the reader of the first is still there.  In the membership run
three requests share two connections: a creation and a change of roles fill the pool
and the third request waits, while the creation needs a second connection.  A
request names at most one role there (`MaxNamed`), so that a user gets several only from its
creation and a change of roles before it; with two roles to add a transaction is as
well open between them, which the proofs cover: they hold for any `MaxNamed` and any number of
requests and names.
In `ClusterLookup` three tries are the least with a first, a middle and a
last turn (the code has ten, and the proofs hold for any number); two clusters, one
that may be missing, tell "its own" from "some"; three
changes let a service go and come back, or a node change twice, between two calls
of one request.  In the lists two
entries are the least that overlap, and three items with pages of one and two
give empty, exact and partly filled last pages.

`CHECK_DEADLOCK FALSE` is in all configurations: each request is served once,
checks have a bound of probes, and then the system stops.  That goroutines may
block for ever is what `AlertsHandled` is about.  Symmetry is used only where no
liveness is checked, and over sets the modules never order or choose from.

For every property of a passing run there is a mutant: a definition named for a
slip (a dropped guard, a swapped order, a missing reset) beside the definition
it would replace, with which TLC finds the property violated.

### Fairness

Only the two alert runs need it (`HealthCheck!Fairness`).  Goroutines that can
run do: weak fairness of the manager's reports and of its failed pings.
Strong fairness is assumed of sends and of the manager's taking of a message: a Go
`select` picks at random among the ready cases, and blocked senders wait in
line, so one that is ready again and again is taken.  A write has a deadline of ten
seconds (`sendWithDeadline`), so it ends.  Nothing is assumed of Slack, of readers, of
ticks and of probes, which may never answer.  A dial has no timeout, neither its
call of Slack's API nor the handshake (`websocket.DefaultDialer`), so it is not
fair; `AlertsHandled` is said of the behaviours in which no dial lasts for ever.

### Findings

1. `ServiceDelete` says "ensure the service is stop" (`services.go:526`) and
   checks a list of tasks it read earlier; tasks that start in between run in the
   service it removes.
2. A secret or config that the swarm does not list is sent to it without an id, which
   `services.go:146` and `175` call mandatory.  It may not be there; or its list
   failed, for `Redeploy` does not look at the errors of `SecretList` and `ConfigList`.
3. `membership.go:349` says a successful login clears the failures.  A failed
   login that read the row before puts the old count back, plus one.
4. Nothing receives from `rtm.IncomingEvents`.  After 50 events, which one broken
   connection is enough for, `ManageConnection` blocks for ever; 20 alerts later
   every health check does.

## 4. Proofs

TLAPS checks these for all sets of requests, names, checks and so on and all
bounds, from the named assumptions on constants (identifiers and null values
are distinct; bounds are naturals).

| Theorem | States | Argument |
|---|---|---|
| `ServiceManagerProofs!TypeCorrect` | `Spec => []TypeOK` | part of `Inductive` |
| `ServiceManagerProofs!DeletionIsFinal` | `Spec => []DeletedStayDeleted` | `Inductive` |
| `ServiceManagerProofs!Refinement` | `Spec => ImplementsDeployment` | initial states map to initial states; under `Inductive` each action is a step of `Deployment` or a stutter |
| `ServiceOrderProofs!RedeployNotOlder` | `Spec => DeploysNotOlder` | `NewestSeen` |
| `ServiceOrderProofs!SerialNoOrphans`, `SerialRunsLatest` | `[]NoOrphans`, `[]RedeployRunsLatest`, if `MaxInFlight = 1` and `CanMove = FALSE` | `OneAtATime` |
| `ServiceOrderProofs!SerialRegistry` | `Spec => ImplementsRegistry`, under the same conditions | `OneAtATime`: the row a request holds is the row |
| `AccountProofs!TypeCorrect`, `LockExact`, `LockEarned` | `[]TypeOK`, `[]LockedAtFive`, `[]CountEarned` | `Account!Inductive` |
| `AccountPolicyProofs!SerialCount`, `AlonePolicy` | `[]CountSinceLoginAlone`, `PolicyWhenAlone` | `AloneInv` with `Account!Inductive` |
| `AccountPolicyProofs!SerialPolicy`, `SerialSinceLogin` | `Spec => P!Spec`, `[]CountSinceLogin`, if `MaxInFlight = 1` | `AloneInv` with `OneAtATime` |
| `ClusterRequestsProofs!TypeCorrect`, `ChecksPlacedAlways`, `DockerAfterLookup` | `[]TypeOK`, `[]ChecksPlaced`, `[]DockerOnFound` | `LookupInv` |
| `ClusterRequestsProofs!UpdatesKept`, `StatusBetween` | `[]NodeUpdatesKept`, `[]StatusBracketed` | `ViewInv` |
| `ClusterRequestsProofs!AuditTrue` | `[]AuditExact` | `AuditInv` |
| `ClusterRequestsProofs!RequestsEnd` | `EachCallCounts`, and that what is left is at most the tries and six | `LookupInv`, one case per call |
| `HealthCheckProofs!ReportedOnTime` | `Spec => []DownOnTime` | `CountFits` |
| `HealthCheckProofs!TypeCorrect` | `Spec => []TypeOK` | `Types`, with `LinkFits` |
| `HealthCheckProofs!EachAlertOnce`, `NewestTrue` | `[]AlertsOnce`, `[]NewestTellsTruth` | `AlertsKept` |
| `HealthCheckProofs!QueueRefinement` | `Spec => ImplementsAlertQueue` | `AlertsKept`, `Alternates` |
| `HealthCheckProofs!RoomAtFirst` | `[]RoomUntilBreak` | `EventsCounted` |
| `HealthCheckProofs!StuckForEver` | a manager that waits for room waits for ever, and posts and gives up nothing more | `Types`, one case per action |
| `MembershipProofs!TypeCorrect`, `Whole`, `TokenHeld` | `[]TypeOK`, `[]UsersWhole`, `[]TokenRolesHeld` | `Membership!Inductive` |
| `MembershipProofs!NoDeadlock` | `[]NotAllWait` | `Membership!Inductive` |
| `MembershipProofs!Refinement` | `Spec => ImplementsUserTables` | a commit is the step of its request, every other call of a transaction a stutter |
| `ListingProofs!ListingExact` | `Spec => []ListExact` | `FoundSoFar` |
| `ListingProofs!TypeCorrect`, `PagesFit` | `[]TypeOK`, `[]PagesExact` | `CountsFound` |

`InductiveAlways` (`Spec => []Inductive`), in the proofs of the service manager, the
accounts and the membership, is what their other theorems follow from.

Why the invariants have to be stronger:

* `ServiceManager!Inductive`.  That a redeploy deploys something saved needs to
  know that the row a request *holds* was saved under the name it holds
  (`SavedRows`).  That `ForceUpdate` grows by one needs: if the version a request
  inspected is still current, so is the whole service (`VersionLock`), which in
  turn needs versions to come from a counter that only grows.  That a deleted
  row does not return needs: a delete between its two calls knows its row
  (`DeletedRows`), and the id a create will insert is in no row, request or
  deletion event (`FreshIds`).
* `NewestSeen`.  Between the two reads of a redeploy its key may come to match
  another row.  The invariant says that any row that matches the key of a
  request is at least as new as what its endpoint saw; names have to be unique
  for it (`NamesUnique`).
* `OneAtATime`.  With one request at a time, the row it read is still as it read it
  at every later call; so a delete that has reached its row has removed the service,
  and a redeploy that has reached its audit runs the row.  Faults are allowed: they
  may leave a row without a service, never a service without a row.  `SerialRegistry`
  is the same invariant read step by step: what is deployed is what the table holds
  at that moment, and the row that goes has nothing running.
* `Account!Inductive`.  The row is overwritten with copies, so the copies have to
  be consistent too (`CopiesConsistent`): a copy of a failed login is at most five
  and not locked, a copy to be cleared counts nothing, and each is no more than
  the wrong passwords compared.  `AloneInv` adds that the copy of a request that
  has been alone is the row itself, apart from what it is about to write.  If no two
  requests are in service, `overlapped` stays empty and every request is alone
  (`OneAtATime` of that module), so that the conditional theorems hold of all of them.
* `LookupInv`.  What the locals of a request hold of its cluster (a row, nil, or no
  fields) is fixed by its operation and the call it is about to make: only the
  operations that dereference or check it get as far as Docker.
* `ViewInv`.  The version a node update inspected is no newer than the node's, and if
  it is the same, so is the specification (`UpdateFits`); the tasks up all along
  since a request listed the nodes are still up, and each one up now has been seen up
  (`StatusFits`).
* `RequestsEnd` needs no stronger invariant, only a count (`CallsLeft`) that goes back
  to where it was at no call, the look-up's retries included, and `LookupInv` for
  the tries being within their bound.
* `AuditInv`.  What is about to be logged has been done, under the name it is logged by
  (`AuditFits`, `Happened`).
* `HealthCheck!CountFits`.  An error counts twice, so the count lies between the
  streak of failed probes and twice of it; a check that is up has a count below
  three.
* `LinkFits`, for the types: as many connections have been opened as broke, or one
  more, so that the readers have numbers of connections.
* `AlertsKept`.  The alerts of a check are numbered in the order it made them and lie
  in that order along the way from its goroutine to Slack (`InOrder`), no two
  of them in one place (`Apart`), none skipped (`Complete`), and the last one made is
  what the check believes (`NewestLeaves`).  The refinement of `AlertQueue` adds that a
  check that is down has raised an odd number of alerts (`Alternates`).
* `EventsCounted`.  Before the first break, the events reported, those the manager has yet
  to report before it takes messages (`EventsLeft`) and the frame a reader
  holds are together no more than two, two for each failed dial, one for each frame and one
  for each message too long;
  only one connection has a reader, and it is not in its loop of errors.
* `Membership!Inductive`.  A commit is right if the transaction has written
  exactly what its request asked for (`WritesFit`: at every call, which of the
  writes are made and which roles are left), if the user of a `CreateUser` is
  not there yet (`IdsFit`), if no other open transaction holds the username
  (`UsernamesFree`) and none has changed the roles of the same id (`RowsFree`).  A token
  needs: unless a role was renamed since, the names left to look up are those of roles the
  user had, and each role with a name is looked up or still to be (`TokenFits`); since names are
  unique (`RolesNamed`) a name that is not empty leads back to its role.  That someone can go on
  (`NoDeadlock`) follows from it: who waits for a username waits for a creation past
  that call, which can only wait for an id's roles; who waits for these waits for a
  request that has changed them and waits for nobody's; and if no connection is free,
  one of them is in a transaction that needs no second.
* `FoundSoFar`.  The result is exact for the entries visited so far.  `CountsFound`:
  it is as long as the number of items found, which is what the pages are counted
  from.

TLC checks the three invariants named `Inductive` on the instances of the runs.

Of the properties of passing runs only liveness (`AlertsHandled`) is model-checked
and not proved: it is out of the prover's reach.  The properties of the runs that
expect a violation are false of the code; of one of them it is proved when it holds
(`SerialSinceLogin`), and of the stuck manager that nothing
helps it (`StuckForEver`).  That a request whose calls are counted is answered in the end
would need the fairness of its goroutine, which stays outside of the proofs.

## 5. What is not modelled, and why

* The JWT middleware, the configuration and the start keep no state that later
  steps share.
* The making of the Docker specification out of a row, beyond the counter, the
  networks and the ids of references, is a translation field by field.
* Listing users and updating a profile: one read, and one read and write of a row
  that nothing else here reads.
* The rules of a role under overlapping updates (`identity/endpoints.go:346`): the whole
  role is written over what another update wrote.  The code does nothing against
  it and nothing claims otherwise; a role's name, which tokens depend on, is modelled.
* The order of the cluster list (`abb/endpoints.go:543`): the comment says it is sorted
  by a number.  The SELECT orders by that number and does not read it, so the sort
  compares zeros and leaves the clusters in the order the rules of the token found them.
* The MongoDB repositories are unfinished (`ServiceMongo.FindOne` always returns
  nil).
* The goroutine that a failed start of the checks ends
  (`abb/health_check.go:122`, `143`, `163`): the process ends, or no check runs, and
  there is no later step to say anything of.
* Properties that the code does not have and nothing claims are not checked: two
  failed logins that overlap may count as one; a rename of a running service
  leaves it without a row; a redeploy after a failed `NetworkList` takes the networks off a
  service and is audited as a success; the token of a user with a role without a name has
  some other role; a failed write of a login's count is not noticed; an unlock may undo a change of password; a status may
  count replicas that were never up together.
* The vendored libraries, except what abb's use of `nlopes/slack`, of the Docker client
  and of the audit log shows of them.

## 6. Plan

Done: the modules, runs and theorems above.  Left, in this order:

1. A bound, like that of `RequestsEnd`, on the calls of a service request and of a request
   on users, roles and tokens, where each name of a role is a call.
2. The order of the cluster list against its comment, as a property of `Listing`.
3. The rules of a role in `Membership`, so that an update that overlaps another one, and
   the roles in tokens made between the two, can be told apart.
