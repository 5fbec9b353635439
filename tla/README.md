# code-battling: models, model checks and proofs

code-battling is a small platform for programming contests.  Players join a
room, see its leaderboard and the other players' arrivals and successes over
Server-Sent Events, and submit solutions that a judge runs in Docker containers
against the test cases of a question.  The server is the Go program under
`src/golang-realtime`; the browser client is `src/frontend`.

This directory is the formal side of that program: TLA+ modules translated from
its source, TLC configurations that check them on small instances, and theorems
about them that TLAPS proves for every instance.

## 1. Inventory

### The parts and the state they keep

| part | source | state | operations |
|---|---|---|---|
| worker pool | `internal/executor/worker_pool.go` | the `jobs` channel, the `Result` channel of every call, the locals of the worker goroutines | `ExecuteJob`, `worker`, `executeJob`, `executeCode` |
| container manager, running | `internal/executor/container_manager.go` | the map of containers with a state each, a mutex | `GetAvailableContainer`, `SetContainerState` |
| container manager, start and end | same | the same map, and what Docker really has | `InitializePool`, `balanceWorker`, `StartContainer`, `removeExcessContainer`, `RemoveContainer`; `checkHealth`, `MonitorContainers` and `ShutDown`, which nothing calls |
| room manager | `internal/channels/room_manager.go`, `internal/events/events.go` | the `Events` channel (10), the goroutines in `Start`, the rows of `room_players` and `rooms` | `Start` and the five `process...` functions |
| event stream | `internal/handlers/events.go`, `dispatchEvent` and `dispatchEventToPlayer` | `Listerners` (player to channel), one goroutine per connection, the dispatch goroutines | open, select loop, unregister, close, snapshot, non-blocking send |
| room registry | `GlobalRooms` in `room_manager.go`, `internal/handlers/room.go` | the map of room managers under `Mu`, table `rooms` | `NewGlobalRooms`, `GetRoomById`, `CreateRoom`, `CreateRoomHandler`, `DeleteRoomHandler` |
| HTTP handlers | `internal/handlers` | none of their own | submit, leave, delete, create, list, login, leaderboard |
| language names | `internal/services/languages.go` | none | `NormalizeLanguage` |
| server lifecycle | `cmd/main`, `scripts/server` | the HTTP server, the shutdown channel | `run`, signal, `Shutdown`, restart loop |
| browser client | `frontend/app.js`, `frontend/login.js` | the selected room, the event source, the leaderboard shown and the requests for it, the submit button with `isExecuting` and its timers | select, submit, leave, refresh, the event listeners |
| database | `sqlc/schema.sql`, `internal/store` | tables and their constraints | one statement each |

### How they interact

    browser --HTTP--> handlers --send--> rm.Events --receive--> rm.Start
    rm.Start --ExecuteJob--> jobs --receive--> worker --docker exec--> container
    worker --Result--> ExecuteJob --returns--> rm.Start --send--> rm.Events
    rm.Start --SQL--> PostgreSQL
    rm.Start --go dispatchEvent--> Listerners --non-blocking send--> EventHandler --SSE--> browser

A handler never changes a room itself: it sends an event, in most cases from a
goroutine started for that purpose, and answers at once.  `Start` processes one
event at a time, and it is itself one of the senders of `rm.Events`: the verdict
of a submission is sent to the same channel.  `Start` waits for `ExecuteJob`,
which waits for a worker, which waits for a container.

### What is hard

- *Interleaving.*  Containers' states are scanned under a mutex and written
  outside it.  A room made over HTTP has two `Start` goroutines.  Membership is
  checked in one SQL statement and written in another.
- *Waiting.*  `ExecuteJob` has no timeout.  `Start` sends to the channel that
  only `Start` receives from.  A full job queue rejects at once.
- *Partial failure.*  A failed run keeps its container; a search that finds
  none reports no error; SQL errors are logged, dropped or returned, function by
  function.
- *Ordering.*  Joins and leaves of one connection are sent by goroutines that
  nothing orders.  A player's connections overlap, and share one entry of the
  listener map.
- *Delivery.*  Listen channels have no buffer and sends do not block: a notice
  that meets a handler outside its select is lost.  An answer to a submission waits
  until the room's channel has taken the event.
- *Restarts.*  Containers and rows outlive the process that made them; the map of
  rooms does not.
- *Stale answers.*  A page has several requests for the leaderboard under way, and
  what it does with an answer does not depend on what was selected meanwhile.

`PROJECT.json` lists each hazard at its line, with the properties that cover it
or the reason why none does.

### What makes each part correct

- worker pool: two jobs never run in one container; a call is in one place at a
  time and gets the answer of its own run; workers come back; only lost
  containers can starve a job; calls return while the containers are healthy.
- room manager: the members are those whose last event was a join; places agree
  with scores whenever a page has been told to look and nobody is about to recompute
  them; each submission gets one verdict, in order; each event is served; a room with
  members is not deleted; failures of SQL stop nothing.
- event stream: the map holds no closing or replaced connection; an entry is
  taken only by the player's own connections; ends are announced; dispatch
  goroutines end, and `Start` keeps coming back.
- room registry: a room made in this life of the process can be reached; a
  stream hears the manager that requests go to; what becomes of the rooms of earlier
  lives does not depend on crashes or on what is done with other rooms.
- container manager at start: a start without failures ends with exactly
  `MaxWorkers` containers, and nothing piles up over crashes.
- server lifecycle: the two above, over crashes, shutdowns that streams outlast and
  the restarts of the script.
- browser client: while the button is disabled something is pending that
  enables it, and the button comes back if the server's handlers end; it is known how
  a banner can stay on the page; a page at rest shows the leaderboard as it is, of the
  room that is selected.

## 2. Modules

| module | models |
|---|---|
| `Executor` | worker pool and the container manager while the server runs |
| `JudgeService` | what the executor promises: an abstract specification without workers, channels or containers |
| `ExecutorRefinement` | the refinement mapping from `Executor` to `JudgeService` |
| `ExecutorProofs`, `ExecutorRefinementProofs` | theorems about `Executor`, and that it implements `JudgeService` |
| `RoomManager` | one room manager: channel, senders, `Start` goroutines, rows |
| `RoomService` | what a room promises its clients: an abstract specification without channels, goroutines or statements |
| `RoomRefinement` | the refinement mapping from `RoomManager` to `RoomService` |
| `RoomManagerProofs`, `RoomRefinementProofs` | theorems about `RoomManager`, and that it implements `RoomService` |
| `EventStream` | the event streams of a room, composed with `RoomManager` |
| `EventStreamProofs` | theorems about `EventStream` |
| `ContainerPool` | the containers over the lives of the process: `InitializePool` |
| `RoomRegistry` | which rooms there are and which manager serves each |
| `Server` | start, signal, shutdown, exit status and restarts, composed with `ContainerPool` and `RoomRegistry` |
| `ServerProofs` | theorems about `Server` |
| `Client` | one open page of `app.js`: room, source, submit button, timers |
| `ClientProofs` | theorems about `Client` |
| `Board` | the leaderboard of a page, its requests, and the notices that cause them |
| `BoardProofs` | theorems about `Board` |
| `MCExecutor`, `MCRoomManager`, `MCEventStream`, `MCServer`, `MCClient`, `MCBoard` | instances for TLC |

In every module a comment "seeded bug" marks a variant of an action as a
plausible mistake would have made it.  It is in no next-state relation; replacing
the action by it must break the property it is made for.

### How state and actions correspond to the code

**Executor.**  `jobs` is the channel of `NewWorkerPool`; a job is named by its
caller, because a caller (the loop of a room) has one call outstanding at most
and makes a new `Result` channel for each.  `pc[w]` follows one worker goroutine
through `executeJob`: *select* (`worker`), *acquire* (`GetAvailableContainer`, a
locked scan per step, `tries` failed scans so far), *mark* and *free* (the two
unlocked writes by `SetContainerState`), *run* (`executeCode`), *send* (the
answer).  `Acquire` marks the container busy under the mutex, as the scan does;
`Mark` writes it again, as `executeJob` does.  The unlocked writes race with
locked scans in the Go memory model.  A scan compares a state with "idle"; "idle"
and "busy" are strings of equal length, so also a torn read yields one of the
two, and the step-by-step interleaving is what the build can produce.
`GiveUp` is the path on which nothing answers: the search ends with `""` and a
nil error, `SetContainerState("")` fails, `executeJob` returns.  The branch on
`shutdownChan` is left out: nothing closes it.

**JudgeService** states what callers rely on: a bounded first-come first-served
line, as many served at once as there are workers, a slot burned by a failed
run, a call that may be dropped when no slot is free, and otherwise the verdict
of the call's own run.  `ExecutorRefinement` maps the program counters to the
phases of a call.

**RoomManager.**  A request of a client is in `unsent`, then in `sending` (its
goroutine is at `rm.Events <- e`), then in `events`, then in `ev[c]` of a
consumer, the goroutine `c` in `Start`.  `at[c]` is the next statement of the
process function: one SQL statement, one `ExecuteJob`, or one channel operation
per step.  `rows` is `room_players` of the room and `roomRow` whether the room is
in `rooms`; the primary keys and foreign keys of `sqlc/schema.sql` decide which
statements succeed, and with `DbFaults` any statement may fail besides.  At first
there may be rows that an earlier life of the server left (`Leftovers`): nothing clears
`room_players`, and their places may be unranked, if the life ended between the insert
and the ranking.  Ranking is one SQL statement in the code and one step here.  `Judge`
turns the possible results of `ExecuteJob` into a verdict as the loop over test
cases does, the zero `Result` of a rejected job included.  `sent` has what was
handed to `go rm.dispatchEvent(...)`.  `moved` and `judged` are history
variables.  A score that became null is `Null`, and nulls rank first, as in
PostgreSQL's descending order.  `Overtaken` are the joins that the primary key ends
without a notice, because another goroutine has inserted the player after the check.

**RoomService** gives each request of a client a status: *new*, *asked*, then
*done* at the one moment it takes effect, *told* when its notice is out, or
*dropped*.  A solution takes effect when it has its verdict, and the notice tells
that verdict; members change by joins and departures only; a room with members
stays.  `RoomRefinement` computes the status of a request from where its event, or
the `SolutionResult` made of it, is: `unsent`, a sender, the channel, a consumer and
its place, or `sent`.

**EventStream** EXTENDS RoomManager; its connections make the joins and leaves, by the
`Spawn` of a `Request` without the handlers' checks. `conn[k]` is the handler's place:
*registered* (after the unlock), *entering* (the goroutine that sends `PlayerJoined`
is started, the loop not yet reached), *select*, *writing*, *flushed* (an event is
written, the loop not yet back), *leaving* and *closing* (the deferred functions, in
order), *closed*.  `Push` needs the handler in its select, since the channel has no
buffer; `Drop` is the default of the select or the recovered panic of a send on a
closed channel.

**ContainerPool.**  `docker` is what the daemon has and outlives the process;
`containers` is the map in memory.  A step is one call to the Docker API, and
each may fail.  `Start` leaves a container that does not start behind in state
*created*; `GiveUpBalancing` is an error that `InitializePool` drops.

**RoomRegistry.**  `rooms` has the number of each room's manager in this life (0
when the map has none), which tells a manager from its predecessors.
`CreateRoomHandler` is two steps, `Insert` and `Register`, with `creating`
handlers between them; all rooms made this way have the id 0, because
`CreateRoomParams.ID` is never set.  A stream keeps the manager it found.
`occupied` stands for rows in `room_players`, which keep a room from deletion.

**Server.**  `process` and `attempt` follow `scripts/server` and `run`.  The
pool is initialised in *starting*, requests come in *serving*, and in *draining*
only what is under way goes on.  `Stop` is `Shutdown` returning nil and status 0;
`ShutdownTimeout`, its deadline, is status 1, as any `Crash`, and the script
starts the server again while it has attempts left.

**Client.**  A step is a callback of the page.  `post[n]` is the request of the
n-th submission, `watches`, `resets` and `clears` the pending timers of 30, 5 and
3 seconds.  `banners` are the "Executing code" elements on the page, each of one
submission, and `executionStatus` the one the page has a reference to, with its
field `timeoutId`, which names a timer; a submission overwrites the reference and
leaves an older element where it is.  `errorLog` is the box that a wrong verdict fills
(*log*) or in which the catch of that callback leaves its excuse (*unreadable*).
Timers are not timed: they fire in any order after they were set.  `handling` has the
submissions whose handler is before or at its send to the room's channel: the 202 is
written first but stays in the server's buffer until the handler returns
(`solution.go:36-40`), so the page has it no sooner, and the handler hands the
submission over whether or not the request has failed meanwhile.  `judging` has what
the server took and gave no verdict on.

**Board.**  The list of the room `Here` is a version, the number of changes of its
rows; what the page shows is a room and a version.  `requests` and `answers` are the
two halves of `fetchLeaderboard`, before and after the server has read the rows;
either may be served in any order, and a request may fail, which clears the list.  The
room is seen from this page: `busy` goroutines have changed rows and not announced it,
a notice passes `outbox`, `pushes`, the handler and `inbox`, and is lost when it meets
a handler outside its select.  `handler` goes from *dialed* to *registered* and
*entering* as in `EventStream`, or to *refused*, a 404 of a room without a manager,
after which the browser does not reconnect.  `arrival` follows the `PlayerJoined` of
the page's own source; it fails when the processing ends with an error.  A source that
is given up leaves a handler behind, a *ghost*, which may delete the player's entry
when it ends.  Choosing the placeholder leaves the source open, so that the next
notice fills the list again, although app.js:138 says "Clear leaderboard if no room is
selected".

## 3. Runs

| run | instance | shows |
|---|---|---|
| `executor` | two callers, two workers, two containers in any initial state, queue of one, two scans, failing runs | exclusive containers; one owner per call; causes of starvation; who fills the queue; implements `JudgeService`; workers return; calls return while containers are healthy |
| `executor_lost` | the same, all containers idle at first | **violated**: a call that never returns |
| `room` | one `Start`, two players, rows of an earlier life, five requests (one player comes, goes and deletes the room, two submit), two test cases, channel of two | members follow the events, arrivals are of members, verdicts in order, occupied rooms stay; implements `RoomService` |
| `room_two_starts` | two `Start`, two players of whom either may be a member already, one player who joins twice, submits and goes, channel of two | one verdict, no stale leaderboard, every event is served, but a join that another has overtaken |
| `room_full` | one `Start`, three requests, channel of one | **violated**: `Start` blocks on its own channel |
| `stream` | two connections of a player, channel of one, SQL statements that fail | the listener map; ends are announced, dispatch goroutines end, `Start` returns |
| `stream_deprived` | two connections of a player | **violated**: a client that is served and of whose player there is no entry, after the end of the other connection |
| `client` | two rooms, two submissions, two 3-second timers | something pending brings the button back; it comes back if the handlers end; how a banner stays |
| `client_double` | one room, two submissions | **violated**: two submissions of a page are judged at once |
| `board` | a page with two rooms, two `Start` goroutines, two versions, two requests and two notices at once, one ghost | a page at rest shows the current list of the selected room, and the exceptions |
| `server` | three lives, three containers in any state, two workers, two rooms | the pool converges, rooms of this life are reachable, those of earlier lives stay as they are, streams hear their room |
| `server_exited` | the same | **violated**: stopped containers are counted as workers |

### Why the bounds are enough

*executor*: two workers are needed for two scans to race and two containers for a
scan to choose; with two callers and a queue of one, a call can be queued, picked
and rejected.  Two scans reach both the retry and the giving-up; ten would add
only more of the same waiting.  Initial states "idle" and "error" are those
`InitializePool` makes.

*room*: two submissions, of two players who may be members or not, are the least
for an order to be wrong; two test cases for a run to fail after one that matched; a
channel of two for an event to wait behind another.  The other three requests are
what changes the members: a join, a departure, and the deletion that members keep
from happening.  The code's capacity is 10: it matters only for whether the channel is
full.  `room_full` and `stream` reach that with a capacity of one.  In *room* the
channel can be full as well, where only safety is checked; in *room_two_starts* it
can, but not so that both goroutines wait: there is one submission.
*room_two_starts*: two players are the least for a rank to be wrong.  The second is a
member from an earlier life, or not; the first joins twice, so that both goroutines
can find it absent; its submission makes the scores differ, and its departure moves
the other's rank.  So the rows of either change while the other goroutine is between
its statements.  An unknown language or question, which only ends a submission early,
is in no run and arbitrary in the proofs.

*stream*: what can go wrong in the map needs two connections of one player.  A
second player's entry is another key.  With a channel of one a sender is blocked as
soon as another event waits.

*client*: the second submission can start while the timers of the first are
pending, so that a banner's timer belongs to an earlier submission, and while its
success is still shown, so that the page loses its reference to the first element.
Two 3-second timers can then be pending for one element.

*board*: two versions are the least for a list to be old and not the oldest; two
requests and two notices for answers to overtake one another and for a notice to
meet a busy handler; two `Start` goroutines for a change to come between another's
change and its notice; one ghost for an entry to be deleted.  `BoardProofs` shows
that larger bounds add nothing.

*server*: three containers and two workers give too few, enough and too many to
start with, in any mix of running and stopped; in three lives a room made in the
first is left over in the second and its row can be met again in the third, and what
two lives have left is there at once.  Nothing in memory survives.  Two managers of the
new room's id let one replace another while a deletion of the first is under way.
Containers stop only between lives here, because a life reads their state once,
at its start.

Requests, submissions and attempts are finite, so the instances of rooms,
streams and the server stop at the end (`CHECK_DEADLOCK FALSE`), and the
executor does where every caller waits for a lost answer.  The pages of `client`
and `board` never stop and are checked for deadlock.

## 4. Fairness

- *Goroutines* (`Executor`, `RoomManager`, `EventStream`): weak fairness for each
  goroutine as a whole.  The Go scheduler is preemptive and runs what can run; a
  `docker exec` ends at the latest with its 30-second timeout; the SQL pool
  returns a result or an error.
- *Blocked senders* (`Send(e)`): strong fairness.  Go queues the senders of a
  full channel first in, first out, so a sender gets its turn if the channel
  has room again and again.
- *Callers* of the executor, *clients* of rooms and streams: none.  Nobody is
  obliged to call, connect, disconnect or submit.
- *Client*: timers fire, and a request whose handler is done with it is answered or
  fails, as the browser sees the connection through or lose it.  Nothing obliges a
  handler to be done: it sends to the room's channel (`solution.go:40`) without a
  deadline, the server has no write timeout and the page's `fetch` none either
  (`app.js:396`), so in a room that is wedged as in `room_full` the page waits for
  ever.  `ButtonComesBack` therefore has "handlers end" as its premise.  Events of the
  source need never come, and the player does what he likes.
- *Board* and *Server*: none; what is checked of them is safety.

## 5. Proofs

Every invariant, every action property without fairness and both refinements that a
passing run checks are also proved for all values of the constants.  Besides the
named assumptions on the constants, which TLC evaluates in the runs, a theorem
assumes only what it says after ASSUME, or in front of its implication.

For each run that shows a violation there is a theorem that says how far it goes:
when alone it can happen, how much is lost, or that it cannot be mended
(`PoolShrinks` and `DeadPool`, `BlockedByOthers` and `WedgedForGood`,
`AloneIsHeard`, `OneAtATimeUndisturbed`, `StoppedCostWorkers`).

`ExecutorProofs` (for any callers, workers, containers, capacity, retries):

1. `TypeCorrect`: the types, strengthened by `Locals`, which ties a worker's
   locals to its program counter (a job from the pick on, a container from the
   scan to the release, an outcome after the run).
2. `Exclusion` and `HeldStaysBusy`: neither is inductive alone.  A scan gives a
   container out because it is idle; that nobody holds it then is
   `HeldIsBusy`, and that a release sets idle only a container nobody else holds
   is `ExclusiveContainer`.  Their conjunction with the types, `XInv`, is.
3. `SingleOwner` and `ReplyHasRoom`: from `Own`, which says where a call is by
   position in the queue and by worker, and that the two are apart.
4. `Starvation`: an empty scan is explained by counting.  If no container is
   leaked or unusable, each is held; a worker that scans holds none; so there are
   fewer containers than workers.  The cause persists, since nothing frees a
   leaked container or mends an unusable one.
5. `Rejection`: the positions of a full queue are mapped one to one to the other
   callers, because `Own` lets no caller be queued twice, and the caller that is
   rejected is not queued at all.
6. `PoolShrinks`, `DeadPool`, `AbandonedForGood`: the counting behind
   `executor_lost`.  `Lost` are the containers that are unusable or busy without a
   worker.  A failed run adds exactly its own container, no other step adds one,
   and none leaves, so a server sees at most as many failed runs as it has
   containers; when the last is lost, no code runs again.  A call
   that its worker abandoned stays so, since its channel is in nobody's hands.

`ExecutorRefinementProofs`: `JudgeImplemented`, that `Executor` implements
`JudgeService`.  Initial states map to initial states, and `RInv` (the invariants
above, with *a run that frees its container was "ok"*) makes each step one
abstract step or a stutter, by one lemma per action.  The phase of a call is where
it is, so a step that moves a call moves its phase and no other (`OthersSame`).
`Serve` needs a count: a worker in its select carries nothing, so fewer calls are
served than there are workers.

`RoomManagerProofs` (for any players, requests, tests, capacity; `Start` goroutines
as said).  Each invariant is proved of `LooseSpec`, in which a request enters
without the checks of its handler (`Ask` in place of `Request`), and follows for
`Spec` by `Loosen`: what a room guarantees does not rest on those checks.  That is
also what lets `EventStreamProofs` use it for the joins and leaves that event
streams make, which pass no such check.

1. `TypeCorrect`, strengthened by what a consumer processes at each place.
2. `OccupiedStays`, for any number of goroutines and failing statements: the
   foreign keys alone keep it.
3. `Fresh`, for any number of goroutines, as long as no statement fails: whoever
   changes rows is at *rank* after it, and *rank* mends the places of all members,
   not only of its own player.  It holds from the first notice on that follows a
   ranking (`LeaderboardTold`): until then the places may be what an earlier life left.
4. `SingleVerdict`, for any number of goroutines: `PlaceInv` says that an id is in
   one of the places a request or its result can be in, and in it once.
5. `AnnouncedIn`, `MembersFollow` (no failing statement) and `OrderedVerdicts`, for
   one goroutine and whatever rows were there at first.  They are false for two.
   `MembersInv` says of each place of the goroutine how far the members are behind the
   events.  `OrderInv` puts the results received, those in the channel and the
   submission that is being judged in one line, in the order of their submissions.
6. `NoPoints`, `TwoRanks` (no failing statement), `ScoreLost`: what the null of
   `ScoreToAdd` makes of a leaderboard.  A member has the initial score or none; a
   score goes with an accepted solution of the player's own and does not come back;
   so, once ranked, all who solved something share the first place, and all others the
   next.
7. `BlockedByOthers`: the events in a channel are of different requests, and a
   goroutine at *post* is busy with yet another, so it finds the channel full only
   while more than `EventCap` requests are under way.
   `WedgedForGood`: when the channel is full and every `Start` goroutine is at its
   own send or waits in `ExecuteJob` for ever, nothing in the room moves again.

`RoomRefinementProofs`: `RoomImplemented`, that `RoomManager` implements
`RoomService`, for any number of goroutines, whatever statements fail.  `PlaceInv`
makes the status of a request a matter of its place (`Mapping`), and `Ways` adds
that only a goroutine at *post* has a result of its own and that a result goes the
way of its status.  A step moves one request, or none, from place to place
(`OthersStatus`).  Results are moved and not made (`VerdictsSame`) except at the
end of a judgement, which is `Decide` (`NewVerdict`); hence the notice that is told
is the verdict's.

`EventStreamProofs` (on top of `RoomRefinementProofs`):

1. `NeverStale` and `LostToOwn`, by `ListenInv`, which adds to both that a player's
   connections are opened in their order.
2. The composition keeps what the room promises: every step of `StreamSpec` is a step
   of `LooseSpec` (`RoomInside`; `Unused` says that a connection that has not got
   there yet has not spent its event).  Hence `StreamRoomImplemented`: with its
   streams the room still implements `RoomService`; and `StreamRoomSafe`,
   `StreamRoomOrderly`, `StreamMembersFollow`.
3. `ToItsPlayer` and `ToldOnce`, about dispatch, which have the room manager on one
   side and the listener map on the other: a verdict goes to its own player only; a
   notice goes to one connection of a player, because an entry holds one; and an
   event is dispatched once, because it has one notice (`SingleVerdict`).
4. `AloneIsHeard`: as long as the connections of one player do not overlap, a player
   whose client is served has an entry (`ConnectedAreListeners`).  Overlap is the one
   premise that `stream_deprived` breaks.

`ClientProofs`:

1. Types, and `Armed`, which is inductive with them: each callback that takes away a
   timer or a request ends the execution or leaves another pending.
2. `BannersStay`: an element that the page refers to is left without anything under way
   that removes it only by a wrong verdict that the page does not understand; and the
   page loses its reference to one only in a submission made while a success is still
   shown, or while an element was kept so.  `OrphansForGood`: such an element is never
   removed again.
3. `OneAtATimeUndisturbed` lists all that lets the server have two submissions of a
   page: an event of another submission that ends the wait, a request that failed
   although its handler had yet to hand it over, one that failed while a submission was
   to be judged, and the 5-second timer.  Without these four (`Undisturbed`) there is
   one submission `Underway` at most, with a handler or with the judge, and the page
   waits for it (`OneUnderway`).

`BoardProofs`: the types; `SelectedHeard` and `BoardOfSelection` by `SelectionInv`,
which says that of requests in turn the newest is of the selected room; and
`SettledBoard` by `BoardInv`, whose part `Pending` says why a list may be old:
as long as it is, a change is yet to be announced, or a notice, a request or the
page's own arrival is still to come, or a notice was missed, or the arrival failed.
What `SettledBoardIsCurrent` excepts is: a request that failed or came out of turn; an
arrival that failed (`room_manager.go:392-404`); and a notice lost when the handler is
on its way to the select, or writing a verdict, after the arrival was announced.

`ServerProofs` (over any number of lives):

1. `RoomsReachable` and `StreamsHear`.  `RoomInv` adds why: only the id of new
   rooms is ever born in a life; a process that does not serve yet remembers
   nothing; a settled stream is on a room whose row is there, so that the primary
   key keeps a creation from beginning, and no creation was under way when it was
   opened, so that none can end.
2. `StartsClean` and `NeverPilesUp`, by `PoolInv`: while the pool is
   balanced, what is registered and what is still needed add up to `MaxWorkers`,
   and a container that was created and not started yet exists and is counted in
   what is needed.
3. `ServerTypeCorrect`.
4. `OrphanedForGood`: the row of a room of an earlier life, unless
   `NewGlobalRooms` makes that room, has no manager, stream, deletion or (for the
   id of new rooms) creation under way, and no step, restart or crash gives it one;
   so it is never deleted, and whether it has members never changes
   (`OrphanedRoomsStay`).
5. `StoppedCostWorkers`: after a clean start the containers that can take a job are
   `MaxWorkers` less those that do not run.  `AsListed` says that what is registered
   is in the state Docker has it in.  It is the exact size of what `server_exited`
   shows, and `AllCanRun` holds when nothing is stopped.

Only model-checked: everything under fairness (`WorkersReturn`,
`AnsweredOrAbandoned`, `HealthyCallsReturn`, `EveryEventServed`, `EndIsAnnounced`,
`DispatchEnds`, `StartReturns`, `ButtonComesBack`), because TLAPS has no support for
liveness here.  `WedgedForGood`, `DeadPool` and `AbandonedForGood` are the safety side
of three liveness failures: they prove that the state reached cannot be left, and TLC
that it is reached.

## 6. Where the code departs from what the repository says

With a run that shows it:

- `executor_lost`: a failed run keeps its container (`worker_pool.go:140`), a
  search that finds none reports no error (`container_manager.go:302`), and the
  caller waits for ever (`worker_pool.go:110`).
- `room_full`: `Start` sends verdicts to the channel it alone receives from
  (`room_manager.go:273`).
- `stream_deprived`: listeners are kept by player, so a newer connection takes the
  entry of an older one (`events.go:39`), and the end of the older deletes it
  (`events.go:46`): the client that stays is connected, and its player is in the map
  no more.  `room_manager.go:25` says "listeners are all the clients connected to the
  room, represented by their client IDs".
- `client_double`: a request that fails enables the button (`app.js:463-464`) while its
  handler still waits for the channel or the judge works on its submission; so do
  anyone's success (`app.js:210`) and a timeout.
- `server_exited`: stopped containers count as workers
  (`container_manager.go:259`).

Seen in the models, without a run of its own:

- An accepted solution sets the player's score to null: `ScoreTooAdd` is an
  `Int4` that is not `Valid` (`room_manager.go:311`); `note.md:5-7` lists this as
  mended.  `NoPoints`, `ScoreLost` and `TwoRanks` prove what follows.
- A room made over HTTP has two `Start` goroutines (`room.go:71`,
  `room_manager.go:78`); one can delete a player's row between the other's
  check and its announcement of the same player.
- `ROOM_DELETED` is sent although the foreign key keeps a room with members
  (`room_manager.go:472-478`).
- Every new room has the id 0 (`room.go:58`), so there is one at a time; after a
  restart its row has no manager (`room_manager.go:47`), so it can be neither
  joined nor deleted, and no other can be made (`OrphanedForGood`).
- A server that gets a signal while a stream is open exits with 1 after 30 seconds
  (`server.go:52`), and `scripts/server` starts it again as "crashed".  The same
  script builds to `-bin/server` and runs `bin/server`.
- An answer to "leave" that is late deselects the room selected meanwhile
  (`app.js:568`); it closes that room's source too, so that the page is
  consistent though not what the player chose.
- A page without a room gets its list filled by the next notice of the room it
  deselected (`app.js:138`, `app.js:601-605`).
- Answers to requests for the list are shown in the order they come
  (`app.js:143`), so the older may stay; and a notice that meets the handler
  between a write and its next select is lost (`room_manager.go:149-158`).  The
  run `board` has both as the exceptions of `SettledBoardIsCurrent`.
- A submission made within three seconds of a success makes a new "Executing code"
  element and forgets the old one (`app.js:369-375`), which stays on the page
  (`OrphansForGood`).  A wrong verdict that the page does not understand leaves the
  element in place too (`app.js:260-271`).
- A submission to a wedged room is never answered: its handler waits at
  `solution.go:40`, before the 202 is flushed, and the page, whose 30-second timer
  starts with the answer, waits for ever (`app.js:396`).
- Of two joins of one player that two `Start` goroutines process at once, one is ended
  by the primary key without a notice (`room_manager.go:397-405`), and the page that
  sent it is not made to ask for the list again.  The runs `room_two_starts` and
  `board` have this as an exception.
- A leave may be received before the join of its connection, as nothing orders the two
  goroutines (`events.go:48`, `55`): the player stays in the room.
- An event source that is refused, for a room without a manager, is not opened again
  (`events.go:26-28`); the page shows the room as selected and hears nothing.
- `CreatePlayerParams.ID` is never set either, so there can be one player made by
  the program.

## 7. Not modelled, and why

- `checkHealth`, `MonitorContainers`, `ShutDown`, the sanitizer and most of the
  generated queries: nothing calls them.
- The HTTP handlers that read or write one row (players, questions, lists): they
  keep no state and share none.
- The texts and ranks of the leaderboard in the page, creating rooms in the page,
  the editor, `login.js`: display and form handling.
- Spellings of languages: a lookup in a table; a submission's language is known
  or not.
- Code, test data and outputs: a run matches, does not match, fails, is rejected
  or is lost.
- Time: deadlines and timers are choices, except that what has a deadline ends.

## 8. What could follow

1. A room and the executor composed (`Judge` of `RoomManager` replaced by a call of
   `Executor`), for what a stuck room does to the others.
2. A bulletin service as the abstract specification of `EventStream`.
3. `Languages` as a function with its idempotence, and the statements of the
   players' handlers.
