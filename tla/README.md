# LiveCollab: specifications, model checking and proofs

LiveCollab is a collaborative text editor: browsers hold WebSocket connections
to one of several Go backends, and the backends share rooms through Redis. This
directory holds TLA+ modules of that program, the TLC configurations that check
them on small instances, and proofs that TLAPS checks for every instance. Paths
below are relative to the root of the repository.

Check a configuration with `tlc -config MCDelivery_crash.cfg MCDelivery.tla`,
a proof module with `tlapm DeliveryProofs.tla`. `PROJECT.json` maps definitions
to source lines and lists runs, mutants, hazards and theorems.

## 1. Inventory of the system

| Component | Source | State it keeps | Operations |
|---|---|---|---|
| Redis document store | `backend/redis_store.go` | per room: the keys `exists`, `content`, `version`, `sequence`; a stream of accepted edits | `CreateRoom` (script), `GetSnapshot` (three GETs), `ApplyOperation` (script), `ReplayBoundary`, `ReadEvents` (XREAD), `EventsAfterSequence` (XRANGE pages) |
| Cached room | `backend/room.go` | text, version, sequence, the set of clients, a presence sequence | `GetSnapshot`, `ApplyOperation`, `ApplyDistributedEvent`, `AddClient`, `RemoveClient`, `BroadcastJSON` |
| Room manager | `backend/manager.go`, `backend/utils.go` | room by id, the set of running watchers | `CreateRoom`, `GetRoom` with hydration, `DeleteRoom`, `ensureWatcher`, `watchRoom` |
| Connection | `backend/client.go`, `backend/ws.go` | `replaying`, `lastSequence`, `pending` under `deliveryMu`; the locals of `serveWS` | `serveWS`, `resumeClient`, `beginReplay`, `finishReplay`, `writeContentUpdate`, `handleContentUpdate` |
| Presence | `backend/presence.go`, `backend/redis_presence.go` | Redis hash of members, sorted set of leases, presence sequence, notification stream; a watcher per room | join, renew, leave, sweep, snapshot, watch |
| Heartbeat and lease | `backend/presence_lease.go` | time of the last pong and last renewal | ping, pong, renewal, close on a failed ping |
| Redis client | `backend/redis_client.go` | nothing: one TCP connection per command | `Do`, `Eval` |
| Browser editor | `frontend/src/pages/RoomPage.tsx`, `frontend/src/presence.ts` | text, `serverVersion`, last sequence, a debounced edit, the reconnect cursor | key stroke, send, receive, reconnect |
| Local-memory mode | `room.go`, `manager.go`, `ws.go`, `presence.go` | the room is the document | local apply, broadcast, room removed when empty |
| HTTP, telemetry, trace | `server.go`, `telemetry.go`, `trace.go` | metrics | room creation and check, `/metrics`, `/health` |

How they interact. `serveWS` runs as one goroutine per connection: it asks the
manager for the room (hydrating it from Redis), adds its `Client` to the room,
joins presence, replays what the client missed or sends a `room_state`, and then
reads frames. An edit goes to the Redis script; the handler does **not**
broadcast it. One `watchRoom` goroutine per room and backend follows the stream,
updates the cached room and writes the event to every client of that backend,
through `Client.writeContentUpdate`, which drops what was sent already and
buffers while the handler replays. A connection is therefore fed by two
goroutines, and the cached room is written by three kinds of them (handlers with
snapshots, handlers with script replies, the watcher with events).

What is hard in it:

- **The replay-to-live handoff.** Events keep coming while older ones are still
  being written; the buffer, the boundary and `deliveryMu` must let none be
  lost, doubled or overtaken.
- **Joining.** `AddClient`, then the snapshot: in any other order, events fall
  between the two. The snapshot itself is three commands, torn by commits.
- **The watcher's startup boundary.** It skips what the room held when the
  watcher started; the cached room's sequence moves for other reasons later.
- **Failure.** A backend may die between any two steps; a Redis reply may be
  lost after its script ran; a socket may break, or block a broadcast, at any
  write.
- **Optimistic concurrency.** Version check, increments, text and stream entry
  must be one step, or two backends acknowledge edits on the same base.

What makes each component correct:

| Component | Properties |
|---|---|
| Document store | the keys and the stream are one document; under `reject` an accepted edit was based on its predecessor; sequences grow |
| Cached room | its sequence never goes back; its snapshot may lag but never runs ahead |
| Connection | a resumed client gets cursor+1, cursor+2, ...; a fresh one misses nothing after its `room_state`; `resume_complete` separates replay from live; every live client is told of the newest edit |
| Presence | a removed member is not brought back by a late renewal; a crashed backend's members go once; a change reaches every page that stays |
| Heartbeat | a healthy client's lease does not lapse; a dead one's connection is closed |
| Editor | edits are accepted in the order typed; an accepted edit replaces what its page has shown; a page that has read everything shows the newest document |
| Room manager | one Room for each id and backend, and its watchers feed it; a request Redis leaves waiting without `m.mu` holds up nobody else |
| Local mode | everyone in the room shows the newest text and list, or is about to; a client is never in a room the manager has forgotten |

## 2. Modules

| Module | Models | Extends |
|---|---|---|
| `DocStore` | the room's keys and stream, the two Lua scripts | |
| `DocStoreProofs` | theorems about `DocStore` | `DocStore`, `TLAPS` |
| `Delivery` | backends (cached room, watcher), connections (handler, client, socket) over `DocStore`, crash and faults | `DocStore` |
| `DeliveryInv` | the inductive invariant of `Delivery` | `Delivery` |
| `DeliverySteps` | lemmas the steps share, and one lemma per action: it preserves the invariant | `DeliveryInv`, `DocStoreProofs` |
| `DeliveryProofs` | the theorems about `Delivery`, and that it implements `OrderedDelivery` | `DeliverySteps`, `DeliveryRefinement` |
| `OrderedDelivery` | abstract specification: one log, and connections that are sent consecutive pieces of it | |
| `DeliveryRefinement` | the refinement mapping from `Delivery` to `OrderedDelivery` (`INSTANCE ... WITH`) | `Delivery` |
| `Editor` | pages (refs, debounce, frames) and the connection that serves each, over `DocStore` | `DocStore` |
| `EditorProofs` | theorems about `Editor` | `Editor`, `DocStoreProofs` |
| `PresenceStore` | the presence keys of a room and the scripts on them | |
| `Presence` | join, leave, heartbeat, sweeper, presence watcher, guarded socket write, the browser's reducer | `PresenceStore` |
| `PresenceProofs` | theorems about `Presence` | `Presence`, `TLAPS` |
| `Heartbeat` | the clocks of one connection: ticker, read deadline, renewal, lease | |
| `HeartbeatProofs` | theorems about `Heartbeat` | `Heartbeat`, `TLAPS` |
| `RoomManager` | which Room an id stands for on one backend, and which Room its watchers feed | |
| `RoomManagerProofs` | theorems about `RoomManager` | `RoomManager`, `TLAPS` |
| `LocalRoom` | a room without Redis | |
| `LocalRoomProofs` | theorems about `LocalRoom` | `LocalRoom`, `TLAPS` |
| `MCDelivery`, `MCEditor`, `MCPresence`, `MCRoomManager`, `MCLocalRoom` | model values, definitions for constants and symmetry for TLC | the module named |

How they fit together. `RoomManager` shows that an id has one Room and one watcher on a
backend; `Delivery` and `Presence` take that as given and say what the watcher and the
handlers do with it. `Delivery` shows that a connection is sent a consecutive piece of the
log; `Editor` takes that as given (a replay is one step, a watcher feeds the events in
order) and says what the page does with the frames, with the events, snapshots and replies
of watcher and handler in any order. `Heartbeat` shows that a lease does not run out under
a peer that answers; `Presence` lets it run out at any moment.

### DocStore

`exists` and `doc` are the room's four keys, `stream` its event stream. A script
is atomic in Redis, so `CreateRoomScript` and `ApplyOperationScript` are one
action each. A text is named by the stream position of the edit that wrote it
(0: the empty text), which is all any property needs to tell texts apart; the
only payload an entry keeps is the base version its sender claimed.
`FreshIds = TRUE` says that `generateRoomID` returns no id of a live room; the
script itself does not test that; section 4 says what happens without.

### Delivery

One room in Redis mode. Each Redis command, each critical section that does not write
to a socket and each socket write is one step, so steps of the watcher, of all handlers
and of other backends fall between any two of them; the several writes that
`finishReplay` makes while it holds `deliveryMu` are steps of their own. The one
exception is `Acknowledge`, which has `operation_result` and, after a refusal, the
`room_state` that follows in one step: the errors of both are ignored, and `wire` records
only the second. `Editor` and `LocalRoom` have the two frames apart.

| Variable | Code |
|---|---|
| `room[b]` | `RoomManager.Rooms[id]` of backend b: cached or not, text/version/sequence, `Clients` |
| `watcher[b]` | `watchRoom`: its program counter, `initialSequence`, the cursor and end of the batch, the clients still to be written to |
| `client[c]` | the `Client`: `replaying`, `lastSequence`, `pending`; the state of its socket; the order in which `AddClient` appended it |
| `handler[c]` | `serveWS` of connection c: program counter, backend, the URL's `lastSequence`, and the locals of `GetSnapshot`, `resumeClient`, `EventsAfterSequence`, `handleContentUpdate` |
| `wire[c]` | history: what was written to the socket |

Actions and code: `CreateRoom` (`POST /rooms`); `Connect`, `GetNext`,
`HydrateRoom` (`GetRoom`, `ensureWatcher`); `Register`, `Join`
(`beginReplay`, `AddClient`, `JoinPresence`); `ReadBoundary`, `WriteStarted`,
`ReadPage`, `VisitEntry`, `FinishReplay`, `FlushNext` (`resumeClient`); `GetNext`,
`ApplySnapshot`, `SnapshotFails`, `WriteState` (the `room_state` of a fresh
connection); `ReceiveEdit`, `Evaluate`, `EvaluateFails`, `ApplyReplyToRoom`,
`Acknowledge` (`handleContentUpdate`); `Abort`, `Disconnect`, `RemoveClient`,
`CloseConn` (early returns, the read loop's end, the deferred calls);
`ReadBatch`, `ApplyEvent`, `SnapshotClients`, `Send` (`watchRoom` and
`BroadcastJSON`); `Reset`, `Stall`, `HeartbeatClose`, `Crash` (environment and
heartbeat).

Three details a reader might miss. Broadcasts go through the clients in the
order they were added and a write has no deadline, so a stalled peer holds up
those behind it (`Send` takes the smallest ticket and waits while `Blocked`)
until the heartbeat's ping fails and closes the socket. `finishReplay` holds
`deliveryMu` from `resume_complete` to the last buffered event, so the watcher waits for
it (`Blocked`), until the heartbeat closes the socket if the client has stalled, and a
socket that breaks in between leaves part of the buffer written. And a stream cursor is the application sequence,
so `resumeClient` reads pages from the start of the stream and skips what is at or
before the cursor, as `EventsAfterSequence` does.

### OrderedDelivery and DeliveryRefinement

`OrderedDelivery` is what a reader of `README.md:65-79` may expect of a room: a `log`
of accepted edits, `Accept` with the base version rule of the policy, `Connect` with a
cursor, and `Deliver`, which sends a connection the next events of the log after its
cursor, or after what it was sent. It has no backends, caches, buffers, crashes or
faults. `DeliveryRefinement` maps the log to the stream, the cursor to the
`lastSequence` of the URL and what was sent to the `content_update` frames on the
wire. A `Deliver` sends one event.

### Editor

Pages in Redis mode. `page[e]` has the refs of `RoomPage.tsx`; `outbox`, `inbox` and
`late` are the two directions of the socket, and what a broken one may still deliver;
`conn[e]` is `serveWS` reduced to what decides the order of frames. A text is the
newest document it was made from, so that "was this edit made from the document it
replaces" is a question about two numbers.

| Action | Code |
|---|---|
| `Type`, `Fire` | `handleContentChange` and its 250 ms timer, which captures `baseVersion` at the key stroke |
| `ConnectFresh`, `ReadSnapshot`, `WriteState` | connect with cursor 0, the three GETs and the commits between them, `room_state` (also the one that resyncs after a refusal) |
| `Resume` | connect with a cursor: replay and `resume_complete` |
| `OnRoomState`, `OnContentUpdate`, `OnOperationResult`, `OnResumeComplete` | the cases of `onmessage` |
| `Apply`, `ApplyFails`, `Reply`, `ApplyLate` | `handleContentUpdate`, also for a connection that is gone |
| `Feed` | the room's watcher |
| `Drop`, `OnClose` | the connection breaks; `onclose` and the reconnect timer |

Nothing in the code orders `serveWS` and the watcher, which write to one socket, or a key
stroke and the frames that are on their way, and nothing in `Editor` does: `Feed` writes an
event whatever the handler is about to write, `ReadSnapshot` may be torn, and `Type` is
possible at any time. What goes wrong then is noted in history fields that no guard reads,
and the properties are about them:

- `refused` (of a page and of its edits): an edit was refused, and its `room_state` has not
  been read;
- `torn`: the page's text is that of a `room_state` that is older than its sequence;
- `high`: the highest sequence the page has had; `TakenBack` says that a `room_state` has
  put an older one in its place;
- `gap`: the user was shown an event gap although the page had not been taken back;
- `made`: page, key and text of each accepted edit.

### PresenceStore and Presence

The registry is the hash of members, the sorted set of leases, the revision counter
and the notification stream; each Lua script is one operator. `Presence` has the
steps of `serveWS` that join, announce and leave, `noteActivity` and the heartbeat's
renewal, `watchPresence` with the retry of a notification, `broadcastPresenceSnapshot`,
`writePresence`, the sweeper, and `applyPresenceMessage` of the page. A lease is a number
of ticks that `Elapse` counts down. A script may fail before or after it ran. A peer
may leave, vanish without a packet, and stop taking what is written to it.
`SendPresence` goes through the copy of the room's clients in the order they were added
(`ticket`), so a peer that has stalled holds up those behind it.

### Heartbeat

One connection in discrete time. The goroutine of `startPresenceHeartbeat` takes a
tick (ping) or an activity (a time noted by the reader) from its channels, and
renews unless it did so within a heartbeat; the reader moves its deadline and puts
a time into a channel of capacity one. Steps that are due happen before the next
tick; `PongDelay`, `RedisDelay` and `SetUpTime` bound the rest. `HeartbeatInterval` and
`LeaseDuration` come from `withDefaults` in `presence_lease.go`. `RenewFails` is a
renewal that Redis answers with an error, which ends the connection; `failed` remembers it.

### RoomManager

Requests of one backend for several ids. `mutex` is `m.mu`, which `CreateRoom` holds
across its Redis command and `GetRoom` releases between looking up and installing. A
Room object is named by the request that allocated it; `watchers` and `presenceWatchers`
record which object the goroutine of an id was started with. `CreateElsewhere` is
another backend. `Silence` is a command that is never answered: its request stays where it
is for good, with `m.mu` if it is in `CreateRoom` ("stuck"), without it elsewhere
("waiting").

### LocalRoom

One room in local-memory mode. Each critical section of the room's or the manager's
mutex and each socket write is a step; version, sequence and text move together and are
one number. `task` says on whose behalf a handler broadcasts: it joined, left, or had an
edit accepted. `page` is what the peer's page shows: a `room_state` replaces it whatever it
is (`OnRoomState`), a `content_update` only if it is newer (`OnContentUpdate`), as in
`RoomPage.tsx`; `best` remembers the newest text it has shown. `operation_result` and the
`room_state` of a refusal are two steps (`Acknowledge`, `Resync`).

## 3. Runs

| Run | Instance | What it shows |
|---|---|---|
| `crash` | 2 backends, 1 crash, failing Redis commands and lost replies, a writer of 2 edits, a second connection, cursors 0 and 1 | order without gaps or duplicates across backends and after a restart, exact handoff, nothing missed on joining, snapshots only lag, no silent overwrite, the cached room never goes back; every step is one of `OrderedDelivery` or invisible |
| `stall` | 1 backend, pages of one entry, broken sockets, peers that stop reading, fair | the inductive invariant `IInv`; every step of a replay brings it nearer to the boundary fixed at its start, it gets there and finds its history; every live connection is told of the newest edit |
| `presence_silent` | 1 backend, 2 pages, a peer vanishes and stalls, 1 fault, fair; tickers and read deadlines fire, leases do not lapse | every change reaches every page that stays, whatever silent peers do |
| `presence_crash` | 2 backends, a crash, a peer that vanishes or stalls, leases that lapse, 1 fault, fair with time | a revision names one list; a removed member stays away; an ended connection leaves the list; one that works but is unlisted is closed |
| `heartbeat` | default heartbeat, lease configured shorter than one, delays at the limit, failing renewals | a peer that answers stays listed; no lease without the peer |
| `editor_typing` | 2 pages, 3 key strokes, 1 broken connection | edits are accepted in the order typed; an edit of another page is replaced unseen only by the two ways of section 4; no gap is shown to a page that was not taken back; no cursor beyond the log; a page that has read everything shows the newest document unless a `room_state` left it behind |
| `editor_settle` | 2 pages, 2 key strokes, 1 broken connection, failing Redis, fair | in the end every page shows the newest document, unless a `room_state` left it behind |
| `local` | 2 writers, refusals, lost and stalled sockets, fair | nobody is left without the newest text or list; no room leaks; every text arrives |
| `manager` | 3 requests, 2 ids, failing commands, commands never answered, fair | one Room for each id, and its watchers feed it; a request Redis leaves waiting holds up nobody else, `CreateRoom` excepted |
| `editor_between`, `editor_resume`, `local_forgotten` | | expected violations, section 4 |

Bounds of `Delivery`. With `MaxCommits = 2` (edits accepted) and cursors 0 and 1 a replay
has an entry to skip, one to write, or one to write and one to buffer: every case `Later`
and `VisitEntry` distinguish. Two commits do not make a stream that grows without end, on
which a replay that asked anew for its boundary would go on and on: `ReplayGetsCloser` is
about each step instead, and a single commit during a replay already tells the two apart.
`MaxEdits = 2` gives a stale edit, hence a refusal and a resync, on one connection.
`ReadCount` 2 and `PageSize` 1 or 2 stand for 100 and 1000: batches and pages both end in
the middle of the stream and at its end. Two connections suffice because a handler shares
with others only its room, its watcher and Redis: one writes, one joins or resumes, and
with two the broadcast order and head-of-line blocking exist. One crash gives a watcher
that starts in the middle of a stream. A connection is used once; a reconnect is another
connection that presents a cursor. `stall` has one backend, whose watcher starts on an
empty stream; connections of two backends are in `crash`, for safety only. Longer logs, a
flush of several events, more writers and the policy `accept` are covered by the proofs of
section 5, which have no bounds.

The other modules. `Editor`: two pages, because a page interferes with another only
through the document; three key strokes, of which one page may have two, give a refused
edit, one typed before its resync, and one typed before the echo of an accepted one, and
three commits a snapshot that two of them tear. `editor_settle` has two, with the
connection broken before or after an edit is read, acknowledged or fed; every frame, every
refusal and every way a page is left behind occurs in it. `Presence`: one connection is
joined, renewed, swept, left and crashed by two backends in any order, with a lease of two
ticks that is renewed in time or not; two pages are one that changes and one that must be
told. More connections, also of one page, are in the proofs. `Heartbeat` counts to
the second lease. `RoomManager`: of three requests two may race to hydrate an id that the
third, or another backend, created. `LocalRoom`: one connection broadcasts while the
other joins, leaves, edits or blocks; with two writers broadcasts overtake each other.

Symmetry is used only in runs without liveness properties, and only among backends or
pages that the constants do not tell apart. Deadlock checking is off because every run
has final states: connections are closed and the bound on edits is used up.

Fairness. `FairSpec` of `Delivery` has weak fairness of `Watch(b)`, `Serve(c)` and
`HeartbeatClose(c)`. Go's scheduler runs every goroutine that can run, `watchRoom` loops
for the life of the process, and the heartbeat's goroutine pings until it is stopped, with
a write deadline. It also assumes that Redis answers in the end: the client has a timeout
for dialling only, so a command Redis never answers blocks its goroutine. `manager` has
commands that are never answered; for the watchers, and for the handlers of `Delivery` and
`Presence`, it is an assumption. Nothing is assumed about connecting, editing, leaving,
crashes or faults.

`Editor` assumes the same of the browser (timers fire, frames are handled, a page
reconnects) and of the connection; users stop by the bound on key strokes. `TimedSpec` of
`Presence` lets goroutines run and time pass (leases count down, tickers fire, live peers
answer pings, silent ones are given up), which `presence_lease.go` gets from its tickers
and the read deadline. `LocalRoom` lets goroutines run and a read of a broken socket fail;
`TextArrives` excepts the case that a peer stops reading, because nothing in local mode
ends a write that blocks. `RoomManager` lets requests that have begun go on, with a mutex
that is handed to who waits for it. No run assumes strong fairness.

## 4. Findings

Three runs are expected to end in a violation; `PROJECT.json` quotes the sentence the
code disagrees with.

`editor_between`: `operation_result` moves `serverVersionRef` to the version of the
document that caused the refusal, but the text of that document only comes with the
`room_state` that follows. A key stroke handled between the two frames has the new
version and the old text, is accepted, and replaces an edit its author has not seen.

`editor_resume`: `GetSnapshot` reads text, version and sequence with three commands. A
commit after the first gives a fresh page the old text under the new sequence. The page
suppresses the event that would bring the text, and if its connection breaks it resumes
from that sequence: the replay leaves the event out, and `resume_complete` finds a page
whose version and sequence are the final ones and whose text is not.

`local_forgotten`: in local mode the last client that leaves counts the clients and
deletes the room in two steps; one that joins in between, with a Room it got from
`GetRoom` before, is in a room that nobody else can find.

### What the models show besides

These are hazards of the code that the passing runs leave out, by a constant or by an
exception a property names. Changing that constant, or leaving the exception out, shows
each of them.

- *Recurring ids* (`FreshIds = FALSE`). `CreateRoom` in `backend/redis_store.go` sets the
  counters to 0 without looking at `exists`, and does not delete the stream; ids are
  three random bytes (`backend/utils.go`), or the constant `fallback123` when the random
  source fails. In `DocStore` (`StoreSpec`) `LogIsTheDocument` is then violated: the next
  edit is appended with sequence 1 behind an entry that has it already, although
  `README.md:71` says that accepted updates receive monotonic numbers. In `RoomManager`
  `InTheRoomThatIsFed` is violated: `CreateRoom` in `manager.go` replaces the Room in the
  map, while the watchers are keyed by the id and feed the Room they were started with.
- *A torn `room_state`* (`torn` in `OverwriteHasCause`, `SettledIsNewest` and `Converges`).
  Until somebody edits, the page of `editor_resume` shows the old text; its own next edit
  replaces the one it has not seen. `Delivery` proves that a torn snapshot only lags
  (`SnapshotsOnlyLag`): it is the version it carries that makes this page trust it.
- *A late `room_state`* (`TakenBack` in `NoGapShown`, `SettledIsNewest` and `Converges`).
  The page does not compare it with what it has. If the watcher wrote a newer event while
  the handler held the snapshot (`ws.go:112-119`), the page goes back and stays there until
  somebody edits, since the connection's `lastSequence` is past the event it would need;
  the next event is then shown as a gap. Without the exception each of the three is
  violated.
- *The same in local mode* (`TakenBack` in `TextOnItsWay` and `TextArrives`). An edit is
  broadcast between the `GetSnapshot` of a client that joins, or the refusal of a client's
  edit, and the `room_state` that is written for it: the page goes back to the older text
  until the next edit.
- *A page's own edit.* The acknowledgement brings the version before the stream brings the
  text. If an event of another page changed the screen meanwhile, an edit typed between the
  two is not made from the document it replaces, which is the page's own edit;
  `Overwrites` counts the edits of other pages only.
- *A silent Redis under `m.mu`* ("stuck" in `CallsReturn`). `CreateRoom` holds `m.mu` across
  a command without a timeout: if Redis accepts the connection and does not answer, every
  request of the backend waits, those for cached rooms included.
- *A refused peer that does not read* (`HoldsUp` in `ChangesAreShown`). `serveWS` adds the
  client to the room before `JoinPresence`; when that fails, the error frame is written to
  a socket whose heartbeat has not started. If the peer does not read, nothing ends that
  write, nor those of the watchers, which have the client in their list.

## 5. Proofs

`DocStoreProofs` proves, for every policy and bound, that from fresh ids
`StoreSpec` implies `[]StoreTypeOK` (`StoreTypeCorrect`), `[]LogIsTheDocument`
(`StoreLogIsTheDocument`) and `[]NoSilentOverwrite` (`StoreNoSilentOverwrite`).
`NoSilentOverwrite` is inductive by itself, since the entry a commit appends has the
version after the one its base was compared with. `LogIsTheDocument` is not: creating a
room resets the counters, and keeps the log equal to the document only because a room
that does not exist has an empty stream. `StoreInv` adds that.
The assumption on ids is in the theorems, as `ASSUME FreshIds`, and not in the
module, which can be checked without it. The lemmas `CreateRoomInv` and
`ApplyOperationInv` are about the scripts and are reused wherever another module
takes those steps.

`DeliveryProofs` proves of `Delivery`, for any set of backends, any finite set of
connections, any batch and page sizes, cursors, bounds, policy and faults:

| Theorem | States |
|---|---|
| `DeliveryInvariant` | `Spec => []IInv` |
| `DeliveryTypeCorrect` | `Spec => []TypeOK` |
| `DeliveryInOrder` | `Spec => []InOrderNoGaps` |
| `HandoffCorrect` | `Spec => []HandoffAtBoundary` |
| `JoinCorrect` | `Spec => []NothingMissedOnJoin` |
| `SnapshotsLag` | `Spec => []SnapshotsOnlyLag` |
| `RoomSequenceCorrect` | `Spec => RoomNeverRegresses` |
| `ReplayCorrect` | `Spec => ReplayFindsNoGap` |
| `ReplayIsFinite` | `Spec => ReplayGetsCloser`: a replay makes a bounded number of steps, however the stream grows |
| `DeliveryImplementsStore` | `Spec => StoreSpec`: what `DocStoreProofs` shows of the store holds in the composed system |

Assumptions, all in `DeliveryAssumption`: fresh room ids (section 4 is what happens
without), batches and pages of at least one entry, natural numbers where Go has
non-negative integers, a finite set of connections (a ticket is one more than the
number handed out), and that no backend has the name that stands for
"not connected".

The argument. The properties of connections are not inductive: `InOrderNoGaps` speaks of what
was written, and whether the next write keeps it depends on the watcher, the
cached room, the `Client` struct and the handler's locals agreeing. `IInv` says how
they agree. Its key is `Reached(b, c)`, the last event b's watcher will not hand to
c any more: its cursor (one less while it still has to send that event to c), and
never below `initialSequence`.

- While c replays, `pending` holds every event from the boundary up to `Reached`, and
  nothing beyond it. So the next event `finishReplay` writes from the buffer is always the
  one after `lastSequence`, and the last one is where the watcher will go on. This holds
  at each step of the flush, hence also for a socket that breaks in the middle of it.
- Once c is live and has had an update, `lastSequence` is the last update on the wire
  and at least `Reached`; the watcher's next event is at most one ahead of it, so the
  test `sequence <= lastSequence` drops exactly the duplicates.
- Before a fresh c has its first update, its `room_state` is at least `Reached`. That
  needs `WatcherOK`: what the watcher has passed is in the cached room, and
  `applySnapshot` never goes below the cached sequence.
- `SnapshotOK` records what the GETs of `GetSnapshot` have read in the middle: the
  order content, version, sequence is what makes a torn snapshot lag only.

The last part of `DeliverySteps` has a lemma for each action. An action changes one
connection or one backend; `Bystander` shows once that the others keep
their part of the invariant when the store only grows and their watcher hands
them nothing. `NextInv` assembles the lemmas. TLC checks the same `IInv` (`stall`).

`DeliveryProofs` also proves `Spec => KeepsPromise` (`DeliveryKeepsPromise`) from
`IInv`. Only four kinds of step are visible: `Evaluate` and a failing one whose script ran
(`Accept`), `Join` with a cursor (`Connect`), and the three places where events are
written, `VisitEntry`, `FlushNext` and `Send` (`Deliver`). For each of the three,
`IInv` says which event is written: in the replay loop the entry after the last
one written, in the flush the number after `lastSequence`, in the broadcast the
watcher's cursor, which is at most one beyond the client's `lastSequence`.

`PresenceProofs` proves of `Presence`, for any backends, connections, pages, leases and
faults:

| Theorem | States |
|---|---|
| `IInvHolds` | `Spec => []IInv` |
| `PresenceTypeCorrect` | `Spec => []PresenceTypeOK` |
| `RevisionIsTheList` | `Spec => []RevisionNamesMembers` |
| `RemovedForGood` | `Spec => []NoResurrection` |

The invariant adds to the properties what the scripts keep among themselves
(`StoreInv`: history, revision and notifications move together), that a connection that
has not joined was never a member (`Unjoined`), without which its join could be a
second one, and that it is in no list of a backend (`Unused`). A snapshot that was
truthful when it was taken stays so because scripts only append to the history
(`Kept`), which is proved once, in `PublishKeeps`, for every script.

`HeartbeatProofs` proves of `Heartbeat`, for every configured duration and delay:
`ClocksAgree` (`Spec => []ClockInv`), `HeartbeatTypeCorrect`, `OnlyThePeerRenews`
(`[]LeaseFollowsPeer`) and `ThreeBeatsAreEnough` (`[]HealthyStayListed`). The last is the
argument behind the three heartbeats of `withDefaults`: as long as the peer answers,
there is always a pong noted, in the socket, on its way, or due from the next tick,
early enough for the renewal (`PongForLease`) and for the read deadline
(`PongForDeadline`). It needs `Prompt`: a pong and two commands fit into a heartbeat,
and setting up takes less than three. It ends with the first renewal Redis refuses.

`RoomManagerProofs` proves of `RoomManager`, for any requests and ids:
`ManagerTypeCorrect` (`[]ManagerTypeOK`, with the mutex, whether or not ids recur), and,
as long as they do not, `ManagerInvariant`, `ClientsAreFed` (`[]InTheRoomThatIsFed`) and
`WatchedIsListed` (`[]WatchedRoomIsListed`). `CallInv` says what a request in progress knows
of the maps; the two delicate steps are `Publish`, which finds the map empty because
the id was issued to this request alone and nobody can install while it holds `m.mu`,
and `Install`, which looks again.

`EditorProofs` proves of `Editor`, for any pages, key strokes, broken connections and
failures of Redis, in any order of frames, and without any assumption about races:

| Theorem | States |
|---|---|
| `EditorInvariant` | `Spec => []EInv` |
| `EditorTypeCorrect` | `Spec => []EditorTypeOK` |
| `CursorsAreInLog` | `Spec => []CursorInLog` |
| `EditsAreAcceptedInOrder` | `Spec => []AcceptedInOrder` |
| `OverwritesHaveCauses` | `Spec => []OverwriteHasCause` |
| `NoGapIsShown` | `Spec => []NoGapShown` |
| `SettledPagesAreNewest` | `Spec => []SettledIsNewest` |

The last three say what can go wrong with a page and that nothing else can: not the
debounce, an acknowledgement, a replay, a lost connection, an edit read late or an event
that comes twice. They are the list of what a change of the code would have to close.

The invariant is about one page at a time: its refs (p), the edits on their way to Redis,
from this connection (o) and from those that broke (l), the frames on their way back
(q) and its connection (k), against the history of accepted edits (m), which is as long as
the log. `GrowsKeepsPage` shows that all of it survives an edit of another page, so each
action is proved for its own page only (`StepInv`, `LocalStepInv`).

- `WithinLog`: every number in a ref, a frame or a local is one of the log.
- `NoGaps`: before an event is read, the page has had the event before it, or has it from a
  frame in front (`HasBefore`). That is said of `high`, which a late `room_state` does not
  lower, so such a frame may stand anywhere; and of the watcher's position, which makes the
  next `Feed` keep it.
- `FrameTrue`: an event shows the text of its sequence, a `room_state` one that may be older,
  an accepted acknowledgement names an edit of this page. `resume_complete` sets cursor and
  version without a text, and is right only because the frames before it, from the head of
  the queue, are exactly the events after the page's cursor; so after a lost connection
  the rest of a replay is not handled without its beginning.
- `PageTrue`: a page shows the text of its cursor or is `torn`; a version it holds is one
  its text has seen, or it is `refused` or `torn`, or the version is that of its own edit.
- `EditTrue`, `KeysBelow`: the version of an edit in flight is history, or the edit is newer
  than all accepted edits of its page. So the first that is accepted makes the others of
  the same base stale, whichever connection they are on, and none is accepted twice.
- `HistoryOK`: what `EditTrue` becomes when the script accepts an edit, which it does only
  if its base is the version (`StoreInv`).

`LocalRoomProofs` proves of `LocalRoom`, for any connections, policy, number of edits and
faults:

| Theorem | States |
|---|---|
| `LocalInvariant` | `Spec => []LInv` |
| `LocalTypeCorrect` | `Spec => []LocalTypeOK` |
| `TextIsOnItsWay` | `Spec => []TextOnItsWay`, with pages that a late `room_state` takes back |
| `PresenceIsOnItsWay` | `Spec => []PresenceOnItsWay` |
| `RoomsAreForgotten` | `Spec => []NoRoomLeaks` |

`TextOnItsWay` and `PresenceOnItsWay` say that whoever is not up to date has a witness: a
goroutine that has yet to write to them. A step keeps them
if a goroutine that stops being a witness for somebody has just written to them, or has
handed over to another witness, and if an edit or a change of the list, which makes
everybody out of date, is itself a witness for everybody. `Truthful` is why a presence list that
`writePresence` drops is not missed: of two lists with one revision both name the clients
of this moment, because the revision moves with the list under the room's lock.
`ClientsOK` says that a connection is in `clients`, once, exactly between `AddClient` and
`RemoveClient` (`RemoveClient` removes the first it finds), so nobody needs to be told who
is not in the copy a broadcast makes. `QuietInv` does this for all steps that leave
document and clients alone. `RoomOK` is the part about leaving: while there is a peer and
the room is listed, somebody has yet to count; `DeleteRoom` need not be by the last one.

Model-checked only: the liveness properties `EveryEditArrives`, `ResumeTerminates`,
`Converges`, `ChangesAreShown`, `EndedLeave`, `UnlistedAreClosed`, `TextArrives` and
`CallsReturn`, since the prover has neither fairness nor ENABLED. Every invariant and
every action property of a passing run is a theorem. Induction over data and recursive
operators are outside the prover's reach as well; none is used in these modules.

## 6. Not modelled, and why

- In `Delivery`: the typing frame (relayed, changes nothing), presence frames (in
  `Presence`), and the error frames written before a close: none writes document state.
- In `Editor`: a change of room without an unmount (the application has no link that
  does it, and the refs would carry the old cursor over: a hazard of `PROJECT.json`),
  the typing indicator, and the backoff of the reconnect timer.
- In `Delivery` and `Presence`: a command of a watcher, of a handler or of a heartbeat that
  Redis never answers, which would end delivery to the room on that backend.
- Many rooms in one sweep (`SCAN`), and the order in which members are listed.
- RESP decoding, JSON, configuration parsing, telemetry, traces, pages and
  infrastructure: no state that behaviour depends on. `correctness-tests/` is a
  harness; its invariants are properties here.

## 7. Plan

1. An abstract specification of presence (a list with a revision, and screens that are
   shown later and later states of it) and the proof that `Presence` implements it, as
   `OrderedDelivery` is for `Delivery`.
2. That `Editor`'s connection writes what `OrderedDelivery` allows: its replay and its
   watcher are that specification with one step per replay.
3. Several rooms over one Redis: the presence sweep by `SCAN`, and a watcher for each.
