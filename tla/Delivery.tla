------------------------------ MODULE Delivery ------------------------------
(***************************************************************************)
(* Delivery of one room's content to WebSocket connections in Redis mode:  *)
(* the room object a backend caches (backend/room.go), the goroutine that  *)
(* follows the room's stream (watchRoom in backend/manager.go), and the    *)
(* goroutine that serves each connection (serveWS, resumeClient and        *)
(* handleContentUpdate in backend/ws.go) with its replay-to-live handoff   *)
(* (backend/client.go).                                                    *)
(*                                                                         *)
(* Every Redis command, every critical section of a mutex and every write  *)
(* to a socket is a step of its own.  A stream ID is the position of the   *)
(* entry.  A connection is used once: a client that reconnects takes a new *)
(* one, with the cursor it presents as lastSequence.                       *)
(***************************************************************************)
EXTENDS DocStore, FiniteSets

CONSTANTS
  Backends,     \* backend processes
  Conns,        \* connections
  ReadCount,    \* XREAD COUNT of the watcher (100 in the code)
  PageSize,     \* XRANGE COUNT of a replay page (1000 in the code)
  Writers,      \* the connections whose peer sends edits
  Cursors,      \* the lastSequence values connections present
  MaxEdits,     \* bound: edit frames read from one connection
  MaxCrashes,   \* bound: backend crashes
  Faults        \* the faults of the run

ASSUME DeliveryAssumption ==
  /\ FreshIds /\ "none" \notin Backends /\ IsFiniteSet(Conns)
  /\ ReadCount \in Nat \ {0} /\ PageSize \in Nat \ {0}
  /\ Cursors \subseteq Nat /\ Writers \subseteq Conns
  /\ MaxEdits \in Nat /\ MaxCrashes \in Nat
  /\ Faults \subseteq {"redis", "reset", "stall"}

VARIABLES
  room,         \* per backend: the cached Room and its Clients
  watcher,      \* per backend: the watchRoom goroutine
  client,       \* per connection: the Client struct and its socket
  handler,      \* per connection: the serveWS goroutine
  wire,         \* per connection: what was written to the socket
  crashes       \* backend crashes so far

vars == <<exists, doc, stream, room, watcher, client, handler, wire, crashes>>

NoRoom    == [cached |-> FALSE, snap |-> EmptyDoc, clients |-> {}]
NoWatcher == [pc |-> "off", initial |-> 0, cursor |-> 0, batchEnd |-> 0,
              left |-> {}]
NoClient  == [sock |-> "none", replaying |-> FALSE, lastSequence |-> 0,
              pending |-> {}, ticket |-> 0]
NoHandler == [pc |-> "new", home |-> "none", cursor |-> 0, task |-> "none",
              gets |-> 0, snap |-> EmptyDoc, accepted |-> FALSE, boundary |-> 0,
              at |-> 0, pageEnd |-> 0, expected |-> 0, edits |-> 0]
NoWire    == [updates |-> <<>>, handoff |-> -1, states |-> <<>>]

Init ==
  /\ StoreInit
  /\ room    = [b \in Backends |-> NoRoom]
  /\ watcher = [b \in Backends |-> NoWatcher]
  /\ client  = [c \in Conns |-> NoClient]
  /\ handler = [c \in Conns |-> NoHandler]
  /\ wire    = [c \in Conns |-> NoWire]
  /\ crashes = 0

Home(c) == handler[c].home
Goto(c, pc) == handler' = [handler EXCEPT ![c].pc = pc]

(* A call made by serveWS returns: its locals go out of scope.             *)
Return(c, pc) ==
  handler' = [handler EXCEPT ![c] =
    [@ EXCEPT !.pc = pc, !.task = "none", !.gets = 0,
              !.snap = EmptyDoc, !.accepted = FALSE, !.at = 0, !.pageEnd = 0, !.expected = 0]]

-----------------------------------------------------------------------------
\* The cached room (room.go) and the room manager (manager.go)

\* Faulty: an older snapshot replaces a newer room.
RefreshedAlways(r, snap) == [r EXCEPT !.snap = snap]

(* applySnapshot: only an older sequence is refused, an equal one          *)
(* overwrites.                                                             *)
Refreshed(r, snap) ==
  IF snap.sequence < r.snap.sequence THEN r ELSE [r EXCEPT !.snap = snap]

\* Faulty: the startup boundary is one too high.
WatcherPastNext(b, sequence) ==
  IF watcher[b].pc # "off" THEN watcher
  ELSE [watcher EXCEPT ![b] = [NoWatcher EXCEPT !.pc = "read",
                                                !.initial = sequence + 1]]

(* ensureWatcher: at most one watcher per room and process; it will skip   *)
(* what the room held when it started.                                     *)
EnsuredWatcher(b, sequence) ==
  IF watcher[b].pc # "off" THEN watcher
  ELSE [watcher EXCEPT ![b] = [NoWatcher EXCEPT !.pc = "read",
                                                !.initial = sequence]]

(* POST /rooms.  Rooms[id] of the other backends stays empty until a       *)
(* connection asks for the room.                                           *)
CreateRoom(b) ==
  /\ CreateRoomScript
  /\ room' = [room EXCEPT ![b] = [NoRoom EXCEPT !.cached = TRUE]]
  /\ watcher' = EnsuredWatcher(b, 0)
  /\ UNCHANGED <<client, handler, wire, crashes>>

(* serveWS up to GetRoom: a cached room is used as it is, otherwise the    *)
(* room is hydrated from Redis.  k is the lastSequence of the URL.         *)
Connect(c, b, k) ==
  /\ exists
  /\ handler[c].pc = "new"
  /\ handler' = [handler EXCEPT ![c] =
       [NoHandler EXCEPT !.home = b, !.cursor = k,
          !.task = IF room[b].cached THEN "none" ELSE "hydrate",
          !.pc   = IF room[b].cached THEN "register" ELSE "get"]]
  /\ UNCHANGED <<exists, doc, stream, room, watcher, client, wire, crashes>>

(* The second half of GetRoom: the first handler to take the lock installs *)
(* its snapshot; a watcher exists before any client can be added.          *)
HydrateRoom(c) ==
  LET b == Home(c)
      r == IF room[b].cached THEN room[b]
           ELSE [NoRoom EXCEPT !.cached = TRUE, !.snap = handler[c].snap]
  IN  /\ handler[c].pc = "applySnapshot" /\ handler[c].task = "hydrate"
      /\ room' = [room EXCEPT ![b] = r]
      /\ watcher' = EnsuredWatcher(b, r.snap.sequence)
      /\ Return(c, "register")
      /\ UNCHANGED <<exists, doc, stream, client, wire, crashes>>

-----------------------------------------------------------------------------
\* GetSnapshot (redis_store.go): three GETs that other scripts can come
\* between, for GetRoom ("hydrate"), for the room_state of a fresh
\* connection ("state") and at the start of handleContentUpdate ("edit")

\* Faulty: the sequence is read first.
GETsReversed == <<"sequence", "version", "content">>

GETs == <<"content", "version", "sequence">>

GetNext(c) ==
  LET i == handler[c].gets + 1
  IN  /\ handler[c].pc = "get"
      /\ handler' = [handler EXCEPT ![c] =
           [@ EXCEPT !.snap[GETs[i]] = doc[GETs[i]], !.gets = i,
                     !.pc = IF i = Len(GETs) THEN "applySnapshot" ELSE "get"]]
      /\ UNCHANGED <<exists, doc, stream, room, watcher, client, wire, crashes>>

(* Room.GetSnapshot returns: the room_state of a fresh connection follows, *)
(* or the edit; one without operationId or baseVersion ends there.         *)
AfterSnapshot(c, snap) ==
  IF handler[c].task = "state"
  THEN handler' = [handler EXCEPT ![c] =
                     [@ EXCEPT !.snap = snap, !.pc = "writeState"]]
  ELSE Return(c, "eval") \/ Return(c, "live")

(* Room.GetSnapshot refreshes the cached room and returns what it holds.   *)
ApplySnapshot(c) ==
  LET b == Home(c)
      r == Refreshed(room[b], handler[c].snap)
  IN  /\ handler[c].pc = "applySnapshot" /\ handler[c].task # "hydrate"
      /\ room' = [room EXCEPT ![b] = r]
      /\ AfterSnapshot(c, r.snap)
      /\ UNCHANGED <<exists, doc, stream, watcher, client, wire, crashes>>

(* A GET fails: GetRoom reports the room as not found, Room.GetSnapshot    *)
(* falls back to the cached room.                                          *)
SnapshotFails(c) ==
  /\ "redis" \in Faults
  /\ handler[c].pc = "get"
  /\ IF handler[c].task = "hydrate"
     THEN Return(c, "closed")
     ELSE AfterSnapshot(c, room[Home(c)].snap)
  /\ UNCHANGED <<exists, doc, stream, room, watcher, client, wire, crashes>>

-----------------------------------------------------------------------------
\* Registration, and the replay of a resumed connection

(* beginReplay and AddClient: a resumed connection starts out buffering.   *)
Register(c) ==
  LET b == Home(c)
      k == handler[c].cursor
      tickets == {d \in Conns : client[d].ticket > 0}
  IN  /\ handler[c].pc = "register"
      /\ client' = [client EXCEPT ![c] =
           [sock |-> "open", replaying |-> k > 0, lastSequence |-> k,
            pending |-> {}, ticket |-> Cardinality(tickets) + 1]]
      /\ room' = [room EXCEPT ![b].clients = @ \cup {c}]
      /\ Goto(c, "join")
      /\ UNCHANGED <<exists, doc, stream, watcher, wire, crashes>>

(* JoinPresence succeeds: the heartbeat runs from here on.                 *)
Join(c) ==
  /\ handler[c].pc = "join"
  /\ handler' = [handler EXCEPT ![c] =
       [@ EXCEPT !.task = "state",
                 !.pc = IF handler[c].cursor > 0 THEN "boundary" ELSE "get"]]
  /\ UNCHANGED <<exists, doc, stream, room, watcher, client, wire, crashes>>

(* ReplayBoundary: the last entry at this moment.  A cursor beyond it is   *)
(* an error.                                                               *)
ReadBoundary(c) ==
  LET k == handler[c].cursor
  IN  /\ handler[c].pc = "boundary"
      /\ handler' = [handler EXCEPT ![c] =
           [@ EXCEPT !.boundary = LastStreamID, !.expected = k + 1,
                     !.pc = IF k > SequenceAt(LastStreamID) THEN "closing"
                            ELSE "started"]]
      /\ UNCHANGED <<exists, doc, stream, room, watcher, client, wire, crashes>>

(* resume_started is written.                                              *)
WriteStarted(c) ==
  /\ handler[c].pc = "started"
  /\ client[c].sock = "open"
  /\ Goto(c, "page")
  /\ UNCHANGED <<exists, doc, stream, room, watcher, client, wire, crashes>>

\* Faulty: pages start at the last entry of the page before.
ReadPageInclusive(c) ==
  LET h == handler[c]
      at == IF h.at > 0 THEN h.at - 1 ELSE 0
      end == IF at + PageSize < h.boundary THEN at + PageSize ELSE h.boundary
  IN  /\ h.pc = "page"
      /\ handler' = [handler EXCEPT ![c].pageEnd = end, ![c].at = at,
           ![c].pc = IF h.expected > SequenceAt(h.boundary) THEN "finish"
                       ELSE IF at = end THEN "closing" ELSE "visit"]
      /\ UNCHANGED <<exists, doc, stream, room, watcher, client, wire, crashes>>

\* Faulty: the loop runs once more after the last expected entry.
ReadPagePastBoundary(c) ==
  LET h == handler[c]
      end == IF h.at + PageSize < h.boundary THEN h.at + PageSize ELSE h.boundary
  IN  /\ h.pc = "page"
      /\ handler' = [handler EXCEPT ![c].pageEnd = end,
           ![c].pc = IF h.expected > SequenceAt(h.boundary) + 1 THEN "finish"
                       ELSE IF h.at = end THEN "closing" ELSE "visit"]
      /\ UNCHANGED <<exists, doc, stream, room, watcher, client, wire, crashes>>

\* Faulty: every page asks anew where the stream ends.
ReadPageChasing(c) ==
  LET h == handler[c]
      end == IF h.at + PageSize < LastStreamID THEN h.at + PageSize ELSE LastStreamID
  IN  /\ h.pc = "page"
      /\ handler' = [handler EXCEPT ![c] =
           [@ EXCEPT !.pageEnd = end, !.boundary = LastStreamID,
                     !.pc = IF h.expected > SequenceAt(LastStreamID) THEN "finish"
                              ELSE IF h.at = end THEN "closing" ELSE "visit"]]
      /\ UNCHANGED <<exists, doc, stream, room, watcher, client, wire, crashes>>

(* One turn of the loop of EventsAfterSequence: the next page of entries   *)
(* up to the boundary's stream ID; an empty page is a gap.                 *)
ReadPage(c) ==
  LET h == handler[c]
      end == IF h.at + PageSize < h.boundary THEN h.at + PageSize ELSE h.boundary
  IN  /\ h.pc = "page"
      /\ handler' = [handler EXCEPT ![c] =
           [@ EXCEPT !.pageEnd = end,
                     !.pc = IF h.expected > SequenceAt(h.boundary) THEN "finish"
                              ELSE IF h.at = end THEN "closing" ELSE "visit"]]
      /\ UNCHANGED <<exists, doc, stream, room, watcher, client, wire, crashes>>

Written(w, sequences) == [w EXCEPT !.updates = @ \o sequences]

(* The next entry of the page: at or before the cursor it is skipped, the  *)
(* expected one is written, any other is a gap.                            *)
VisitEntry(c) ==
  LET h  == handler[c]
      id == h.at + 1
      s  == SequenceAt(id)
      pc == IF id = h.pageEnd THEN "page" ELSE "visit"
      skip == s <= h.cursor
      gap  == ~skip /\ (s # h.expected \/ s > SequenceAt(h.boundary))
  IN  /\ h.pc = "visit"
      /\ skip \/ gap \/ client[c].sock = "open"
      /\ IF gap THEN Return(c, "closing")
         ELSE handler' = [handler EXCEPT ![c] =
                [@ EXCEPT !.at = id, !.pc = pc,
                          !.expected = IF skip THEN h.expected ELSE s + 1]]
      /\ wire' = IF skip \/ gap THEN wire
                 ELSE [wire EXCEPT ![c] = Written(@, <<s>>)]
      /\ UNCHANGED <<exists, doc, stream, room, watcher, client, crashes>>

\* Faulty: the overlap of replay and buffer is not removed.
LaterAll(c, last) == client[c].pending

(* The buffered events after the one that was sent last.                   *)
Later(c, last) == {s \in client[c].pending : s > last}

(* finishReplay has sent all up to last: the next buffered event follows,  *)
(* or the connection is live.                                              *)
HandedOver(c, last) ==
  IF Later(c, last) = {}
  THEN /\ client' = [client EXCEPT ![c] =
            [@ EXCEPT !.lastSequence = last, !.replaying = FALSE, !.pending = {}]]
       /\ Return(c, "live")
  ELSE /\ client' = [client EXCEPT ![c].lastSequence = last]
       /\ Goto(c, "flush")

(* finishReplay takes deliveryMu and writes resume_complete.               *)
FinishReplay(c) ==
  /\ handler[c].pc = "finish"
  /\ client[c].sock = "open"
  /\ wire' = [wire EXCEPT ![c].handoff = Len(wire[c].updates)]
  /\ HandedOver(c, SequenceAt(handler[c].boundary))
  /\ UNCHANGED <<exists, doc, stream, room, watcher, crashes>>

(* It writes the next of the buffered events, in order; deliveryMu is held *)
(* until the last one.                                                     *)
FlushNext(c) ==
  LET later == Later(c, client[c].lastSequence)
  IN  /\ handler[c].pc = "flush"
      /\ client[c].sock = "open"
      /\ \E s \in later :
           /\ \A t \in later : s <= t
           /\ wire' = [wire EXCEPT ![c] = Written(@, <<s>>)]
           /\ HandedOver(c, s)
      /\ UNCHANGED <<exists, doc, stream, room, watcher, crashes>>


-----------------------------------------------------------------------------
\* A fresh connection, and the edits of a live one

RoomState(c, snap) ==
  [wire EXCEPT ![c].states =
     Append(@, [snap |-> snap, after |-> Len(wire[c].updates)])]

(* The room_state of a fresh connection.                                   *)
WriteState(c) ==
  /\ handler[c].pc = "writeState"
  /\ client[c].sock = "open"
  /\ wire' = RoomState(c, handler[c].snap)
  /\ Return(c, "live")
  /\ UNCHANGED <<exists, doc, stream, room, watcher, client, crashes>>

(* The read loop takes a content_update frame; handleContentUpdate first   *)
(* refreshes the cached room.                                              *)
ReceiveEdit(c) ==
  /\ handler[c].pc = "live"
  /\ client[c].sock = "open"
  /\ c \in Writers /\ handler[c].edits < MaxEdits
  /\ handler' = [handler EXCEPT ![c] =
       [@ EXCEPT !.task = "edit", !.pc = "get",
                 !.edits = handler[c].edits + 1]]
  /\ UNCHANGED <<exists, doc, stream, room, watcher, client, wire, crashes>>

(* Room.ApplyOperation, in Redis: the reply comes back, or is lost after   *)
(* the script has run and the edit is answered with storage_error.         *)
Evaluate(c) ==
  /\ handler[c].pc = "eval"
  /\ \E base \in Bases :
       LET reply == ApplyReply(base)
       IN  /\ ApplyOperationScript(base)
           /\ \/ handler' = [handler EXCEPT ![c] =
                   [@ EXCEPT !.snap = reply.snap, !.accepted = reply.accepted,
                             !.pc = "applyReply"]]
              \/ "redis" \in Faults /\ Return(c, "live")
  /\ UNCHANGED <<room, watcher, client, wire, crashes>>

(* The script did not run: storage_error.                                  *)
EvaluateFails(c) ==
  /\ "redis" \in Faults
  /\ handler[c].pc = "eval"
  /\ Return(c, "live")
  /\ UNCHANGED <<exists, doc, stream, room, watcher, client, wire, crashes>>

(* Room.ApplyOperation, in the process.                                    *)
ApplyReplyToRoom(c) ==
  /\ handler[c].pc = "applyReply"
  /\ room' = [room EXCEPT ![Home(c)] = Refreshed(@, handler[c].snap)]
  /\ Goto(c, "acknowledge")
  /\ UNCHANGED <<exists, doc, stream, watcher, client, wire, crashes>>

(* operation_result, and after a refusal the room_state that resyncs the   *)
(* sender; errors of these writes are ignored.                             *)
Acknowledge(c) ==
  /\ handler[c].pc = "acknowledge"
  /\ client[c].sock # "stalled"
  /\ wire' = IF client[c].sock = "open" /\ ~handler[c].accepted
             THEN RoomState(c, handler[c].snap) ELSE wire
  /\ Return(c, "live")
  /\ UNCHANGED <<exists, doc, stream, room, watcher, client, crashes>>

-----------------------------------------------------------------------------
\* The end of a connection

(* serveWS returns early: a Redis command fails, or a read from or a write *)
(* to a socket that is gone.                                               *)
Abort(c) ==
  /\ \/ /\ "redis" \in Faults
        /\ handler[c].pc \in {"join", "boundary", "page"}
     \/ /\ client[c].sock = "broken"
        /\ handler[c].pc \in {"started", "visit", "finish", "flush", "writeState",
                             "live"}
  /\ Return(c, "closing")
  /\ UNCHANGED <<exists, doc, stream, room, watcher, client, wire, crashes>>

(* The read loop ends: the peer left, or no pong arrived within the lease. *)
Disconnect(c) ==
  /\ handler[c].pc = "live"
  /\ Return(c, "closing")
  /\ UNCHANGED <<exists, doc, stream, room, watcher, client, wire, crashes>>

(* The deferred cleanup: the heartbeat stops and RemoveClient takes the    *)
(* client out of the room; the socket is closed last.                      *)
RemoveClient(c) ==
  /\ handler[c].pc = "closing"
  /\ room' = [room EXCEPT ![Home(c)].clients = @ \ {c}]
  /\ Goto(c, "removed")
  /\ UNCHANGED <<exists, doc, stream, watcher, client, wire, crashes>>

CloseConn(c) ==
  /\ handler[c].pc = "removed"
  /\ client' = [client EXCEPT ![c].sock = "broken"]
  /\ Goto(c, "closed")
  /\ UNCHANGED <<exists, doc, stream, room, watcher, wire, crashes>>

(* The network drops the connection: every later write fails.              *)
Reset(c) ==
  /\ "reset" \in Faults
  /\ client[c].sock = "open"
  /\ client' = [client EXCEPT ![c].sock = "broken"]
  /\ UNCHANGED <<exists, doc, stream, room, watcher, handler, wire, crashes>>

(* The peer stops reading for good: writes block, without a deadline.      *)
Stall(c) ==
  /\ "stall" \in Faults
  /\ client[c].sock = "open"
  /\ client' = [client EXCEPT ![c].sock = "stalled"]
  /\ UNCHANGED <<exists, doc, stream, room, watcher, handler, wire, crashes>>

Ending == {"closing", "removed", "closed"}

\* Faulty: a ping that cannot be written is ignored.
HeartbeatIgnored(c) == FALSE /\ UNCHANGED vars

(* A ping the heartbeat cannot write within its deadline closes the        *)
(* socket; blocked writes then fail.                                       *)
HeartbeatClose(c) ==
  /\ client[c].sock = "stalled"
  /\ handler[c].pc \notin Ending \cup {"join"}
  /\ client' = [client EXCEPT ![c].sock = "broken"]
  /\ UNCHANGED <<exists, doc, stream, room, watcher, handler, wire, crashes>>

-----------------------------------------------------------------------------
\* watchRoom

Follow(b, w) == watcher' = [watcher EXCEPT ![b] = w]

\* Where the loop over a batch goes after the event it is at.
NextEvent(w) == IF w.cursor = w.batchEnd THEN "read" ELSE "apply"

(* XREAD after the cursor returns a batch; a timeout or an error of XREAD  *)
(* leaves the cursor where it is.                                          *)
ReadBatch(b) ==
  LET w == watcher[b]
      end == IF w.cursor + ReadCount < LastStreamID
             THEN w.cursor + ReadCount ELSE LastStreamID
  IN  /\ w.pc = "read"
      /\ w.cursor < LastStreamID
      /\ Follow(b, [w EXCEPT !.batchEnd = end, !.pc = "apply"])
      /\ UNCHANGED <<exists, doc, stream, room, client, handler, wire, crashes>>

\* Faulty: what a snapshot or a reply put in the room is not broadcast.
HydratedByNow(b, e) == e.sequence <= room[b].snap.sequence

(* The events to skip: those the room held when the watcher started.       *)
Hydrated(b, e) == e.sequence <= watcher[b].initial

(* The cursor moves to the next event; unless the room was hydrated with   *)
(* it, ApplyDistributedEvent applies it if it is new to the room.          *)
ApplyEvent(b) ==
  LET w == watcher[b]
      id == w.cursor + 1
      e == stream[id]
      skip == Hydrated(b, e)
      next == [w EXCEPT !.cursor = id]
  IN  /\ w.pc = "apply"
      /\ Follow(b, [next EXCEPT !.pc = IF skip THEN NextEvent(next) ELSE "broadcast"])
      /\ room' = IF skip \/ e.sequence <= room[b].snap.sequence THEN room
                 ELSE [room EXCEPT ![b].snap = [content  |-> e.content,
                                                version  |-> e.version,
                                                sequence |-> e.sequence]]
      /\ UNCHANGED <<exists, doc, stream, client, handler, wire, crashes>>

(* BroadcastJSON starts with a copy of the room's clients.                 *)
SnapshotClients(b) ==
  LET w == watcher[b]
      left == room[b].clients
  IN  /\ w.pc = "broadcast"
      /\ Follow(b, [w EXCEPT !.left = left,
                       !.pc = IF left = {} THEN NextEvent(w) ELSE "send"])
      /\ UNCHANGED <<exists, doc, stream, room, client, handler, wire, crashes>>

\* Faulty: live events are written during replay.
UpdateUnbuffered(c, sequence) ==
  LET fresh == sequence > client[c].lastSequence /\ client[c].sock = "open"
  IN  /\ client' = IF fresh THEN [client EXCEPT ![c].lastSequence = sequence]
                   ELSE client
      /\ wire' = IF fresh THEN [wire EXCEPT ![c] = Written(@, <<sequence>>)]
                 ELSE wire

(* writeContentUpdate: an event at or before lastSequence is dropped; it   *)
(* is buffered during replay, otherwise written.                           *)
Update(c, sequence) ==
  LET k == client[c]
      fresh == sequence > k.lastSequence
  IN  /\ client' = CASE fresh /\ k.replaying ->
                          [client EXCEPT ![c].pending = @ \cup {sequence}]
                     [] fresh /\ ~k.replaying /\ k.sock = "open" ->
                          [client EXCEPT ![c].lastSequence = sequence]
                     [] OTHER -> client
      /\ wire' = IF fresh /\ ~k.replaying /\ k.sock = "open"
                 THEN [wire EXCEPT ![c] = Written(@, <<sequence>>)] ELSE wire

(* A write to a stalled socket blocks, and finishReplay holds deliveryMu    *)
(* from resume_complete to its last event.                                 *)
Blocked(c) ==
  \/ client[c].sock = "stalled" /\ (~client[c].replaying \/ handler[c].pc = "finish")
  \/ handler[c].pc = "flush"

(* One client of the copy gets the event, in the order they were added.    *)
Send(b, c) ==
  LET w == watcher[b]
      left == w.left \ {c}
  IN  /\ w.pc = "send"
      /\ c \in w.left
      /\ \A d \in w.left : client[c].ticket <= client[d].ticket
      /\ ~Blocked(c)
      /\ Update(c, SequenceAt(w.cursor))
      /\ Follow(b, [w EXCEPT !.left = left,
                       !.pc = IF left = {} THEN NextEvent(w) ELSE "send"])
      /\ UNCHANGED <<exists, doc, stream, room, handler, crashes>>

-----------------------------------------------------------------------------
(* A backend process dies and restarts empty: its room, watcher and        *)
(* connections are gone, what is in Redis stays.                           *)
Crash(b) ==
  LET lost == {c \in Conns : Home(c) = b /\ handler[c].pc # "new"}
  IN  /\ crashes < MaxCrashes
      /\ crashes' = crashes + 1
      /\ room' = [room EXCEPT ![b] = NoRoom]
      /\ watcher' = [watcher EXCEPT ![b] = NoWatcher]
      /\ client' = [c \in Conns |-> IF c \in lost
                      THEN [client[c] EXCEPT !.sock = "broken"] ELSE client[c]]
      /\ handler' = [c \in Conns |-> IF c \in lost
                      THEN [NoHandler EXCEPT !.pc = "closed",
                            !.home = b, !.cursor = handler[c].cursor,
                            !.boundary = handler[c].boundary] ELSE handler[c]]
      /\ UNCHANGED <<exists, doc, stream, wire>>

(* What a handler does on its own once it has started or read a frame.     *)
Serve(c) ==
  \/ GetNext(c) \/ ApplySnapshot(c)
  \/ SnapshotFails(c) \/ HydrateRoom(c) \/ Register(c) \/ Join(c)
  \/ ReadBoundary(c) \/ WriteStarted(c) \/ ReadPage(c) \/ VisitEntry(c)
  \/ FinishReplay(c) \/ FlushNext(c) \/ WriteState(c)
  \/ Evaluate(c) \/ EvaluateFails(c) \/ ApplyReplyToRoom(c) \/ Acknowledge(c)
  \/ Abort(c) \/ RemoveClient(c) \/ CloseConn(c)

Watch(b) ==
  \/ ReadBatch(b) \/ ApplyEvent(b) \/ SnapshotClients(b)
  \/ \E c \in Conns : Send(b, c)

Next ==
  \/ \E b \in Backends : CreateRoom(b) \/ Watch(b) \/ Crash(b)
  \/ \E c \in Conns :
       \/ \E b \in Backends, k \in Cursors : Connect(c, b, k)
       \/ Serve(c)
       \/ ReceiveEdit(c) \/ Disconnect(c)
       \/ Reset(c) \/ Stall(c) \/ HeartbeatClose(c)

Spec == Init /\ [][Next]_vars

(* The goroutines run, Redis answers, and the heartbeat of a stalled       *)
(* socket gives up; peers connect, write and leave as they please.         *)
Fairness ==
  /\ \A b \in Backends : WF_vars(Watch(b))
  /\ \A c \in Conns : WF_vars(Serve(c)) /\ WF_vars(HeartbeatClose(c))

FairSpec == Spec /\ Fairness
-----------------------------------------------------------------------------
\* Properties

Pcs == {"new", "get", "applySnapshot",
        "register", "join", "boundary", "started", "page", "visit", "finish",
        "flush", "writeState", "live", "eval", "applyReply", "acknowledge"} \cup Ending

RoomType    == [cached : BOOLEAN, snap : Snapshot, clients : SUBSET Conns]
WatcherType == [pc : {"off", "read", "apply", "broadcast", "send"},
                initial : Nat, cursor : Nat, batchEnd : Nat,
                left : SUBSET Conns]
ClientType  == [sock : {"none", "open", "stalled", "broken"},
                replaying : BOOLEAN, lastSequence : Nat,
                pending : SUBSET Nat, ticket : Nat]
HandlerType == [pc : Pcs, home : Backends \cup {"none"}, cursor : Nat,
                task : {"none", "hydrate", "state", "edit"}, gets : Nat,
                snap : Snapshot, accepted : BOOLEAN, boundary : Nat,
                at : Nat, pageEnd : Nat, expected : Nat, edits : Nat]
WireType    == [updates : Seq(Nat), handoff : Int,
                states : Seq([snap : Snapshot, after : Nat])]

(* The variables have the types of the Go structs and locals they model.   *)
TypeOK ==
  /\ StoreTypeOK
  /\ room    \in [Backends -> RoomType]
  /\ watcher \in [Backends -> WatcherType]
  /\ client  \in [Conns -> ClientType]
  /\ handler \in [Conns -> HandlerType]
  /\ wire    \in [Conns -> WireType]
  /\ crashes \in Nat

Resumed(c) == handler[c].cursor > 0

(* Zero gaps, no duplicates, monotonic order (docs/phase2.md): whatever    *)
(* the watcher, the replay and commits of other backends do in between, a  *)
(* resumed connection is sent cursor + 1, cursor + 2, ...; a fresh one is  *)
(* sent consecutive events from the first one it gets.                     *)
InOrderNoGaps ==
  \A c \in Conns :
    LET u == wire[c].updates
        from == IF Resumed(c) THEN handler[c].cursor ELSE u[1] - 1
    IN  \A i \in 1 .. Len(u) : u[i] = from + i

(* The handoff (README.md:77): resume_complete comes after exactly the     *)
(* events up to the boundary; no live event overtakes a replayed one.      *)
HandoffAtBoundary ==
  \A c \in Conns :
    LET w == wire[c]
        b == SequenceAt(handler[c].boundary)
    IN  w.handoff # -1 =>
          /\ w.handoff = b - handler[c].cursor
          /\ \A i \in 1 .. Len(w.updates) : i <= w.handoff <=> w.updates[i] <= b

(* A fresh connection misses nothing between its room_state and its first  *)
(* update: serveWS adds the client to the room before it reads the         *)
(* snapshot, so an event broadcast too early is in the snapshot.           *)
NothingMissedOnJoin ==
  \A c \in Conns :
    LET w == wire[c]
    IN  ~Resumed(c) /\ w.states # <<>> /\ w.updates # <<>> =>
          w.updates[1] <= w.states[1].snap.sequence + 1

OnlyLags(snap) ==
  /\ snap.content <= snap.version
  /\ snap.version <= snap.sequence
  /\ snap.sequence <= doc.sequence

(* The GETs of a snapshot may be torn by commits, but in one direction:    *)
(* what a backend caches, and what it tells a client in a room_state, can  *)
(* pair an older text with a newer version, never the reverse, and never   *)
(* names a sequence that was not committed.                                *)
SnapshotsOnlyLag ==
  /\ \A b \in Backends : OnlyLags(room[b].snap)
  /\ \A c \in Conns : \A i \in 1 .. Len(wire[c].states) :
       OnlyLags(wire[c].states[i].snap)

(* Replies, snapshots and stream events reach the cached room from         *)
(* different goroutines in any order; its sequence never goes back.        *)
RoomNeverRegresses ==
  [][\A b \in Backends : room[b].cached /\ room'[b].cached =>
       room[b].snap.sequence <= room'[b].snap.sequence]_vars

(* Connection c has been told of the edit at position n.                   *)
Told(c, n) ==
  LET w == wire[c]
  IN  \/ Resumed(c) /\ n <= handler[c].cursor
      \/ \E i \in 1 .. Len(w.updates) : w.updates[i] = n
      \/ \E i \in 1 .. Len(w.states) : w.states[i].snap.sequence >= n

(* Every edit accepted by any backend reaches every connection that stays  *)
(* (README.md:55): a live connection is told of the newest edit again and  *)
(* again until it is no longer live, even while another connection's peer  *)
(* has stalled in the middle of a broadcast.                               *)
EveryEditArrives ==
  \A c \in Conns :
    handler[c].pc = "live" /\ client[c].sock = "open"
      ~> \/ Told(c, Len(stream))
         \/ client[c].sock # "open" \/ handler[c].pc \in Ending

(* Replay finds the history it needs (docs/phase2.md, zero gaps): without   *)
(* a fault of Redis or of the socket, a resume whose cursor the stream     *)
(* covers is never given up half-way.                                      *)
ReplayFindsNoGap ==
  [][\A c \in Conns :
       handler[c].pc \in {"page", "visit"} /\ handler'[c].pc = "closing" =>
         client[c].sock = "broken" \/ "redis" \in Faults]_vars

(* A connection that is being set up gets there or is closed: no page of   *)
(* the replay is read twice, and no stalled peer holds it for good.        *)
ResumeTerminates ==
  \A c \in Conns :
    handler[c].pc = "boundary" ~> handler[c].pc \in {"live"} \cup Ending

Looping(h) == h.pc \in {"started", "page", "visit"}

(* How far the loop of EventsAfterSequence is from its boundary.           *)
Distance(c) ==
  LET h == handler[c]
  IN  2 * (h.boundary - h.at) + (CASE h.pc = "started" -> 2
                                   [] h.pc = "page"    -> 1
                                   [] h.pc = "visit"   -> 0)

(* "Capturing a fixed replay boundary makes the recovery interval finite"  *)
(* (README.md:317): however many edits are committed meanwhile, each step  *)
(* of a replay brings it nearer to its boundary, and nobody else's step    *)
(* moves that boundary away.                                               *)
ReplayGetsCloser ==
  [][\A c \in Conns :
       Looping(handler[c]) /\ Looping(handler'[c]) =>
         \/ handler'[c] = handler[c]
         \/ 0 <= Distance(c)' /\ Distance(c)' < Distance(c)]_vars
=============================================================================
