---------------------------- MODULE DeliveryInv -----------------------------
(***************************************************************************)
(* The inductive invariant of Delivery.  InOrderNoGaps says what was       *)
(* written to a socket; the next write keeps it true only if the watcher,  *)
(* the cached room and the Client struct agree on which event comes next.  *)
(***************************************************************************)
EXTENDS Delivery

(* The last event the watcher of b will not hand to c any more: up to its  *)
(* cursor, but for the event it is still sending, and no lower than what   *)
(* it skips at its start.                                                  *)
Reached(b, c) ==
  LET w == watcher[b]
      past == IF w.pc = "broadcast" \/ c \in w.left THEN w.cursor - 1
              ELSE w.cursor
  IN  IF past < w.initial THEN w.initial ELSE past

(* The watcher of its backend may still write to c.                        *)
Following(c) ==
  /\ Home(c) \in Backends
  /\ c \in room[Home(c)].clients \cup watcher[Home(c)].left

Usable(c) == client[c].sock \in {"open", "stalled"}

Serving == Pcs \ ({"new", "register"} \cup Ending)
Replaying == {"boundary", "started", "page", "visit", "finish", "flush"}

(* Redis: the log is the document, and a room nobody created has no log.   *)
StoreOK ==
  /\ LogIsTheDocument
  /\ NoSilentOverwrite
  /\ ~exists => stream = <<>>

(* One watcher per cached room, inside the stream; what it has broadcast   *)
(* is in the cached room.                                                  *)
WatcherOK(b) ==
  LET w == watcher[b]
      r == room[b]
  IN  /\ r.cached <=> w.pc # "off"
      /\ ~r.cached => r = NoRoom
      /\ w.initial <= Len(stream)
      /\ w.cursor <= w.batchEnd /\ w.batchEnd <= Len(stream)
      /\ w.pc = "apply" => w.cursor < w.batchEnd
      /\ w.pc \in {"broadcast", "send"} => w.cursor > w.initial
      /\ w.pc # "send" => w.left = {}
      /\ w.initial <= r.snap.sequence
      /\ w.cursor > w.initial => w.cursor <= r.snap.sequence
      /\ OnlyLags(r.snap)

(* A client is in the room of its own backend, from Register until         *)
(* RemoveClient; before that nothing knows of it.                          *)
MembershipOK(c) ==
  LET h == handler[c]
  IN  /\ h.pc = "new" => h.home = "none"
      /\ h.pc # "new" => exists /\ h.home \in Backends
      /\ h.pc = "register" => room[h.home].cached
      /\ \A b \in Backends :
           c \in room[b].clients \cup watcher[b].left =>
             h.home = b /\ client[c].ticket > 0
      /\ client[c].ticket = 0 =>
           /\ h.pc \in {"new", "get", "applySnapshot", "register", "closed"}
           /\ h.pc \in {"get", "applySnapshot"} => h.task = "hydrate"
           /\ client[c].sock \notin {"open", "stalled"}
           /\ ~client[c].replaying
           /\ wire[c] = NoWire
      /\ client[c].ticket > 0 =>
           /\ h.pc \notin {"new", "register"}
           /\ h.pc \in {"get", "applySnapshot"} => h.task \in {"state", "edit"}
           /\ h.pc \in Serving => c \in room[h.home].clients

(* What a handler has read lags in one direction; it starts with nothing.  *)
SnapshotOK(c) ==
  LET h == handler[c]
  IN  /\ h.pc \in {"register", "join", "live"} => h.gets = 0
      /\ h.pc = "get" =>
           /\ h.gets < 3
           /\ h.gets >= 1 => h.snap.content <= doc.version
           /\ h.gets = 2 => h.snap.content <= h.snap.version
           /\ h.gets = 2 => h.snap.version <= doc.sequence
      /\ h.pc \in {"applySnapshot", "writeState", "applyReply", "acknowledge"}
           => OnlyLags(h.snap)
      /\ \A i \in 1 .. Len(wire[c].states) : OnlyLags(wire[c].states[i].snap)

(* A connection in the middle of a replay: what it was sent, and what it   *)
(* buffers.                                                                *)
ReplayOK(c) ==
  LET h == handler[c]
      k == client[c]
      u == wire[c].updates
  IN  /\ k.replaying => Resumed(c)
      /\ k.replaying /\ wire[c].handoff = -1 => k.lastSequence = h.cursor
      /\ k.replaying /\ wire[c].handoff # -1 => h.pc = "flush" \/ k.sock \notin {"open", "stalled"}
      /\ h.pc \in Replaying => k.replaying
      /\ h.pc = "join" => (k.replaying <=> Resumed(c))
      /\ h.pc \in Serving \ (Replaying \cup {"join"}) => ~k.replaying
      /\ h.pc \in {"join", "boundary", "started"} /\ Resumed(c) => u = <<>>
      /\ h.pc \in {"register", "join", "boundary"} => h.at = 0
      /\ h.pc \in {"started", "page", "visit", "finish"} =>
           /\ h.cursor <= h.boundary /\ h.boundary <= Len(stream)
           /\ h.cursor < h.expected /\ h.expected <= h.boundary + 1
           /\ Len(u) = h.expected - h.cursor - 1
           /\ h.at <= h.boundary
           /\ h.expected = (IF h.at < h.cursor THEN h.cursor ELSE h.at) + 1
           /\ \A s \in h.boundary + 1 .. Reached(h.home, c) : s \in k.pending
      /\ h.pc \in {"join"} \cup Replaying =>
           \A s \in k.pending : s <= Reached(h.home, c)
      /\ h.pc \in {"register", "join", "boundary", "started", "page", "visit", "finish"} =>
           wire[c].handoff = -1
      /\ h.pc = "flush" =>
           /\ wire[c].handoff # -1
           /\ k.lastSequence = h.cursor + Len(u)
           /\ h.boundary <= k.lastSequence
           /\ \E s \in k.pending : s > k.lastSequence
           /\ \A s \in k.lastSequence + 1 .. Reached(h.home, c) : s \in k.pending
      /\ h.pc = "visit" => h.at < h.pageEnd /\ h.pageEnd <= h.boundary
      /\ h.pc = "finish" => h.expected = h.boundary + 1

(* Where the updates of a connection start.                                *)
From(c) ==
  IF Resumed(c) THEN handler[c].cursor ELSE wire[c].updates[1] - 1

Started(c) == Resumed(c) \/ wire[c].updates # <<>>

(* lastSequence is the last update written, and the watcher's next event   *)
(* is at most one ahead of it.                                             *)
LiveOK(c) ==
  LET k == client[c]
      u == wire[c].updates
      w == wire[c]
  IN  /\ \A i \in 1 .. Len(u) : u[i] = From(c) + i
      /\ ~k.replaying /\ k.ticket > 0 =>
           /\ Started(c) => k.lastSequence = From(c) + Len(u)
           /\ ~Started(c) => k.lastSequence = 0
           /\ Started(c) /\ Following(c) /\ Usable(c) =>
                Reached(Home(c), c) <= k.lastSequence
      /\ w.handoff # -1 =>
           /\ handler[c].cursor <= handler[c].boundary
           /\ handler[c].boundary <= Len(stream)
           /\ w.handoff = handler[c].boundary - handler[c].cursor
           /\ handler[c].boundary <= handler[c].cursor + Len(u)
           /\ Resumed(c)

(* A fresh connection: the first update follows on from the first          *)
(* room_state.                                                             *)
JoinOK(c) ==
  LET h == handler[c]
      u == wire[c].updates
      states == wire[c].states
      FollowsOn(q) ==
        /\ u # <<>> => u[1] <= q + 1
        /\ u = <<>> /\ Following(c) /\ Usable(c) => Reached(h.home, c) <= q
  IN  ~Resumed(c) =>
        /\ h.pc \in {"join", "writeState"} => states = <<>>
        /\ h.pc \in {"get", "applySnapshot"} /\ h.task = "state" => states = <<>>
        /\ h.pc \in {"get", "applySnapshot"} /\ h.task = "edit" => states # <<>>
        /\ h.pc \in {"live", "eval", "applyReply", "acknowledge"} => states # <<>>
        /\ u # <<>> /\ h.pc \in Serving => u[1] <= room[h.home].snap.sequence
        /\ h.pc = "writeState" => FollowsOn(h.snap.sequence)
        /\ states # <<>> => FollowsOn(states[1].snap.sequence)

ConnOK(c) ==
  /\ MembershipOK(c)
  /\ SnapshotOK(c)
  /\ ReplayOK(c)
  /\ LiveOK(c)
  /\ JoinOK(c)

IInv ==
  /\ TypeOK
  /\ StoreOK
  /\ \A b \in Backends : WatcherOK(b)
  /\ \A c \in Conns : ConnOK(c)
=============================================================================
