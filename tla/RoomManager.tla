----------------------------- MODULE RoomManager -----------------------------
(***************************************************************************)
(* The manager of one backend in Redis mode (backend/manager.go): which    *)
(* Room object an id stands for, and which object the goroutines that      *)
(* follow the room's streams write to.  Callers are requests: POST /rooms  *)
(* runs CreateRoom, GET /rooms/check runs GetRoom, and serveWS runs        *)
(* GetRoom and stays.  Delivery and Presence take one Room and one watcher *)
(* for each id and backend as given; this module is about that.            *)
(*                                                                         *)
(* A Room is named by the caller that allocated it.  m.mu is held across   *)
(* steps by CreateRoom only; the other critical sections are one step.     *)
(***************************************************************************)
EXTENDS Integers, FiniteSets

CONSTANTS
  Ids,          \* room ids
  Callers,      \* requests to this backend
  Nobody,       \* not a caller
  FreshIds,     \* generateRoomID never returns an id twice
  Faults        \* "error": Redis commands fail; "silence": they are not answered

ASSUME ManagerAssumption ==
  /\ Nobody \notin Callers /\ FreshIds \in BOOLEAN
  /\ Faults \subseteq {"error", "silence"}

VARIABLES
  rooms,            \* m.Rooms: the object of each id
  mutex,            \* who holds m.mu
  watchers,         \* the object the stream watcher of each id feeds
  presenceWatchers, \* the object the presence watcher of each id feeds
  issued,           \* ids that generateRoomID returned, on any backend
  stored,           \* ids that exist in Redis
  call              \* per caller: where it is, its id and its Room

vars == <<rooms, mutex, watchers, presenceWatchers, issued, stored, call>>

Init ==
  /\ rooms = [i \in Ids |-> Nobody] /\ mutex = Nobody
  /\ watchers = [i \in Ids |-> Nobody] /\ presenceWatchers = [i \in Ids |-> Nobody]
  /\ issued = {} /\ stored = {}
  /\ \E id \in [Callers -> Ids] :
       call = [c \in Callers |-> [pc |-> "idle", id |-> id[c], room |-> Nobody]]

At(c, pc)   == call[c].pc = pc
Goto(c, pc) == call' = [call EXCEPT ![c].pc = pc]
Hold(c, room, pc) == call' = [call EXCEPT ![c].pc = pc, ![c].room = room]

(* generateRoomID.                                                         *)
Issue(i) ==
  /\ FreshIds => i \notin issued
  /\ issued' = issued \cup {i}

-----------------------------------------------------------------------------
\* CreateRoom

(* m.mu is taken, an id drawn and the object allocated.                    *)
BeginCreate(c) ==
  /\ At(c, "idle") /\ mutex = Nobody
  /\ mutex' = c
  /\ Issue(call[c].id)
  /\ Hold(c, c, "store")
  /\ UNCHANGED <<rooms, watchers, presenceWatchers, stored>>

(* The script of store.CreateRoom, whose reply may be lost.                *)
Store(c) ==
  /\ At(c, "store")
  /\ stored' = stored \cup {call[c].id}
  /\ \/ Goto(c, "publish")
     \/ "error" \in Faults /\ Goto(c, "fail")
  /\ UNCHANGED <<rooms, mutex, watchers, presenceWatchers, issued>>

StoreFails(c) ==
  /\ At(c, "store") /\ "error" \in Faults
  /\ Goto(c, "fail")
  /\ UNCHANGED <<rooms, mutex, watchers, presenceWatchers, issued, stored>>

\* Faulty: the early return keeps the lock.
FailWithLock(c) ==
  /\ At(c, "fail")
  /\ Goto(c, "returned")
  /\ UNCHANGED <<rooms, mutex, watchers, presenceWatchers, issued, stored>>

(* The early return; the deferred Unlock runs.                             *)
Fail(c) ==
  /\ At(c, "fail")
  /\ mutex' = Nobody
  /\ Goto(c, "returned")
  /\ UNCHANGED <<rooms, watchers, presenceWatchers, issued, stored>>

Publish(c) ==
  /\ At(c, "publish")
  /\ rooms' = [rooms EXCEPT ![call[c].id] = c]
  /\ Goto(c, "watchNew")
  /\ UNCHANGED <<mutex, watchers, presenceWatchers, issued, stored>>

(* ensureWatcher: the first object an id is watched with is the one its    *)
(* watcher feeds from then on.                                             *)
Watched(c) ==
  IF watchers[call[c].id] # Nobody THEN watchers
  ELSE [watchers EXCEPT ![call[c].id] = call[c].room]

EndCreate(c) ==
  /\ At(c, "watchNew")
  /\ watchers' = Watched(c)
  /\ mutex' = Nobody
  /\ Goto(c, "returned")
  /\ UNCHANGED <<rooms, presenceWatchers, issued, stored>>

-----------------------------------------------------------------------------
\* GetRoom

LookUp(c) ==
  LET room == rooms[call[c].id]
  IN  /\ At(c, "idle") /\ mutex = Nobody
      /\ Hold(c, room, IF room # Nobody THEN "watch" ELSE "load")
      /\ UNCHANGED <<rooms, mutex, watchers, presenceWatchers, issued, stored>>

(* store.GetSnapshot; an error and a room that is not there are one result.*)
Load(c) ==
  /\ At(c, "load")
  /\ \/ Goto(c, IF call[c].id \in stored THEN "install" ELSE "returned")
     \/ "error" \in Faults /\ Goto(c, "returned")
  /\ UNCHANGED <<rooms, mutex, watchers, presenceWatchers, issued, stored>>

\* Faulty: what was found before the snapshot was read is not looked at again.
InstallUnchecked(c) ==
  LET i == call[c].id
  IN  /\ At(c, "install") /\ mutex = Nobody
      /\ rooms' = [rooms EXCEPT ![i] = c]
      /\ Hold(c, rooms'[i], "watch")
      /\ UNCHANGED <<mutex, watchers, presenceWatchers, issued, stored>>

(* Under m.mu again: somebody may have been faster.                        *)
Install(c) ==
  LET i == call[c].id
  IN  /\ At(c, "install") /\ mutex = Nobody
      /\ rooms' = IF rooms[i] # Nobody THEN rooms ELSE [rooms EXCEPT ![i] = c]
      /\ Hold(c, rooms'[i], "watch")
      /\ UNCHANGED <<mutex, watchers, presenceWatchers, issued, stored>>

(* GetRoom ends with ensureWatcher; serveWS goes on, GET /rooms/check not. *)
EndGet(c) ==
  /\ At(c, "watch")
  /\ watchers' = Watched(c)
  /\ Goto(c, "joining") \/ Goto(c, "returned")
  /\ UNCHANGED <<rooms, mutex, presenceWatchers, issued, stored>>

-----------------------------------------------------------------------------
\* serveWS with the room it got

(* AddClient and JoinPresence, then ensurePresenceWatcher.                 *)
Join(c) ==
  LET i == call[c].id
  IN  /\ At(c, "joining")
      /\ presenceWatchers' = IF presenceWatchers[i] # Nobody THEN presenceWatchers
                             ELSE [presenceWatchers EXCEPT ![i] = call[c].room]
      /\ Goto(c, "in")
      /\ UNCHANGED <<rooms, mutex, watchers, issued, stored>>

JoinFails(c) ==
  /\ At(c, "joining") /\ "error" \in Faults
  /\ Goto(c, "out")
  /\ UNCHANGED <<rooms, mutex, watchers, presenceWatchers, issued, stored>>

Leave(c) ==
  /\ At(c, "in")
  /\ Goto(c, "out")
  /\ UNCHANGED <<rooms, mutex, watchers, presenceWatchers, issued, stored>>

\* Faulty: Redis mode forgets an empty room as the local mode does.
DeleteRoomLocally(c) ==
  /\ At(c, "out")
  /\ rooms' = [rooms EXCEPT ![call[c].id] = Nobody]
  /\ Goto(c, "returned")
  /\ UNCHANGED <<mutex, watchers, presenceWatchers, issued, stored>>

(* DeleteRoom keeps the Room in Redis mode, for its watchers feed it.      *)
DeleteRoom(c) ==
  /\ At(c, "out")
  /\ Goto(c, "returned")
  /\ UNCHANGED <<rooms, mutex, watchers, presenceWatchers, issued, stored>>

-----------------------------------------------------------------------------
\* Redis and the other backends

(* A room is created through another backend.                              *)
CreateElsewhere(i) ==
  /\ Issue(i)
  /\ stored' = stored \cup {i}
  /\ UNCHANGED <<rooms, mutex, watchers, presenceWatchers, call>>

(* A command is never answered, for only dialling has a timeout: the       *)
(* script of CreateRoom, which may have run, and its caller keeps m.mu; or *)
(* GetSnapshot, JoinPresence and LeavePresence of requests without m.mu.   *)
Silence(c) ==
  /\ "silence" \in Faults
  /\ \/ /\ At(c, "store") /\ Goto(c, "stuck")
        /\ stored' \in {stored, stored \cup {call[c].id}}
     \/ /\ call[c].pc \in {"load", "joining", "out"} /\ Goto(c, "waiting")
        /\ UNCHANGED stored
  /\ UNCHANGED <<rooms, mutex, watchers, presenceWatchers, issued>>

(* What a request does once it has begun.                                  *)
Proceed(c) ==
  \/ Store(c) \/ StoreFails(c) \/ Fail(c) \/ Publish(c) \/ EndCreate(c)
  \/ Load(c) \/ Install(c) \/ EndGet(c)
  \/ Join(c) \/ JoinFails(c) \/ DeleteRoom(c)

Next ==
  \/ \E i \in Ids : CreateElsewhere(i)
  \/ \E c \in Callers :
       \/ BeginCreate(c) \/ LookUp(c) \/ Leave(c) \/ Silence(c) \/ Proceed(c)

Spec == Init /\ [][Next]_vars

(* Goroutines run, and a mutex that is free is handed to who waits for it. *)
Fairness == \A c \in Callers : WF_vars(Proceed(c))

FairSpec == Spec /\ Fairness

-----------------------------------------------------------------------------
\* Properties

Pcs == {"idle", "store", "fail", "publish", "watchNew", "load", "install", "watch",
        "joining", "in", "out", "waiting", "stuck", "returned"}

InCreate == {"store", "stuck", "fail", "publish", "watchNew"}

(* The maps hold Room objects, and m.mu is held by a request exactly while *)
(* it is in CreateRoom, on every way out of it.                            *)
ManagerTypeOK ==
  /\ rooms \in [Ids -> Callers \cup {Nobody}]
  /\ watchers \in [Ids -> Callers \cup {Nobody}]
  /\ presenceWatchers \in [Ids -> Callers \cup {Nobody}]
  /\ mutex \in Callers \cup {Nobody}
  /\ issued \subseteq Ids /\ stored \subseteq Ids
  /\ call \in [Callers -> [pc : Pcs, id : Ids, room : Callers \cup {Nobody}]]
  /\ \A c \in Callers : mutex = c <=> call[c].pc \in InCreate

(* A backend forwards events to its locally connected clients              *)
(* (README.md:46): whoever is in a room is in the Room object that both    *)
(* watchers of its id feed, whichever of the racing requests allocated it. *)
InTheRoomThatIsFed ==
  \A c \in Callers :
    LET k == call[c]
    IN  At(c, "in") => watchers[k.id] = k.room /\ presenceWatchers[k.id] = k.room

(* A watcher feeds the Room that the next request for its id gets: those   *)
(* who come later share the text and the clients of those who were first.  *)
WatchedRoomIsListed ==
  \A i \in Ids : watchers[i] # Nobody => watchers[i] = rooms[i]

(* GetRoom, joining and leaving wait for Redis without m.mu, and CreateRoom *)
(* gives it back on every return: a request that is left without an answer  *)
(* there holds up nobody else.  The one exception is CreateRoom, which      *)
(* holds m.mu across its command (manager.go:66): while Redis does not      *)
(* answer it, whoever needs m.mu waits too.                                 *)
CallsReturn ==
  \A c \in Callers :
    ~At(c, "idle") ~> \/ At(c, "waiting") \/ At(c, "in") \/ At(c, "returned")
                      \/ \E d \in Callers : At(d, "stuck")
=============================================================================
