------------------------------ MODULE LocalRoom ------------------------------
(***************************************************************************)
(* One room of a backend without Redis (mode "local-memory" of             *)
(* backend/main.go): the Room is the document, its Clients are the         *)
(* presence list, and the goroutines that serve the connections            *)
(* (serveWS in backend/ws.go) apply edits under the room's mutex and       *)
(* broadcast outside it (backend/room.go).  The last connection to leave   *)
(* takes the room out of the manager (backend/manager.go).                 *)
(*                                                                         *)
(* Every critical section of a mutex and every write to a socket is a step *)
(* of its own.  Version, sequence and text change together under the lock, *)
(* so one number stands for the three.  Typing frames are left out: they   *)
(* are broadcast like an edit and change nothing.                          *)
(***************************************************************************)
EXTENDS Integers, Sequences, FiniteSets

CONSTANTS
  Conns,        \* connections
  Writers,      \* the connections whose peer sends edits
  Policy,       \* the stale write policy, "reject" or "accept" (config.go)
  MaxEdits,     \* bound: edits read from all connections
  Faults        \* the faults of the run

ASSUME LocalAssumption ==
  /\ IsFiniteSet(Conns) /\ Writers \subseteq Conns
  /\ Policy \in {"reject", "accept"} /\ MaxEdits \in Nat
  /\ Faults \subseteq {"reset", "stall"}

VARIABLES
  table,        \* Rooms[id] of the manager: "none", "listed", "forgotten"
  doc,          \* the Version and Sequence of the Room
  clients,      \* the Clients of the Room, in the order they were added
  revision,     \* localPresenceRevision
  handler,      \* per connection: serveWS and its locals
  sock,         \* per connection: its socket
  told,         \* per connection: the presence it was last written
  page,         \* per connection: the text its page shows, and the newest
                \* one it has shown, -1 for none
  edits         \* edits read so far

vars == <<table, doc, clients, revision, handler, sock, told, page, edits>>

Nobody     == [revision |-> -1, members |-> {}]

\* Faulty: a sequence nobody set reads as -1.
UnsetHandler == [pc |-> "new", task |-> "none", seq |-> -1, accepted |-> FALSE,
                 snap |-> Nobody, left |-> <<>>]

NewHandler == [pc |-> "new", task |-> "none", seq |-> 0, accepted |-> FALSE,
               snap |-> Nobody, left |-> <<>>]

Init ==
  /\ table = "none"
  /\ doc = 0 /\ clients = <<>> /\ revision = 0 /\ edits = 0
  /\ handler = [c \in Conns |-> NewHandler]
  /\ sock    = [c \in Conns |-> "none"]
  /\ told    = [c \in Conns |-> Nobody]
  /\ page    = [c \in Conns |-> [text |-> -1, best |-> -1]]

Members == {clients[i] : i \in 1 .. Len(clients)}
In(s) == {s[i] : i \in 1 .. Len(s)}

Goto(c, pc) == handler' = [handler EXCEPT ![c].pc = pc]

(* A call of serveWS returns: its locals go out of scope.                  *)
Return(c, pc) == handler' = [handler EXCEPT ![c] = [NewHandler EXCEPT !.pc = pc]]

-----------------------------------------------------------------------------
\* The manager

(* POST /rooms.                                                            *)
CreateRoom ==
  /\ table = "none"
  /\ table' = "listed"
  /\ UNCHANGED <<doc, clients, revision, handler, sock, told, page, edits>>

(* serveWS up to GetRoom: a room that is not in the map is not found.      *)
GetRoom(c) ==
  /\ handler[c].pc = "new"
  /\ Goto(c, IF table = "listed" THEN "register" ELSE "closed")
  /\ UNCHANGED <<table, doc, clients, revision, sock, told, page, edits>>

\* Faulty: the leaving client is still counted.
CountOneMore(c) ==
  /\ handler[c].pc = "count"
  /\ IF Len(clients) = 1 THEN Return(c, "forget") ELSE Return(c, "close")
  /\ UNCHANGED <<table, doc, clients, revision, sock, told, page, edits>>

(* ClientCount, under the lock of the room.                                *)
Count(c) ==
  /\ handler[c].pc = "count"
  /\ IF clients = <<>> THEN Return(c, "forget") ELSE Return(c, "close")
  /\ UNCHANGED <<table, doc, clients, revision, sock, told, page, edits>>

(* DeleteRoom, under the lock of the manager.                              *)
DeleteRoom(c) ==
  /\ handler[c].pc = "forget"
  /\ table' = "forgotten"
  /\ Return(c, "close")
  /\ UNCHANGED <<doc, clients, revision, sock, told, page, edits>>

-----------------------------------------------------------------------------
\* Joining and leaving

(* AddClient.                                                              *)
Register(c) ==
  /\ handler[c].pc = "register"
  /\ sock' = [sock EXCEPT ![c] = "open"]
  /\ clients' = Append(clients, c)
  /\ revision' = revision + 1
  /\ handler' = [handler EXCEPT ![c].pc = "announce", ![c].task = "join"]
  /\ UNCHANGED <<table, doc, told, page, edits>>

(* GetSnapshot, for the room_state of a new connection.                    *)
ReadState(c) ==
  /\ handler[c].pc = "read"
  /\ handler' = [handler EXCEPT ![c].seq = doc, ![c].pc = "writeState"]
  /\ UNCHANGED <<table, doc, clients, revision, sock, told, page, edits>>

(* The page of c reads a room_state (RoomPage.tsx): it replaces the text,  *)
(* whatever the page has.                                                  *)
OnRoomState(c, seq) ==
  [page EXCEPT ![c] = [text |-> seq, best |-> IF seq > @.best THEN seq ELSE @.best]]

(* It reads a content_update, which is dropped unless it is newer.         *)
OnContentUpdate(c, seq) ==
  IF seq > page[c].text THEN OnRoomState(c, seq) ELSE page

(* The room_state is written, or the socket is gone.                       *)
WriteState(c) ==
  /\ handler[c].pc = "writeState" /\ sock[c] # "stalled"
  /\ IF sock[c] = "open"
     THEN Return(c, "live") /\ page' = OnRoomState(c, handler[c].seq)
     ELSE Return(c, "remove") /\ UNCHANGED page
  /\ UNCHANGED <<table, doc, clients, revision, sock, told, edits>>

(* The read loop ends.                                                     *)
Leave(c) ==
  /\ handler[c].pc = "live"
  /\ Return(c, "remove")
  /\ UNCHANGED <<table, doc, clients, revision, sock, told, page, edits>>

(* The deferred cleanup starts with RemoveClient; AddClient put c into the *)
(* list once.                                                              *)
RemoveClient(c) ==
  /\ handler[c].pc = "remove"
  /\ \E i \in 1 .. Len(clients) :
       /\ clients[i] = c
       /\ clients' = SubSeq(clients, 1, i - 1) \o SubSeq(clients, i + 1, Len(clients))
  /\ revision' = revision + 1
  /\ handler' = [handler EXCEPT ![c].pc = "announce", ![c].task = "leave"]
  /\ UNCHANGED <<table, doc, sock, told, page, edits>>

CloseConn(c) ==
  /\ handler[c].pc = "close"
  /\ sock' = [sock EXCEPT ![c] = "broken"]
  /\ Goto(c, "closed")
  /\ UNCHANGED <<table, doc, clients, revision, told, page, edits>>

-----------------------------------------------------------------------------
\* Edits

(* The read loop takes a content_update frame, and applyLocalContentUpdate *)
(* accepts it or, under "reject", refuses one made from another version.   *)
Edit(c) ==
  /\ handler[c].pc = "live" /\ sock[c] # "broken"
  /\ c \in Writers /\ edits < MaxEdits
  /\ edits' = edits + 1
  /\ \E base \in 0 .. MaxEdits :
       LET accepted == base = doc \/ Policy = "accept"
           seq      == IF accepted THEN doc + 1 ELSE doc
       IN  /\ doc' = seq
           /\ handler' = [handler EXCEPT ![c].seq = seq, ![c].task = "edit",
                            ![c].accepted = accepted, ![c].pc = "acknowledge"]
  /\ UNCHANGED <<table, clients, revision, sock, told, page>>

\* Faulty: an edit whose sender is gone is not broadcast.
AcknowledgeOrStop(c) ==
  LET h == handler[c]
  IN  /\ h.pc = "acknowledge" /\ sock[c] # "stalled"
      /\ IF sock[c] = "open" THEN Goto(c, IF h.accepted THEN "audience" ELSE "resync")
         ELSE Return(c, "live")
      /\ UNCHANGED <<table, doc, clients, revision, sock, told, page, edits>>

(* operation_result, which brings the page no text; an accepted edit is    *)
(* broadcast next, whether or not its sender could be answered.            *)
Acknowledge(c) ==
  LET h == handler[c]
  IN  /\ h.pc = "acknowledge" /\ sock[c] # "stalled"
      /\ Goto(c, IF h.accepted THEN "audience" ELSE "resync")
      /\ UNCHANGED <<table, doc, clients, revision, sock, told, page, edits>>

(* After a refusal, the room_state the edit was refused for.               *)
Resync(c) ==
  /\ handler[c].pc = "resync" /\ sock[c] # "stalled"
  /\ page' = IF sock[c] = "open" THEN OnRoomState(c, handler[c].seq) ELSE page
  /\ Return(c, "live")
  /\ UNCHANGED <<table, doc, clients, revision, sock, told, edits>>

-----------------------------------------------------------------------------
\* BroadcastPresence and BroadcastJSON

(* localPresenceSnapshot.                                                  *)
TakePresence(c) ==
  /\ handler[c].pc = "announce"
  /\ handler' = [handler EXCEPT ![c].pc = "audience",
       ![c].snap = [revision |-> revision, members |-> Members]]
  /\ UNCHANGED <<table, doc, clients, revision, sock, told, page, edits>>

(* Where serveWS goes on after a broadcast.                                *)
AfterBroadcast(task) ==
  CASE task = "join"  -> "read"
    [] task = "leave" -> "count"
    [] task = "edit"  -> "live"

(* A broadcast has left to write to these clients.                         *)
Continue(c, left) ==
  IF left # <<>> THEN handler' = [handler EXCEPT ![c].pc = "tell", ![c].left = left]
  ELSE handler' = [handler EXCEPT ![c] =
         [NewHandler EXCEPT !.pc = AfterBroadcast(handler[c].task)]]

(* clientsSnapshot: the clients that will be told.                         *)
TakeClients(c) ==
  /\ handler[c].pc = "audience"
  /\ Continue(c, clients)
  /\ UNCHANGED <<table, doc, clients, revision, sock, told, page, edits>>

(* writePresence drops a snapshot that is not newer than the last one.     *)
Outdated(d, snap) == snap.revision <= told[d].revision

\* Faulty: the loop over the clients ends at the first error.
TellNextUntilError(c) ==
  LET h == handler[c]
      d == Head(h.left)
  IN  /\ h.pc = "tell" /\ sock[d] # "stalled"
      /\ told' = IF h.task = "edit" \/ sock[d] # "open" \/ Outdated(d, h.snap)
                 THEN told ELSE [told EXCEPT ![d] = h.snap]
      /\ page' = IF h.task = "edit" /\ sock[d] = "open"
                 THEN OnContentUpdate(d, h.seq) ELSE page
      /\ Continue(c, IF sock[d] = "open" THEN Tail(h.left) ELSE <<>>)
      /\ UNCHANGED <<table, doc, clients, revision, sock, edits>>

(* The next client is written the presence list or the edit; an error is   *)
(* logged, and a peer that does not read blocks the goroutine.             *)
TellNext(c) ==
  LET h == handler[c]
      d == Head(h.left)
  IN  /\ h.pc = "tell" /\ sock[d] # "stalled"
      /\ told' = IF h.task = "edit" \/ sock[d] # "open" \/ Outdated(d, h.snap)
                 THEN told ELSE [told EXCEPT ![d] = h.snap]
      /\ page' = IF h.task = "edit" /\ sock[d] = "open"
                 THEN OnContentUpdate(d, h.seq) ELSE page
      /\ Continue(c, Tail(h.left))
      /\ UNCHANGED <<table, doc, clients, revision, sock, edits>>

-----------------------------------------------------------------------------
\* The network

(* The connection is lost: every later write fails.                        *)
Reset(c) ==
  /\ "reset" \in Faults /\ sock[c] = "open"
  /\ sock' = [sock EXCEPT ![c] = "broken"]
  /\ UNCHANGED <<table, doc, clients, revision, handler, told, page, edits>>

(* The peer stops reading for good; without Redis no heartbeat notices.    *)
Stall(c) ==
  /\ "stall" \in Faults /\ sock[c] = "open"
  /\ sock' = [sock EXCEPT ![c] = "stalled"]
  /\ UNCHANGED <<table, doc, clients, revision, handler, told, page, edits>>

(* What a goroutine does on its own.                                       *)
Serve(c) ==
  \/ Register(c) \/ ReadState(c) \/ WriteState(c) \/ RemoveClient(c)
  \/ Count(c) \/ DeleteRoom(c) \/ CloseConn(c)
  \/ Acknowledge(c) \/ Resync(c) \/ TakePresence(c) \/ TakeClients(c) \/ TellNext(c)

Next ==
  \/ CreateRoom
  \/ \E c \in Conns :
       \/ GetRoom(c) \/ Edit(c) \/ Leave(c) \/ Serve(c)
       \/ Reset(c) \/ Stall(c)

Spec == Init /\ [][Next]_vars

(* Goroutines run; peers connect, write and leave as they please, but a    *)
(* read from a broken socket fails.                                        *)
Fairness ==
  \A c \in Conns : WF_vars(Serve(c)) /\ WF_vars(sock[c] = "broken" /\ Leave(c))

FairSpec == Spec /\ Fairness

-----------------------------------------------------------------------------
\* Properties

Pcs == {"new", "register", "announce", "audience", "tell", "read", "writeState",
        "live", "acknowledge", "resync", "remove", "count", "forget", "close", "closed"}
PresenceType == [revision : Nat \cup {-1}, members : SUBSET Conns]
PageType == [text : Nat \cup {-1}, best : Nat \cup {-1}]

(* The variables have the types of the Go structs and locals they model.   *)
LocalTypeOK ==
  /\ table \in {"none", "listed", "forgotten"}
  /\ doc \in Nat /\ revision \in Nat /\ edits \in Nat
  /\ clients \in Seq(Conns)
  /\ handler \in [Conns -> [pc : Pcs, task : {"none", "join", "leave", "edit"},
                            seq : Nat, accepted : BOOLEAN,
                            snap : PresenceType, left : Seq(Conns)]]
  /\ sock \in [Conns -> {"none", "open", "stalled", "broken"}]
  /\ told \in [Conns -> PresenceType]
  /\ page \in [Conns -> PageType]

(* The goroutine of d has yet to tell c of what the room holds now.        *)
WillTellPresence(d, c) ==
  LET h == handler[d]
  IN  \/ h.pc = "announce"
      \/ /\ h.task \in {"join", "leave"} /\ h.snap.revision = revision
         /\ h.pc = "audience" \/ (h.pc = "tell" /\ c \in In(h.left))

(* Everyone in the room has the list of who is there, or a goroutine is on *)
(* its way with it: the snapshot, the copy of the clients and the writes   *)
(* are separate steps (broadcastPresenceSnapshot), joins and departures    *)
(* come in between, and the broadcasts overtake each other.                *)
PresenceOnItsWay ==
  \A c \in Members :
    sock[c] = "open" =>
      \/ told[c] = [revision |-> revision, members |-> Members]
      \/ \E d \in Conns : WillTellPresence(d, c)

(* The goroutine of d has yet to write c the text the room holds now.      *)
WillTellText(d, c) ==
  LET h == handler[d]
  IN  \/ /\ h.task = "edit" /\ h.accepted /\ h.seq = doc
         /\ \/ h.pc \in {"acknowledge", "audience"}
            \/ h.pc = "tell" /\ c \in In(h.left)
      \/ /\ d = c
         /\ \/ h.task = "join" \/ h.pc = "read"
            \/ h.pc = "writeState" /\ h.seq = doc

(* The page of c showed the text the room holds now, and a room_state that *)
(* was read before that text, or its edit was refused for, came after it   *)
(* (ws.go:112, :381): the page shows an old text until the next edit.      *)
TakenBack(c) == page[c].best = doc /\ page[c].text < doc

(* Everyone in the room shows the latest text, or is about to be written   *)
(* it: handleContentUpdate broadcasts outside the room's lock, and a       *)
(* client is added before its room_state is read.  The one exception is a  *)
(* page that has shown it already (TakenBack).                             *)
TextOnItsWay ==
  \A c \in Members :
    sock[c] = "open" /\ handler[c].pc # "remove" =>
      page[c].text = doc \/ TakenBack(c) \/ \E d \in Conns : WillTellText(d, c)

(* A room somebody used is forgotten once nobody uses it: whatever order   *)
(* the last connections leave in, ClientCount is 0 for the last of them.   *)
NoRoomLeaks ==
  /\ \A c \in Conns : handler[c].pc \in {"new", "closed"}
  /\ \E c \in Conns : sock[c] # "none"
  => table = "forgotten"

(* Multiple users can join the same room (README.md:29): a room somebody   *)
(* is in can be found.  ClientCount and DeleteRoom are two steps, and      *)
(* GetRoom and AddClient are two others (ws.go:86, ws.go:92).              *)
RoomInUseIsFound ==
  \A c \in Conns : handler[c].pc = "live" => table = "listed"

(* Every text is shown on every page, or a newer one is, also on the page  *)
(* whose edit was refused: a broken socket among the others does not stop  *)
(* the broadcast.  Only a peer that stops reading can, for a write to its  *)
(* socket does not return; and what a room_state took back (TakenBack)     *)
(* stays away until the next edit.                                         *)
TextArrives ==
  \A c \in Conns : \A n \in 1 .. MaxEdits :
    handler[c].pc = "live" /\ doc = n
      ~> \/ page[c].text >= n \/ TakenBack(c)
         \/ sock[c] = "broken" \/ c \notin Members
         \/ \E d \in Conns : sock[d] = "stalled"
=============================================================================
