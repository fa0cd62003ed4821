---------------------------- MODULE DeliveryProofs ----------------------------
(***************************************************************************)
(* The theorems about Delivery: what holds of every step of the handlers,  *)
(* the watchers and the failures, for any sets of backends and             *)
(* connections, follows from the inductive invariant of DeliveryInv; so    *)
(* does, in the second half, that Delivery implements OrderedDelivery.     *)
(***************************************************************************)
EXTENDS DeliverySteps, DeliveryRefinement

(* The invariant holds before anything happened.                           *)
LEMMA InitInv == Init => IInv
<1>. SUFFICES ASSUME Init PROVE IInv
  OBVIOUS
<1>1. /\ StoreInit
      /\ room = [b \in Backends |-> NoRoom]
      /\ watcher = [b \in Backends |-> NoWatcher]
      /\ client = [c \in Conns |-> NoClient]
      /\ handler = [c \in Conns |-> NoHandler]
      /\ wire = [c \in Conns |-> NoWire]
      /\ crashes = 0
  BY DEF Init
<1>2. StoreInv
  BY <1>1, StoreInitInv
<1>3. StoreOK
  BY <1>2 DEF StoreInv, StoreOK
<1>4. TypeOK
  <2>1. NoRoom \in RoomType /\ NoWatcher \in WatcherType /\ NoClient \in ClientType
    BY DEF NoRoom, RoomType, NoWatcher, WatcherType, NoClient, ClientType,
           EmptyDoc, Snapshot
  <2>2. NoHandler \in HandlerType
    BY DEF NoHandler, HandlerType, EmptyDoc, Snapshot, Pcs
  <2>3. NoWire \in WireType
    BY DEF NoWire, WireType
  <2>. QED BY <1>1, <1>2, <2>1, <2>2, <2>3 DEF TypeOK, StoreInv
<1>5. exists = FALSE /\ stream = <<>> /\ doc = EmptyDoc /\ Len(stream) = 0
  BY <1>1 DEF StoreInit
<1>6. ASSUME NEW b \in Backends PROVE WatcherOK(b)
  <2>1. watcher[b] = NoWatcher /\ room[b] = NoRoom
    BY <1>1
  <2>. QED BY <1>5, <2>1 DEF WatcherOK, NoWatcher, NoRoom, OnlyLags, EmptyDoc
<1>7. ASSUME NEW c \in Conns PROVE ConnOK(c)
  <2>1. /\ handler[c] = NoHandler /\ client[c] = NoClient /\ wire[c] = NoWire
        /\ \A b \in Backends : room[b] = NoRoom /\ watcher[b] = NoWatcher
    BY <1>1
  <2>2. \A b \in Backends : c \notin room[b].clients \cup watcher[b].left
    BY <2>1 DEF NoRoom, NoWatcher
  <2>3. /\ handler[c].pc = "new" /\ handler[c].home = "none" /\ handler[c].cursor = 0
        /\ client[c].sock = "none" /\ client[c].replaying = FALSE /\ client[c].ticket = 0
        /\ wire[c].updates = <<>> /\ wire[c].states = <<>> /\ wire[c].handoff = -1
        /\ Len(wire[c].updates) = 0 /\ Len(wire[c].states) = 0
    BY <2>1 DEF NoHandler, NoClient, NoWire
  <2>4. MembershipOK(c)
    BY <2>1, <2>2, <2>3 DEF MembershipOK
  <2>5. SnapshotOK(c)
    BY <2>3 DEF SnapshotOK
  <2>6. ReplayOK(c)
    BY <2>3 DEF ReplayOK, Replaying, Serving
  <2>7. LiveOK(c)
    BY <2>3 DEF LiveOK
  <2>8. JoinOK(c)
    BY <2>3 DEF JoinOK, Serving
  <2>. QED BY <2>4, <2>5, <2>6, <2>7, <2>8 DEF ConnOK
<1>. QED BY <1>3, <1>4, <1>6, <1>7 DEF IInv

(* Every step of a handler keeps the invariant.                            *)
LEMMA ServeInv ==
  ASSUME IInv, NEW c \in Conns, Serve(c) PROVE IInv'
BY GetNextInv, ApplySnapshotInv, SnapshotFailsInv, HydrateRoomInv, RegisterInv,
   JoinInv, ReadBoundaryInv, WriteStartedInv, ReadPageInv, VisitEntryInv,
   FinishReplayInv, FlushNextInv, WriteStateInv, EvaluateInv, EvaluateFailsInv,
   ApplyReplyToRoomInv, AcknowledgeInv, AbortInv, RemoveClientInv, CloseConnInv
   DEF Serve

(* Every step of a watcher keeps the invariant.                            *)
LEMMA WatchInv ==
  ASSUME IInv, NEW b \in Backends, Watch(b) PROVE IInv'
BY ReadBatchInv, ApplyEventInv, SnapshotClientsInv, SendInv DEF Watch

(* So does no step at all.                                                 *)
LEMMA StutterInv ==
  ASSUME IInv, UNCHANGED vars PROVE IInv'
<1>1. /\ exists' = exists /\ doc' = doc /\ stream' = stream /\ room' = room
      /\ watcher' = watcher /\ client' = client /\ handler' = handler
      /\ wire' = wire /\ crashes' = crashes
  BY DEF vars
<1>2. TypeOK'
  BY <1>1 DEF IInv, TypeOK, StoreTypeOK
<1>3. StoreOK'
  BY <1>1 DEF IInv, StoreOK, LogIsTheDocument, NoSilentOverwrite
<1>4. ASSUME NEW b \in Backends PROVE WatcherOK(b)'
  BY <1>1 DEF IInv, WatcherOK, OnlyLags
<1>5. ASSUME NEW c \in Conns PROVE ConnOK(c)'
  <2>1. Unaffected(c)
    BY <1>1 DEF Unaffected, IInv, TypeOK, StoreTypeOK, Snapshot, RoomType, Reached
  <2>. QED BY <1>2, <1>3, <2>1, Bystander DEF IInv
<1>. QED BY <1>2, <1>3, <1>4, <1>5 DEF IInv

(* The invariant is inductive.                                             *)
LEMMA NextInv == IInv /\ [Next]_vars => IInv'
<1>. SUFFICES ASSUME IInv, [Next]_vars PROVE IInv'
  OBVIOUS
<1>1. ASSUME NEW b \in Backends, CreateRoom(b) PROVE IInv'
  BY <1>1, BackendCreatesRoomInv
<1>2. ASSUME NEW b \in Backends, Watch(b) PROVE IInv'
  BY <1>2, WatchInv
<1>3. ASSUME NEW b \in Backends, Crash(b) PROVE IInv'
  BY <1>3, CrashInv
<1>4. ASSUME NEW c \in Conns, NEW b \in Backends, NEW k \in Cursors, Connect(c, b, k)
      PROVE  IInv'
  BY <1>4, ConnectInv
<1>5. ASSUME NEW c \in Conns, Serve(c) PROVE IInv'
  BY <1>5, ServeInv
<1>6. ASSUME NEW c \in Conns, ReceiveEdit(c) \/ Disconnect(c) PROVE IInv'
  BY <1>6, ReceiveEditInv, DisconnectInv
<1>7. ASSUME NEW c \in Conns, Reset(c) \/ Stall(c) \/ HeartbeatClose(c) PROVE IInv'
  BY <1>7, ResetInv, StallInv
<1>8. CASE UNCHANGED vars
  BY <1>8, StutterInv
<1>. QED BY <1>1, <1>2, <1>3, <1>4, <1>5, <1>6, <1>7, <1>8 DEF Next

(* The inductive invariant holds in every reachable state, for any number  *)
(* of backends, connections, edits and crashes, and any page size and      *)
(* batch size.                                                             *)
THEOREM DeliveryInvariant == Spec => []IInv
<1>. QED BY InitInv, NextInv, PTL DEF Spec

(* The variables keep the types of the Go structs and locals.              *)
THEOREM DeliveryTypeCorrect == Spec => []TypeOK
<1>1. IInv => TypeOK
  BY DEF IInv
<1>. QED BY <1>1, DeliveryInvariant, PTL

(* Zero gaps, no duplicates, monotonic order: whatever the watcher, the    *)
(* replay, commits of other backends, crashes and stalls do in between,    *)
(* writeContentUpdate, resumeClient and finishReplay write consecutive     *)
(* events to a connection, from its cursor on.                             *)
THEOREM DeliveryInOrder == Spec => []InOrderNoGaps
<1>1. IInv => InOrderNoGaps
  <2>. SUFFICES ASSUME IInv, NEW c \in Conns, NEW i \in 1 .. Len(wire[c].updates)
                PROVE  wire[c].updates[i] =
                         (IF Resumed(c) THEN handler[c].cursor
                          ELSE wire[c].updates[1] - 1) + i
    BY DEF InOrderNoGaps
  <2>1. LiveOK(c)
    BY DEF IInv, ConnOK
  <2>. QED BY <2>1 DEF LiveOK, From
<1>. QED BY <1>1, DeliveryInvariant, PTL

(* finishReplay announces the end of the replay after exactly the events   *)
(* up to the boundary that ReplayBoundary returned.                        *)
THEOREM HandoffCorrect == Spec => []HandoffAtBoundary
<1>1. IInv => HandoffAtBoundary
  <2>. SUFFICES ASSUME IInv, NEW c \in Conns, wire[c].handoff # -1
                PROVE  LET w == wire[c]
                           b == SequenceAt(handler[c].boundary)
                       IN  /\ w.handoff = b - handler[c].cursor
                           /\ \A i \in 1 .. Len(w.updates) :
                                i <= w.handoff <=> w.updates[i] <= b
    BY DEF HandoffAtBoundary
  <2>. PICK h \in HandlerType, w \in WireType : h = handler[c] /\ w = wire[c]
    BY DEF IInv, TypeOK
  <2>1. /\ h.boundary <= Len(stream)
        /\ w.handoff = h.boundary - h.cursor
        /\ Resumed(c) /\ LiveOK(c)
    BY DEF IInv, ConnOK, LiveOK
  <2>2. /\ h.boundary \in Nat /\ h.cursor \in Nat /\ Len(stream) \in Nat
        /\ Len(w.updates) \in Nat
    <3>1. w.updates \in Seq(Nat)
      BY DEF WireType
    <3>2. Len(stream) \in Nat
      BY StoreFacts DEF IInv
    <3>. QED BY <3>1, <3>2 DEF HandlerType
  <2>3. SequenceAt(h.boundary) = h.boundary
    BY <2>1, <2>2, StoreFacts DEF IInv
  <2>4. \A i \in 1 .. Len(w.updates) : w.updates[i] = h.cursor + i
    BY <2>1 DEF LiveOK, From
  <2>5. \A i \in 1 .. Len(w.updates) : i <= w.handoff <=> w.updates[i] <= h.boundary
    <3>. SUFFICES ASSUME NEW i \in 1 .. Len(w.updates)
                  PROVE  i <= h.boundary - h.cursor <=> h.cursor + i <= h.boundary
      BY <2>1, <2>4
    <3>. QED BY ONLY <2>2, i \in 1 .. Len(w.updates)
  <2>. QED BY <2>1, <2>3, <2>5
<1>. QED BY <1>1, DeliveryInvariant, PTL

(* serveWS registers a fresh client before it reads the snapshot of its    *)
(* first room_state, so that no event falls between the two.               *)
THEOREM JoinCorrect == Spec => []NothingMissedOnJoin
<1>1. IInv => NothingMissedOnJoin
  BY DEF IInv, ConnOK, JoinOK, NothingMissedOnJoin
<1>. QED BY <1>1, DeliveryInvariant, PTL

(* The torn snapshots of GetSnapshot, in cached rooms and in room_state    *)
(* messages, pair an older text with a newer version, never the reverse.   *)
THEOREM SnapshotsLag == Spec => []SnapshotsOnlyLag
<1>1. IInv => SnapshotsOnlyLag
  BY DEF IInv, WatcherOK, ConnOK, SnapshotOK, SnapshotsOnlyLag
<1>. QED BY <1>1, DeliveryInvariant, PTL

(* A cached document that is the same is not older.                        *)
LEMMA RoomKept ==
  ASSUME TypeOK, NEW b \in Backends, room[b].cached, room'[b].cached,
         room'[b].snap = room[b].snap
  PROVE  room[b].snap.sequence <= room'[b].snap.sequence
BY DEF TypeOK, RoomType, Snapshot

(* applySnapshot refuses an older document.                                *)
LEMMA RefreshNotOlder ==
  ASSUME NEW r \in RoomType, NEW snap \in Snapshot
  PROVE  r.snap.sequence <= Refreshed(r, snap).snap.sequence
<1>1. r.snap.sequence \in Nat /\ snap.sequence \in Nat
  BY DEF RoomType, Snapshot
<1>2. CASE snap.sequence < r.snap.sequence
  BY <1>1, <1>2 DEF Refreshed
<1>3. CASE ~(snap.sequence < r.snap.sequence)
  <2>1. Refreshed(r, snap).snap = snap
    BY <1>3 DEF Refreshed, RoomType
  <2>. QED BY <1>1, <1>3, <2>1
<1>. QED BY <1>2, <1>3

(* No step of a handler takes a cached room back.                          *)
LEMMA ServeKeepsRoom ==
  ASSUME IInv, NEW c \in Conns, Serve(c), NEW b \in Backends,
         room[b].cached, room'[b].cached
  PROVE  room[b].snap.sequence <= room'[b].snap.sequence
<1>. PICK h \in HandlerType, r \in RoomType : h = handler[c] /\ r = room[b]
  BY DEF IInv, TypeOK
<1>1. h.snap \in Snapshot /\ TypeOK
  BY DEF HandlerType, IInv
<1>2. CASE ApplySnapshot(c) \/ ApplyReplyToRoom(c)
  <2>1. room' = [room EXCEPT ![h.home] = Refreshed(room[h.home], h.snap)]
    BY <1>2 DEF ApplySnapshot, ApplyReplyToRoom, Home
  <2>2. room'[b] = IF b = h.home THEN Refreshed(r, h.snap) ELSE r
    BY <1>1, <2>1 DEF TypeOK
  <2>. QED BY <1>1, <2>2, RefreshNotOlder, RoomKept
<1>3. CASE HydrateRoom(c)
  <2>1. room'[b] = room[b]
    BY <1>1, <1>3 DEF HydrateRoom, Home, TypeOK
  <2>. QED BY <1>1, <2>1, RoomKept
<1>4. CASE Register(c) \/ RemoveClient(c)
  <2>1. room'[b].snap = room[b].snap
    BY <1>1, <1>4 DEF Register, RemoveClient, Home, TypeOK, RoomType
  <2>. QED BY <1>1, <2>1, RoomKept
<1>5. CASE room' = room
  BY <1>1, <1>5, RoomKept
<1>. QED BY <1>2, <1>3, <1>4, <1>5
   DEF Serve, GetNext, SnapshotFails, Join, ReadBoundary, WriteStarted, ReadPage,
       VisitEntry, FinishReplay, FlushNext, WriteState, Evaluate, EvaluateFails,
       Acknowledge, Abort, CloseConn

(* No step of a watcher takes a cached room back: ApplyDistributedEvent    *)
(* refuses an event the room already holds.                                *)
LEMMA WatchKeepsRoom ==
  ASSUME IInv, NEW a \in Backends, Watch(a), NEW b \in Backends,
         room[b].cached, room'[b].cached
  PROVE  room[b].snap.sequence <= room'[b].snap.sequence
<1>. PICK w \in WatcherType, r \in RoomType : w = watcher[a] /\ r = room[a]
  BY DEF IInv, TypeOK
<1>1. TypeOK /\ r.snap.sequence \in Nat
  BY DEF IInv, RoomType, Snapshot
<1>2. CASE room' = room
  BY <1>1, <1>2, RoomKept
<1>3. CASE ApplyEvent(a) /\ room' # room
  <2>. DEFINE id == w.cursor + 1
              e == stream[id]
  <2>1. id \in 1 .. Len(stream)
    <3>1. w.cursor < w.batchEnd /\ w.batchEnd <= Len(stream)
      BY <1>3 DEF IInv, WatcherOK, ApplyEvent
    <3>2. w.cursor \in Nat /\ w.batchEnd \in Nat /\ Len(stream) \in Nat
      BY StoreFacts DEF IInv, WatcherType
    <3>. QED BY <3>1, <3>2
  <2>2. e.sequence \in Nat
    <3>. HIDE DEF id
    <3>1. e \in StreamEntry
      BY <1>1, <2>1, Elements DEF TypeOK, StoreTypeOK
    <3>. QED BY <3>1 DEF StreamEntry
  <2>3. /\ ~(e.sequence <= r.snap.sequence)
        /\ room' = [room EXCEPT ![a].snap = [content  |-> e.content,
                                             version  |-> e.version,
                                             sequence |-> e.sequence]]
    BY <1>3 DEF ApplyEvent
  <2>. HIDE DEF id, e
  <2>4. CASE a = b
    <3>1. room'[b].snap.sequence = e.sequence
      BY <1>1, <2>3, <2>4 DEF TypeOK, RoomType
    <3>. QED BY <1>1, <2>2, <2>3, <2>4, <3>1
  <2>5. CASE a # b
    <3>1. room'[b] = room[b]
      BY <1>1, <2>3, <2>5 DEF TypeOK
    <3>. QED BY <1>1, <3>1, RoomKept
  <2>. QED BY <2>4, <2>5
<1>. QED BY <1>2, <1>3 DEF Watch, ReadBatch, SnapshotClients, Send

(* The cached room of a backend never goes back, whichever of the replies, *)
(* snapshots and stream events of its goroutines reaches applySnapshot and *)
(* ApplyDistributedEvent first.                                            *)
THEOREM RoomSequenceCorrect == Spec => RoomNeverRegresses
<1>1. ASSUME IInv, [Next]_vars
      PROVE  [\A b \in Backends : room[b].cached /\ room'[b].cached =>
                room[b].snap.sequence <= room'[b].snap.sequence]_vars
  <2>. SUFFICES ASSUME NEW b \in Backends, room[b].cached, room'[b].cached, Next
                PROVE  room[b].snap.sequence <= room'[b].snap.sequence
    BY <1>1
  <2>1. TypeOK
    BY <1>1 DEF IInv
  <2>2. ASSUME NEW a \in Backends, CreateRoom(a)
        PROVE  room[b].snap.sequence <= room'[b].snap.sequence
    <3>1. CASE a = b
      <4>1. ~exists
        BY <2>2, DeliveryAssumption DEF CreateRoom, CreateRoomScript
      <4>2. Len(stream) = 0
        BY <1>1, <4>1 DEF IInv, StoreOK
      <4>3. room[b].snap.sequence <= 0
        BY <1>1, <4>2, StoreFacts DEF IInv, WatcherOK, OnlyLags
      <4>4. room'[b].snap.sequence = 0
        BY <2>1, <2>2, <3>1 DEF CreateRoom, NoRoom, EmptyDoc, TypeOK
      <4>. QED BY <4>3, <4>4
    <3>2. CASE a # b
      <4>1. room'[b] = room[b]
        BY <2>1, <2>2, <3>2 DEF CreateRoom, TypeOK
      <4>. QED BY <2>1, <4>1, RoomKept
    <3>. QED BY <3>1, <3>2
  <2>3. ASSUME NEW a \in Backends, Crash(a)
        PROVE  room[b].snap.sequence <= room'[b].snap.sequence
    <3>1. CASE a = b
      BY <2>1, <2>3, <3>1 DEF Crash, NoRoom, TypeOK
    <3>2. CASE a # b
      <4>1. room'[b] = room[b]
        BY <2>1, <2>3, <3>2 DEF Crash, TypeOK
      <4>. QED BY <2>1, <4>1, RoomKept
    <3>. QED BY <3>1, <3>2
  <2>4. ASSUME NEW a \in Backends, Watch(a)
        PROVE  room[b].snap.sequence <= room'[b].snap.sequence
    BY <1>1, <2>4, WatchKeepsRoom
  <2>5. ASSUME NEW c \in Conns, Serve(c)
        PROVE  room[b].snap.sequence <= room'[b].snap.sequence
    BY <1>1, <2>5, ServeKeepsRoom
  <2>6. CASE room' = room
    BY <2>1, <2>6, RoomKept
  <2>. QED BY <2>2, <2>3, <2>4, <2>5, <2>6
       DEF Next, Connect, ReceiveEdit, Disconnect, Reset, Stall, HeartbeatClose
<1>. QED BY <1>1, DeliveryInvariant, PTL DEF Spec, RoomNeverRegresses

(* Under any interleaving of the backends the composed system does to      *)
(* Redis what the store on its own may do: no handler runs the edit script *)
(* on a room that was never created, and no other action touches a key.    *)
THEOREM DeliveryImplementsStore == Spec => StoreSpec
<1>1. Init => StoreInit
  BY DEF Init
<1>2. IInv /\ [Next]_vars => [StoreNext]_storeVars
  <2>. SUFFICES ASSUME IInv, [Next]_vars PROVE [StoreNext]_storeVars
    OBVIOUS
  <2>1. ASSUME NEW b \in Backends, CreateRoom(b) PROVE [StoreNext]_storeVars
    BY <2>1 DEF CreateRoom, StoreNext
  <2>2. ASSUME NEW c \in Conns, Evaluate(c) PROVE [StoreNext]_storeVars
    <3>1. exists
      BY <2>2 DEF Evaluate, IInv, ConnOK, MembershipOK
    <3>. QED BY <2>2, <3>1 DEF Evaluate, StoreNext
  <2>3. CASE UNCHANGED storeVars
    BY <2>3
  <2>4. ASSUME NEW c \in Conns, Serve(c), ~Evaluate(c) PROVE UNCHANGED storeVars
    BY <2>4 DEF storeVars, Serve, GetNext, ApplySnapshot, SnapshotFails,
           HydrateRoom, Register, Join, ReadBoundary, WriteStarted, ReadPage,
           VisitEntry, FinishReplay, FlushNext, WriteState, EvaluateFails,
           ApplyReplyToRoom, Acknowledge, Abort, RemoveClient, CloseConn
  <2>5. ASSUME NEW b \in Backends, Watch(b) \/ Crash(b) PROVE UNCHANGED storeVars
    BY <2>5 DEF storeVars, Watch, ReadBatch, ApplyEvent, SnapshotClients, Send, Crash
  <2>6. ASSUME NEW c \in Conns, NEW b \in Backends, NEW k \in Cursors, Connect(c, b, k)
        PROVE  UNCHANGED storeVars
    BY <2>6 DEF storeVars, Connect
  <2>7. ASSUME NEW c \in Conns,
               \/ ReceiveEdit(c) \/ Disconnect(c)
               \/ Reset(c) \/ Stall(c) \/ HeartbeatClose(c)
        PROVE  UNCHANGED storeVars
    BY <2>7 DEF storeVars, ReceiveEdit, Disconnect, Reset, Stall, HeartbeatClose
  <2>8. CASE UNCHANGED vars
    BY <2>3, <2>8 DEF vars, storeVars
  <2>. QED BY <2>1, <2>2, <2>3, <2>4, <2>5, <2>6, <2>7, <2>8 DEF Next
<1>. QED BY <1>1, <1>2, DeliveryInvariant, PTL DEF Spec, StoreSpec

(* A page before the last expected entry is never empty.                   *)
LEMMA ReadPageFinds ==
  ASSUME IInv, NEW c \in Conns, ReadPage(c) PROVE handler'[c].pc # "closing"
<1>. PICK h \in HandlerType : h = handler[c]
  BY DEF IInv, TypeOK
<1>. DEFINE end == IF h.at + PageSize < h.boundary THEN h.at + PageSize ELSE h.boundary
<1>1. h.pc = "page" /\ ReplayOK(c)
  BY DEF ReadPage, IInv, ConnOK
<1>2. /\ h.cursor \in Nat /\ h.boundary \in Nat /\ h.at \in Nat /\ h.expected \in Nat
      /\ PageSize \in Nat \ {0}
  BY DeliveryAssumption DEF HandlerType
<1>3. /\ h.cursor <= h.boundary /\ h.boundary <= Len(stream) /\ h.at <= h.boundary
      /\ h.expected = (IF h.at < h.cursor THEN h.cursor ELSE h.at) + 1
  BY <1>1 DEF ReplayOK
<1>4. SequenceAt(h.boundary) = h.boundary
  BY <1>2, <1>3, StoreFacts DEF IInv
<1>5. h.expected > h.boundary \/ h.at # end
  BY <1>2, <1>3
<1>6. handler'[c].pc = IF h.expected > h.boundary THEN "finish"
                      ELSE IF h.at = end THEN "closing" ELSE "visit"
  BY <1>4 DEF ReadPage, IInv, TypeOK, HandlerType
<1>. HIDE DEF end
<1>. QED BY <1>5, <1>6

(* The next entry is never a gap.                                          *)
LEMMA VisitEntryFinds ==
  ASSUME IInv, NEW c \in Conns, VisitEntry(c) PROVE handler'[c].pc # "closing"
<1>. PICK h \in HandlerType : h = handler[c]
  BY DEF IInv, TypeOK
<1>1. h.pc = "visit" /\ ReplayOK(c)
  BY DEF VisitEntry, IInv, ConnOK
<1>2. /\ h.cursor \in Nat /\ h.boundary \in Nat /\ h.at \in Nat /\ h.expected \in Nat
      /\ h.pageEnd \in Nat /\ Len(stream) \in Nat
  BY StoreFacts DEF IInv, HandlerType
<1>3. /\ h.cursor <= h.boundary /\ h.boundary <= Len(stream)
      /\ h.at < h.pageEnd /\ h.pageEnd <= h.boundary
      /\ h.expected = (IF h.at < h.cursor THEN h.cursor ELSE h.at) + 1
  BY <1>1 DEF ReplayOK
<1>4. SequenceAt(h.at + 1) = h.at + 1 /\ SequenceAt(h.boundary) = h.boundary
  <2>1. h.at + 1 \in 0 .. Len(stream) /\ h.boundary \in 0 .. Len(stream)
    BY <1>2, <1>3
  <2>. QED BY <2>1, StoreFacts DEF IInv
<1>. DEFINE skip == h.at + 1 <= h.cursor
            gap  == ~skip /\ (h.at + 1 # h.expected \/ h.at + 1 > h.boundary)
            pc   == IF h.at + 1 = h.pageEnd THEN "page" ELSE "visit"
            e    == IF skip THEN h.expected ELSE (h.at + 1) + 1
<1>5. ~gap
  BY <1>2, <1>3
<1>6. IF gap THEN Return(c, "closing")
      ELSE handler' = [handler EXCEPT ![c] =
             [@ EXCEPT !.at = h.at + 1, !.pc = pc, !.expected = e]]
  BY <1>4 DEF VisitEntry
<1>. HIDE DEF gap, skip, e
<1>7. handler' = [handler EXCEPT ![c] =
             [@ EXCEPT !.at = h.at + 1, !.pc = pc, !.expected = e]]
  BY <1>5, <1>6
<1>8. handler'[c].pc = pc
  BY <1>7 DEF IInv, TypeOK, HandlerType
<1>. QED BY <1>8

(* A handler does not touch the locals of another one.                     *)
LEMMA ServeOthers ==
  ASSUME IInv, NEW d \in Conns, NEW c \in Conns, c # d, Serve(d)
  PROVE  handler'[c] = handler[c]
<1>1. ASSUME NEW pc, Return(d, pc) \/ Goto(d, pc) PROVE handler'[c] = handler[c]
  BY <1>1 DEF Return, Goto, IInv, TypeOK
<1>2. ASSUME NEW snap, AfterSnapshot(d, snap) PROVE handler'[c] = handler[c]
  BY <1>1, <1>2 DEF AfterSnapshot, IInv, TypeOK
<1>3. CASE \/ GetNext(d) \/ Join(d) \/ ReadBoundary(d) \/ ReadPage(d)
  BY <1>3 DEF GetNext, Join, ReadBoundary, ReadPage, IInv, TypeOK
<1>4. CASE ApplySnapshot(d) \/ SnapshotFails(d)
  BY <1>1, <1>2, <1>4 DEF ApplySnapshot, SnapshotFails
<1>5. CASE \/ HydrateRoom(d) \/ Register(d) \/ WriteStarted(d)
           \/ WriteState(d) \/ EvaluateFails(d) \/ ApplyReplyToRoom(d)
           \/ Acknowledge(d) \/ Abort(d) \/ RemoveClient(d) \/ CloseConn(d)
  BY <1>1, <1>5 DEF HydrateRoom, Register, WriteStarted, WriteState,
     EvaluateFails, ApplyReplyToRoom, Acknowledge, Abort, RemoveClient, CloseConn
<1>6. CASE Evaluate(d)
  BY <1>1, <1>6 DEF Evaluate, IInv, TypeOK
<1>7. CASE VisitEntry(d)
  BY <1>1, <1>7 DEF VisitEntry, IInv, TypeOK
<1>8. CASE FinishReplay(d) \/ FlushNext(d)
  BY <1>1, <1>8 DEF FinishReplay, FlushNext, HandedOver
<1>. QED BY <1>3, <1>4, <1>5, <1>6, <1>7, <1>8 DEF Serve

(* A replay that is given up half-way was aborted.                         *)
LEMMA ServeFinds ==
  ASSUME IInv, NEW c \in Conns, Serve(c),
         handler[c].pc \in {"page", "visit"}, handler'[c].pc = "closing"
  PROVE  client[c].sock = "broken" \/ "redis" \in Faults
<1>1. CASE Abort(c)
  BY <1>1 DEF Abort
<1>2. CASE ReadPage(c) \/ VisitEntry(c)
  BY <1>2, ReadPageFinds, VisitEntryFinds
<1>. QED BY <1>1, <1>2
     DEF Serve, GetNext, ApplySnapshot, SnapshotFails, HydrateRoom, Register, Join,
         ReadBoundary, WriteStarted, FinishReplay, FlushNext, HandedOver, WriteState,
         Evaluate, EvaluateFails, ApplyReplyToRoom, Acknowledge, RemoveClient, CloseConn

(* EventsAfterSequence finds every event up to the boundary: only a lost   *)
(* socket or a failing Redis ends a replay before its end.                 *)
THEOREM ReplayCorrect == Spec => ReplayFindsNoGap
<1>1. ASSUME IInv, [Next]_vars
      PROVE  [\A c \in Conns :
                handler[c].pc \in {"page", "visit"} /\ handler'[c].pc = "closing" =>
                  client[c].sock = "broken" \/ "redis" \in Faults]_vars
  <2>. SUFFICES ASSUME NEW c \in Conns, Next,
                       handler[c].pc \in {"page", "visit"}, handler'[c].pc = "closing"
                PROVE  client[c].sock = "broken" \/ "redis" \in Faults
    BY <1>1
  <2>1. handler'[c] # handler[c] /\ handler[c].pc # "new" /\ TypeOK
    BY <1>1 DEF IInv
  <2>2. ASSUME NEW d \in Conns, Serve(d)
        PROVE  client[c].sock = "broken" \/ "redis" \in Faults
    <3>1. d = c
      BY <1>1, <2>1, <2>2, ServeOthers
    <3>. QED BY <1>1, <2>2, <3>1, ServeFinds
  <2>3. ASSUME NEW b \in Backends, Crash(b) PROVE FALSE
    <3>1. \/ handler'[c] = handler[c]
          \/ handler'[c].pc = "closed"
      BY <2>3 DEF Crash, NoHandler
    <3>. QED BY <2>1, <3>1
  <2>4. ASSUME NEW d \in Conns, NEW b \in Backends, NEW k \in Cursors, Connect(d, b, k)
        PROVE  FALSE
    BY <2>1, <2>4 DEF Connect, TypeOK
  <2>5. ASSUME NEW d \in Conns, ReceiveEdit(d) \/ Disconnect(d) PROVE FALSE
    BY <2>1, <2>5 DEF ReceiveEdit, Disconnect, Return, TypeOK
  <2>6. CASE handler' = handler
    BY <2>1, <2>6
  <2>. QED BY <2>2, <2>3, <2>4, <2>5, <2>6
       DEF Next, CreateRoom, Watch, ReadBatch, ApplyEvent, SnapshotClients, Send,
           Reset, Stall, HeartbeatClose
<1>. QED BY <1>1, DeliveryInvariant, PTL DEF Spec, ReplayFindsNoGap

(* Each step of resumeClient between the boundary and the end of the loop  *)
(* is one nearer to that boundary.                                         *)
LEMMA ServeGetsCloser ==
  ASSUME IInv, NEW c \in Conns, Serve(c), Looping(handler[c]), Looping(handler'[c])
  PROVE  0 <= Distance(c)' /\ Distance(c)' < Distance(c)
<1>. PICK h \in HandlerType : h = handler[c]
  BY DEF IInv, TypeOK
<1>1. h.pc \in {"started", "page", "visit"} /\ ReplayOK(c)
  BY DEF Looping, IInv, ConnOK
<1>2. h.boundary \in Nat /\ h.at \in Nat /\ h.pageEnd \in Nat /\ h.at <= h.boundary
  BY <1>1 DEF HandlerType, ReplayOK
<1>3. ASSUME NEW pc, Return(c, pc) PROVE handler'[c].pc = pc
  BY <1>3 DEF Return, IInv, TypeOK, HandlerType
<1>4. CASE WriteStarted(c)
  <2>1. h.pc = "started" /\ handler'[c] = [h EXCEPT !.pc = "page"]
    BY <1>4 DEF WriteStarted, Goto, IInv, TypeOK
  <2>2. /\ handler'[c].pc = "page" /\ handler'[c].at = h.at
        /\ handler'[c].boundary = h.boundary
    BY <2>1 DEF HandlerType
  <2>. QED BY <1>2, <2>1, <2>2 DEF Distance
<1>5. CASE ReadPage(c)
  <2>1. PICK n, pc : handler'[c] = [h EXCEPT !.pageEnd = n, !.pc = pc]
    BY <1>5 DEF ReadPage, IInv, TypeOK
  <2>2. /\ handler'[c].pc = pc /\ handler'[c].at = h.at
        /\ handler'[c].boundary = h.boundary
    BY <2>1 DEF HandlerType
  <2>3. h.pc = "page" /\ handler'[c].pc \in {"finish", "closing", "visit"}
    BY <1>5 DEF ReadPage, IInv, TypeOK, HandlerType
  <2>4. handler'[c].pc = "visit"
    BY <2>3 DEF Looping
  <2>. QED BY <1>2, <2>2, <2>3, <2>4 DEF Distance
<1>6. CASE VisitEntry(c)
  <2>1. h.pc = "visit" /\ h.at < h.pageEnd /\ h.pageEnd <= h.boundary
    BY <1>1, <1>6 DEF VisitEntry, ReplayOK
  <2>. DEFINE id == h.at + 1
              s == SequenceAt(id)
              pc == IF id = h.pageEnd THEN "page" ELSE "visit"
              skip == s <= h.cursor
              gap == ~skip /\ (s # h.expected \/ s > SequenceAt(h.boundary))
              e == IF skip THEN h.expected ELSE s + 1
  <2>2. IF gap THEN Return(c, "closing")
        ELSE handler' = [handler EXCEPT ![c] =
               [@ EXCEPT !.at = id, !.pc = pc, !.expected = e]]
    BY <1>6 DEF VisitEntry
  <2>. HIDE DEF gap, e
  <2>3. ~gap
    BY <1>3, <2>2 DEF Looping
  <2>4. handler'[c] = [h EXCEPT !.at = id, !.pc = pc, !.expected = e]
    BY <2>2, <2>3 DEF IInv, TypeOK
  <2>5. /\ handler'[c].pc \in {"page", "visit"} /\ handler'[c].at = h.at + 1
        /\ handler'[c].boundary = h.boundary
    BY <2>4 DEF HandlerType
  <2>. QED BY <1>2, <2>1, <2>5 DEF Distance
<1>7. ASSUME Abort(c) PROVE FALSE
  BY <1>3, <1>7 DEF Abort, Looping
<1>. QED BY <1>1, <1>4, <1>5, <1>6, <1>7
     DEF Serve, GetNext, ApplySnapshot, SnapshotFails, HydrateRoom, Register, Join,
         ReadBoundary, FinishReplay, FlushNext, WriteState, Evaluate, EvaluateFails,
         ApplyReplyToRoom, Acknowledge, RemoveClient, CloseConn

(* "Capturing a fixed replay boundary makes the recovery interval finite"  *)
(* (README.md:317): a replay gets nearer to its boundary with each of its  *)
(* steps, however many edits are committed to the stream meanwhile, by     *)
(* however many backends, and whatever the page size.                      *)
THEOREM ReplayIsFinite == Spec => ReplayGetsCloser
<1>1. ASSUME IInv, [Next]_vars
      PROVE  [\A c \in Conns :
                Looping(handler[c]) /\ Looping(handler'[c]) =>
                  \/ handler'[c] = handler[c]
                  \/ 0 <= Distance(c)' /\ Distance(c)' < Distance(c)]_vars
  <2>. SUFFICES ASSUME NEW c \in Conns, Next, Looping(handler[c]), Looping(handler'[c]),
                       handler'[c] # handler[c]
                PROVE  0 <= Distance(c)' /\ Distance(c)' < Distance(c)
    BY <1>1
  <2>1. TypeOK /\ handler[c].pc \in {"started", "page", "visit"}
    BY <1>1 DEF IInv, Looping
  <2>2. ASSUME NEW d \in Conns, Serve(d)
        PROVE  0 <= Distance(c)' /\ Distance(c)' < Distance(c)
    <3>1. d = c
      BY <1>1, <2>2, ServeOthers
    <3>. QED BY <1>1, <2>2, <3>1, ServeGetsCloser
  <2>3. ASSUME NEW b \in Backends, Crash(b) PROVE FALSE
    <3>1. \/ handler'[c] = handler[c]
          \/ handler'[c].pc = "closed"
      BY <2>3 DEF Crash, NoHandler
    <3>. QED BY <3>1 DEF Looping
  <2>4. ASSUME NEW d \in Conns, NEW b \in Backends, NEW k \in Cursors, Connect(d, b, k)
        PROVE  FALSE
    BY <2>1, <2>4 DEF Connect, TypeOK
  <2>5. ASSUME NEW d \in Conns, ReceiveEdit(d) \/ Disconnect(d) PROVE FALSE
    BY <2>1, <2>5 DEF ReceiveEdit, Disconnect, Return, TypeOK
  <2>6. CASE handler' = handler
    BY <2>6
  <2>. QED BY <2>2, <2>3, <2>4, <2>5, <2>6
       DEF Next, CreateRoom, Watch, ReadBatch, ApplyEvent, SnapshotClients, Send,
           Reset, Stall, HeartbeatClose
<1>. QED BY <1>1, DeliveryInvariant, PTL DEF Spec, ReplayGetsCloser

-----------------------------------------------------------------------------
(* The refinement.  The invariant says at each of the three places where   *)
(* an event is written which event it is: the replay loop, the flush at    *)
(* the end of the replay and the broadcast of the watcher.                 *)

\* Connections keep their cursors, the log and what they were sent.
KeepsCursors == \A d \in Conns : handler'[d].cursor = handler[d].cursor
KeepsUpdates == \A d \in Conns : wire'[d].updates = wire[d].updates

LEMMA Stutters ==
  ASSUME KeepsCursors, KeepsUpdates, stream' = stream
  PROVE  UNCHANGED Promise!vars
<1>1. LogOfStream' = LogOfStream
  BY DEF LogOfStream
<1>2. CursorOf' = CursorOf
  BY DEF CursorOf, KeepsCursors
<1>3. SentOnWire' = SentOnWire
  BY DEF SentOnWire, KeepsUpdates
<1>. QED BY <1>1, <1>2, <1>3 DEF Promise!vars

(* Only connection c is sent something, and it is what comes next.         *)
LEMMA Delivers ==
  ASSUME NEW c \in Conns, KeepsCursors, stream' = stream, Len(stream) \in Nat,
         \A d \in Conns \ {c} : wire'[d].updates = wire[d].updates,
         NEW n \in 1 .. Len(stream),
         IF wire[c].updates # <<>>
         THEN n = wire[c].updates[Len(wire[c].updates)] + 1
         ELSE handler[c].cursor > 0 => n = handler[c].cursor + 1,
         wire'[c].updates = Append(wire[c].updates, n)
  PROVE  Promise!Next
<1>1. LogOfStream' = LogOfStream /\ CursorOf' = CursorOf
  BY DEF LogOfStream, CursorOf, KeepsCursors
<1>2. SentOnWire' = [SentOnWire EXCEPT ![c] = Append(@, n)]
  BY DEF SentOnWire
<1>3. n \in 1 .. Len(LogOfStream)
  BY DEF LogOfStream
<1>4. Promise!FollowsOn(c, n)
  BY DEF Promise!FollowsOn, SentOnWire, CursorOf
<1>5. Promise!Deliver(c)
  BY <1>1, <1>2, <1>3, <1>4 DEF Promise!Deliver
<1>. QED BY <1>5 DEF Promise!Next

-----------------------------------------------------------------------------
\* The three places where an event is written

LEMMA VisitEntryDelivers ==
  ASSUME IInv, NEW c \in Conns, VisitEntry(c), KeepsCursors
  PROVE  Promise!Next \/ UNCHANGED Promise!vars
<1>. PICK h \in HandlerType, w \in WireType : h = handler[c] /\ w = wire[c]
  BY DEF IInv, TypeOK
<1>1. h.pc = "visit" /\ ReplayOK(c) /\ LiveOK(c) /\ stream' = stream
  BY DEF VisitEntry, IInv, ConnOK
<1>2. /\ h.cursor \in Nat /\ h.boundary \in Nat /\ h.at \in Nat /\ h.expected \in Nat
      /\ h.pageEnd \in Nat /\ Len(stream) \in Nat /\ w.updates \in Seq(Nat)
  BY StoreFacts DEF IInv, HandlerType, WireType
<1>3. /\ h.boundary <= Len(stream) /\ h.cursor < h.expected
      /\ h.at < h.pageEnd /\ h.pageEnd <= h.boundary
      /\ h.expected = (IF h.at < h.cursor THEN h.cursor ELSE h.at) + 1
      /\ Len(w.updates) = h.expected - h.cursor - 1 /\ h.cursor > 0
  BY <1>1 DEF ReplayOK, Resumed, Replaying
<1>4. SequenceAt(h.at + 1) = h.at + 1
  <2>1. h.at + 1 \in 0 .. Len(stream)
    BY <1>2, <1>3
  <2>. QED BY <2>1, StoreFacts DEF IInv
<1>5. CASE wire' = wire
  BY <1>1, <1>5, Stutters DEF KeepsUpdates
<1>6. CASE wire' # wire
  <2>1. /\ wire' = [wire EXCEPT ![c] = Written(@, <<h.at + 1>>)]
        /\ ~(h.at + 1 <= h.cursor)
    BY <1>4, <1>6 DEF VisitEntry
  <2>2. wire'[c].updates = w.updates \o <<h.at + 1>>
    BY <2>1 DEF Written, IInv, TypeOK, WireType
  <2>3. \A d \in Conns \ {c} : wire'[d].updates = wire[d].updates
    BY <2>1 DEF IInv, TypeOK
  <2>4. h.expected = h.at + 1 /\ Len(w.updates) = h.at - h.cursor
    BY <1>2, <1>3, <2>1
  <2>5. w.updates \o <<h.at + 1>> = Append(w.updates, h.at + 1)
    BY <1>2
  <2>6. w.updates # <<>> => h.at = w.updates[Len(w.updates)]
    <3>1. \A i \in 1 .. Len(w.updates) : w.updates[i] = h.cursor + i
      BY <1>1, <1>3 DEF LiveOK, From, Resumed
    <3>2. w.updates # <<>> => Len(w.updates) \in 1 .. Len(w.updates)
      BY <1>2
    <3>3. h.cursor + Len(w.updates) = h.at
      BY <1>2, <2>4
    <3>. QED BY <3>1, <3>2, <3>3
  <2>7. w.updates = <<>> => h.at = h.cursor
    BY <1>2, <2>4
  <2>8. PICK n \in 1 .. Len(stream) : n = h.at + 1
    BY <1>2, <1>3
  <2>. QED BY <1>1, <1>2, <2>2, <2>3, <2>5, <2>6, <2>7, <2>8, Delivers
<1>. QED BY <1>5, <1>6

LEMMA SendDelivers ==
  ASSUME IInv, NEW b \in Backends, NEW c \in Conns, Send(b, c), KeepsCursors
  PROVE  Promise!Next \/ UNCHANGED Promise!vars
<1>. PICK v \in WatcherType, h \in HandlerType, k \in ClientType, w \in WireType :
        v = watcher[b] /\ h = handler[c] /\ k = client[c] /\ w = wire[c]
  BY DEF IInv, TypeOK
<1>1. /\ WatcherOK(b) /\ ConnOK(c) /\ v.pc = "send" /\ c \in v.left
      /\ stream' = stream /\ Len(stream) \in Nat /\ v.cursor \in Nat
      /\ v.initial \in Nat /\ v.batchEnd \in Nat /\ w.updates \in Seq(Nat)
      /\ h.cursor \in Nat /\ k.lastSequence \in Nat
  BY StoreFacts DEF Send, IInv, WatcherType, WireType, HandlerType, ClientType
<1>2. v.cursor > v.initial /\ v.cursor <= v.batchEnd /\ v.batchEnd <= Len(stream)
  BY <1>1 DEF WatcherOK
<1>3. h.home = b /\ k.ticket > 0 /\ Following(c)
  BY <1>1 DEF ConnOK, MembershipOK, Following, Home
<1>4. Reached(b, c) = v.cursor - 1
  BY <1>1, <1>2 DEF Reached
<1>5. SequenceAt(v.cursor) = v.cursor
  BY <1>1, <1>2, StoreFacts DEF IInv
<1>6. PICK x \in ClientType, y \in WireType : Delivered(c, v.cursor, x, y)
  BY <1>1, <1>5, Updated DEF Send, IInv
<1>7. \A d \in Conns \ {c} : wire'[d].updates = wire[d].updates
  BY <1>6 DEF Delivered, IInv, TypeOK
<1>8. wire'[c].updates = y.updates
  BY <1>6 DEF Delivered, IInv, TypeOK
<1>9. CASE ~k.replaying /\ v.cursor > k.lastSequence /\ k.sock = "open"
  <2>1. y.updates = Append(w.updates, v.cursor)
    BY <1>6, <1>9 DEF Delivered
  <2>2. LiveOK(c) /\ Usable(c)
    BY <1>1, <1>9 DEF ConnOK, Usable
  <2>3. Started(c) => v.cursor = From(c) + Len(w.updates) + 1
    <3>1. Started(c) => k.lastSequence = From(c) + Len(w.updates)
                        /\ v.cursor - 1 <= k.lastSequence
      BY <1>3, <1>4, <1>9, <2>2 DEF LiveOK, Home
    <3>. QED BY <1>1, <1>9, <3>1
  <2>4. w.updates # <<>> => v.cursor = w.updates[Len(w.updates)] + 1
    <3>1. \A i \in 1 .. Len(w.updates) : w.updates[i] = From(c) + i
      BY <2>2 DEF LiveOK
    <3>2. w.updates # <<>> => Len(w.updates) \in 1 .. Len(w.updates)
      BY <1>1
    <3>3. w.updates # <<>> => Started(c)
      BY DEF Started
    <3>. QED BY <2>3, <3>1, <3>2, <3>3
  <2>5. w.updates = <<>> => (h.cursor > 0 => v.cursor = h.cursor + 1)
    BY <1>1, <2>3 DEF Started, Resumed, From
  <2>6. v.cursor \in 1 .. Len(stream)
    BY <1>1, <1>2
  <2>. QED BY <1>1, <1>7, <1>8, <2>1, <2>4, <2>5, <2>6, Delivers
<1>10. CASE ~(~k.replaying /\ v.cursor > k.lastSequence /\ k.sock = "open")
  <2>1. y.updates = w.updates
    BY <1>6, <1>10 DEF Delivered
  <2>. QED BY <1>1, <1>7, <1>8, <2>1, Stutters DEF KeepsUpdates
<1>. QED BY <1>9, <1>10

LEMMA FlushNextDelivers ==
  ASSUME IInv, NEW c \in Conns, FlushNext(c), KeepsCursors
  PROVE  Promise!Next
<1>. PICK h \in HandlerType, k \in ClientType, w \in WireType :
        h = handler[c] /\ k = client[c] /\ w = wire[c]
  BY DEF IInv, TypeOK
<1>1. /\ h.pc = "flush" /\ stream' = stream /\ ReplayOK(c) /\ LiveOK(c)
      /\ h.home \in Backends
  BY DEF FlushNext, IInv, ConnOK, MembershipOK
<1>2. PICK s \in Later(c, k.lastSequence) :
        /\ \A t \in Later(c, k.lastSequence) : s <= t
        /\ wire' = [wire EXCEPT ![c] = Written(@, <<s>>)]
  BY DEF FlushNext
<1>3. /\ s \in Nat /\ s = k.lastSequence + 1
      /\ k.lastSequence = h.cursor + Len(w.updates)
  BY <1>1, <1>2, NextBuffered
<1>4. /\ h.cursor \in Nat /\ h.cursor > 0 /\ w.updates \in Seq(Nat)
      /\ Len(stream) \in Nat /\ k.pending \subseteq Nat
  BY <1>1, StoreFacts
     DEF IInv, HandlerType, WireType, ClientType, ReplayOK, Replaying, Resumed
<1>5. s \in 1 .. Len(stream)
  <2>1. Reached(h.home, c) \in Nat /\ Reached(h.home, c) <= Len(stream)
    BY <1>1, <1>4 DEF IInv, TypeOK, WatcherOK, WatcherType, Reached
  <2>2. s <= Reached(h.home, c) /\ s > k.lastSequence
    BY <1>1, <1>2 DEF Later, ReplayOK, Replaying
  <2>3. k.lastSequence \in Nat
    BY DEF ClientType
  <2>. QED BY <1>3, <1>4, <2>1, <2>2, <2>3
<1>6. wire'[c].updates = Append(w.updates, s)
  <2>1. wire'[c].updates = w.updates \o <<s>>
    BY <1>2 DEF Written, IInv, TypeOK, WireType
  <2>2. w.updates \o <<s>> = Append(w.updates, s)
    BY <1>3, <1>4
  <2>. QED BY <2>1, <2>2
<1>7. \A d \in Conns \ {c} : wire'[d].updates = wire[d].updates
  BY <1>2 DEF IInv, TypeOK
<1>8. w.updates # <<>> => s = w.updates[Len(w.updates)] + 1
  <2>1. \A i \in 1 .. Len(w.updates) : w.updates[i] = h.cursor + i
    BY <1>1, <1>4 DEF LiveOK, From, Resumed
  <2>2. w.updates # <<>> => Len(w.updates) \in 1 .. Len(w.updates)
    BY <1>4
  <2>. QED BY <1>3, <2>1, <2>2
<1>9. w.updates = <<>> => s = h.cursor + 1
  BY <1>3, <1>4
<1>. QED BY <1>1, <1>4, <1>5, <1>6, <1>7, <1>8, <1>9, Delivers

-----------------------------------------------------------------------------
\* The other steps

(* A reply of applyOperationScript is one more edit in the log, made under *)
(* "reject" from the version it replaces, or it changes nothing.           *)
LEMMA EvaluateAccepts ==
  ASSUME IInv, NEW c \in Conns, Evaluate(c), KeepsCursors
  PROVE  Promise!Next \/ UNCHANGED Promise!vars
<1>1. wire' = wire
  BY DEF Evaluate
<1>2. PICK base \in Bases : ApplyOperationScript(base)
  BY DEF Evaluate
<1>3. CASE Refused(base)
  <2>1. stream' = stream
    BY <1>2, <1>3 DEF ApplyOperationScript
  <2>. QED BY <1>1, <2>1, Stutters DEF KeepsUpdates
<1>4. CASE ~Refused(base)
  <2>. DEFINE e == [sequence |-> doc.sequence + 1, version |-> doc.version + 1,
                    content |-> NewText, base |-> base]
  <2>1. stream' = Append(stream, e)
    BY <1>2, <1>4 DEF ApplyOperationScript
  <2>2. stream \in Seq(StreamEntry) /\ e \in StreamEntry /\ e.base = base
    <3>1. doc.sequence \in Nat /\ doc.version \in Nat /\ NewText \in Nat /\ base \in Nat
      BY StoreFacts, BoundAssumption DEF IInv, Snapshot, NewText, Bases
    <3>. QED BY <3>1 DEF IInv, TypeOK, StoreTypeOK, StreamEntry
  <2>. HIDE DEF e
  <2>0. ASSUME NEW i \in 1 .. Len(stream) PROVE stream[i].base \in Nat
    <3>1. stream[i] \in StreamEntry
      BY <2>2, Elements
    <3>. QED BY <3>1 DEF StreamEntry
  <2>3. /\ Len(stream') = Len(stream) + 1 /\ Len(stream) \in Nat
        /\ stream'[Len(stream) + 1].base = base
        /\ \A i \in 1 .. Len(stream) : stream'[i] = stream[i]
    BY <2>1, <2>2, Appended
  <2>4. LogOfStream' = Append(LogOfStream, base)
    <3>1. LogOfStream \in Seq(Nat) /\ Len(LogOfStream) = Len(stream) /\ base \in Nat
      <4>1. base \in Nat
        BY BoundAssumption DEF Bases
      <4>. QED BY <2>0, <2>3, <4>1 DEF LogOfStream
    <3>2. LogOfStream' \in Seq(Nat) /\ Len(LogOfStream') = Len(stream) + 1
      <4>1. LogOfStream' = [i \in 1 .. Len(stream) + 1 |-> stream'[i].base]
        BY <2>3 DEF LogOfStream
      <4>2. ASSUME NEW i \in 1 .. Len(stream) + 1 PROVE stream'[i].base \in Nat
        <5>1. i \in 1 .. Len(stream) \/ i = Len(stream) + 1
          BY <2>3
        <5>. QED BY <2>0, <2>3, <3>1, <5>1
      <4>. QED BY <2>3, <4>1, <4>2
    <3>3. \A i \in 1 .. Len(stream) + 1 : LogOfStream'[i] = Append(LogOfStream, base)[i]
      <4>1. ASSUME NEW i \in 1 .. Len(stream)
            PROVE  LogOfStream'[i] = Append(LogOfStream, base)[i]
        <5>1. LogOfStream'[i] = stream[i].base /\ LogOfStream[i] = stream[i].base
          BY <2>3 DEF LogOfStream
        <5>. QED BY <3>1, <5>1, Appended
      <4>2. LogOfStream'[Len(stream) + 1] = base
        BY <2>3 DEF LogOfStream
      <4>3. Append(LogOfStream, base)[Len(stream) + 1] = base
        BY <3>1, Appended
      <4>4. \A i \in 1 .. Len(stream) + 1 : i \in 1 .. Len(stream) \/ i = Len(stream) + 1
        BY <2>3
      <4>. QED BY <4>1, <4>2, <4>3, <4>4
    <3>4. Append(LogOfStream, base) \in Seq(Nat)
          /\ Len(Append(LogOfStream, base)) = Len(stream) + 1
      BY <3>1, Appended
    <3>. QED BY <3>2, <3>3, <3>4
  <2>5. Policy = "reject" => base = Len(LogOfStream)
    BY <1>4, StoreFacts DEF Refused, Stale, IInv, LogOfStream
  <2>6. CursorOf' = CursorOf /\ SentOnWire' = SentOnWire
    BY <1>1 DEF CursorOf, SentOnWire, KeepsCursors
  <2>7. Promise!Accept(base)
    BY <2>4, <2>5, <2>6 DEF Promise!Accept
  <2>. QED BY <2>7 DEF Promise!Next
<1>. QED BY <1>3, <1>4

(* A connection that is new has been sent nothing.                         *)
LEMMA ConnectConnects ==
  ASSUME IInv, NEW c \in Conns, NEW b \in Backends, NEW k \in Cursors, Connect(c, b, k)
  PROVE  Promise!Next
<1>1. wire[c] = NoWire
  <2>1. client[c].ticket = 0
    <3>1. MembershipOK(c) /\ handler[c].pc = "new" /\ client[c].ticket \in Nat
      BY DEF IInv, ConnOK, Connect, TypeOK, ClientType
    <3>. QED BY <3>1 DEF MembershipOK
  <2>. QED BY <2>1 DEF IInv, ConnOK, MembershipOK
<1>2. SentOnWire[c] = <<>>
  BY <1>1 DEF SentOnWire, NoWire
<1>3. LogOfStream' = LogOfStream /\ SentOnWire' = SentOnWire
  BY DEF Connect, LogOfStream, SentOnWire
<1>4. CursorOf' = [CursorOf EXCEPT ![c] = k]
  BY DEF Connect, CursorOf, IInv, TypeOK, NoHandler
<1>5. Promise!Connect(c, k)
  BY <1>2, <1>3, <1>4 DEF Promise!Connect
<1>. QED BY <1>5 DEF Promise!Next

(* What serveWS read from the URL stays what it is.                        *)
LEMMA ReturnKeepsCursor ==
  ASSUME handler \in [Conns -> HandlerType], NEW c \in Conns, NEW pc,
         Return(c, pc) \/ Goto(c, pc)
  PROVE  handler'[c].cursor = handler[c].cursor
<1>. PICK h \in HandlerType : h = handler[c]
  OBVIOUS
<1>1. CASE Return(c, pc)
  <2>1. handler'[c] = [h EXCEPT !.pc = pc, !.task = "none", !.gets = 0,
                         !.snap = EmptyDoc, !.accepted = FALSE, !.at = 0,
                         !.pageEnd = 0, !.expected = 0]
    BY <1>1 DEF Return
  <2>. QED BY <2>1 DEF HandlerType
<1>2. CASE Goto(c, pc)
  <2>1. handler'[c] = [h EXCEPT !.pc = pc]
    BY <1>2 DEF Goto
  <2>. QED BY <2>1 DEF HandlerType
<1>. QED BY <1>1, <1>2

(* So do the locals of serveWS that a handler does not assign.             *)
LEMMA StepKeepsCursor ==
  ASSUME handler \in [Conns -> HandlerType], NEW c \in Conns,
         \/ GetNext(c) \/ Join(c) \/ ReadBoundary(c) \/ ReadPage(c)
         \/ ReceiveEdit(c)
  PROVE  handler'[c].cursor = handler[c].cursor
<1>. PICK h \in HandlerType : h = handler[c]
  OBVIOUS
<1>1. CASE GetNext(c)
  <2>1. PICK g, n, q : handler'[c] = [h EXCEPT !.snap = g, !.gets = n, !.pc = q]
    BY <1>1 DEF GetNext
  <2>. QED BY <2>1 DEF HandlerType
<1>2. CASE Join(c)
  <2>1. PICK q : handler'[c] = [h EXCEPT !.task = "state", !.pc = q]
    BY <1>2 DEF Join
  <2>. QED BY <2>1 DEF HandlerType
<1>3. CASE ReadBoundary(c)
  <2>1. PICK m, n, q : handler'[c] = [h EXCEPT !.boundary = m, !.expected = n, !.pc = q]
    BY <1>3 DEF ReadBoundary
  <2>. QED BY <2>1 DEF HandlerType
<1>4. CASE ReadPage(c)
  <2>1. PICK n, q : handler'[c] = [h EXCEPT !.pageEnd = n, !.pc = q]
    BY <1>4 DEF ReadPage
  <2>. QED BY <2>1 DEF HandlerType
<1>5. CASE ReceiveEdit(c)
  <2>1. PICK n : handler'[c] = [h EXCEPT !.task = "edit", !.pc = "get", !.edits = n]
    BY <1>5 DEF ReceiveEdit
  <2>. QED BY <2>1 DEF HandlerType
<1>. QED BY <1>1, <1>2, <1>3, <1>4, <1>5

LEMMA ServeKeepsCursors ==
  ASSUME IInv, NEW d \in Conns, Serve(d) PROVE KeepsCursors
<1>. SUFFICES handler'[d].cursor = handler[d].cursor
  BY ServeOthers DEF KeepsCursors
<1>0. handler \in [Conns -> HandlerType]
  BY DEF IInv, TypeOK
<1>. PICK h \in HandlerType : h = handler[d]
  BY <1>0
<1>1. ASSUME NEW pc, Return(d, pc) \/ Goto(d, pc)
      PROVE  handler'[d].cursor = handler[d].cursor
  BY <1>0, <1>1, ReturnKeepsCursor
<1>2. ASSUME NEW snap, AfterSnapshot(d, snap)
      PROVE  handler'[d].cursor = handler[d].cursor
  <2>1. CASE handler' = [handler EXCEPT ![d] = [@ EXCEPT !.snap = snap,
                                                         !.pc = "writeState"]]
    <3>1. handler'[d] = [h EXCEPT !.snap = snap, !.pc = "writeState"]
      BY <1>0, <2>1
    <3>. QED BY <3>1 DEF HandlerType
  <2>2. CASE Return(d, "eval") \/ Return(d, "live")
    BY <1>1, <2>2
  <2>. QED BY <1>2, <2>1, <2>2 DEF AfterSnapshot
<1>3. CASE GetNext(d) \/ Join(d) \/ ReadBoundary(d) \/ ReadPage(d)
  BY <1>0, <1>3, StepKeepsCursor
<1>4. CASE ApplySnapshot(d) \/ SnapshotFails(d)
  BY <1>1, <1>2, <1>4 DEF ApplySnapshot, SnapshotFails
<1>5. CASE \/ HydrateRoom(d) \/ Register(d) \/ WriteStarted(d)
           \/ WriteState(d) \/ EvaluateFails(d) \/ ApplyReplyToRoom(d)
           \/ Acknowledge(d) \/ Abort(d) \/ RemoveClient(d) \/ CloseConn(d)
  BY <1>1, <1>5 DEF HydrateRoom, Register, WriteStarted, WriteState,
     EvaluateFails, ApplyReplyToRoom, Acknowledge, Abort, RemoveClient, CloseConn
<1>6. CASE Evaluate(d)
  <2>1. ASSUME NEW reply,
               handler' = [handler EXCEPT ![d] =
                 [@ EXCEPT !.snap = reply.snap, !.accepted = reply.accepted,
                           !.pc = "applyReply"]]
        PROVE  handler'[d].cursor = handler[d].cursor
    <3>1. handler'[d] = [h EXCEPT !.snap = reply.snap, !.accepted = reply.accepted,
                                  !.pc = "applyReply"]
      BY <1>0, <2>1
    <3>. QED BY <3>1 DEF HandlerType
  <2>2. CASE Return(d, "live")
    BY <1>1, <2>2
  <2>. QED BY <1>6, <2>1, <2>2 DEF Evaluate
<1>7. CASE VisitEntry(d)
  <2>1. ASSUME NEW n, NEW pc, NEW e,
               handler' = [handler EXCEPT ![d] =
                 [@ EXCEPT !.at = n, !.pc = pc, !.expected = e]]
        PROVE  handler'[d].cursor = handler[d].cursor
    <3>1. handler'[d] = [h EXCEPT !.at = n, !.pc = pc, !.expected = e]
      BY <1>0, <2>1
    <3>. QED BY <3>1 DEF HandlerType
  <2>2. CASE Return(d, "closing")
    BY <1>1, <2>2
  <2>. DEFINE q == handler[d]
              id == q.at + 1
              s == SequenceAt(id)
              pc == IF id = q.pageEnd THEN "page" ELSE "visit"
              skip == s <= q.cursor
              gap == ~skip /\ (s # q.expected \/ s > SequenceAt(q.boundary))
              e == IF skip THEN q.expected ELSE s + 1
  <2>3. IF gap THEN Return(d, "closing")
        ELSE handler' = [handler EXCEPT ![d] =
               [@ EXCEPT !.at = id, !.pc = pc, !.expected = e]]
    BY <1>7 DEF VisitEntry
  <2>. HIDE DEF gap, id, pc, e
  <2>. QED BY <2>1, <2>2, <2>3
<1>8. CASE FinishReplay(d) \/ FlushNext(d)
  BY <1>1, <1>8 DEF FinishReplay, FlushNext, HandedOver
<1>. QED BY <1>3, <1>4, <1>5, <1>6, <1>7, <1>8 DEF Serve

(* A room_state is not an update.                                          *)
LEMMA RoomStateKeepsUpdates ==
  ASSUME IInv, NEW c \in Conns, NEW snap, wire' = RoomState(c, snap)
  PROVE  KeepsUpdates
BY DEF RoomState, KeepsUpdates, IInv, TypeOK, WireType

LEMMA ServePromises ==
  ASSUME IInv, NEW c \in Conns, Serve(c)
  PROVE  Promise!Next \/ UNCHANGED Promise!vars
<1>1. KeepsCursors
  BY ServeKeepsCursors
<1>2. CASE VisitEntry(c) \/ FlushNext(c) \/ Evaluate(c)
  BY <1>1, <1>2, VisitEntryDelivers, FlushNextDelivers, EvaluateAccepts
<1>3. CASE WriteState(c) \/ Acknowledge(c)
  <2>1. stream' = stream /\ KeepsUpdates
    BY <1>3, RoomStateKeepsUpdates DEF WriteState, Acknowledge, KeepsUpdates
  <2>. QED BY <1>1, <2>1, Stutters
<1>4. CASE FinishReplay(c)
  <2>1. stream' = stream /\ KeepsUpdates
    BY <1>4 DEF FinishReplay, KeepsUpdates, IInv, TypeOK, WireType
  <2>. QED BY <1>1, <2>1, Stutters
<1>5. CASE stream' = stream /\ wire' = wire
  BY <1>1, <1>5, Stutters DEF KeepsUpdates
<1>. QED BY <1>2, <1>3, <1>4, <1>5
     DEF Serve, GetNext, ApplySnapshot, SnapshotFails, HydrateRoom, Register, Join,
         ReadBoundary, WriteStarted, ReadPage, EvaluateFails, ApplyReplyToRoom,
         Abort, RemoveClient, CloseConn

(* A step that writes no update and keeps every cursor.                    *)
LEMMA OtherSteps ==
  ASSUME stream' = stream, wire' = wire, KeepsCursors
  PROVE  UNCHANGED Promise!vars
BY Stutters DEF KeepsUpdates

LEMMA NextPromises ==
  ASSUME IInv, [Next]_vars
  PROVE  Promise!Next \/ UNCHANGED Promise!vars
<1>0. handler \in [Conns -> HandlerType]
  BY DEF IInv, TypeOK
<1>1. ASSUME handler' = handler PROVE KeepsCursors
  BY <1>1 DEF KeepsCursors
<1>2. ASSUME NEW b \in Backends, NEW c \in Conns, Send(b, c)
      PROVE  Promise!Next \/ UNCHANGED Promise!vars
  <2>1. KeepsCursors
    BY <1>1, <1>2 DEF Send
  <2>. QED BY <1>2, <2>1, SendDelivers
<1>3. ASSUME NEW c \in Conns, Serve(c)
      PROVE  Promise!Next \/ UNCHANGED Promise!vars
  BY <1>3, ServePromises
<1>4. ASSUME NEW c \in Conns, NEW b \in Backends, NEW k \in Cursors, Connect(c, b, k)
      PROVE  Promise!Next
  BY <1>4, ConnectConnects
<1>5. ASSUME NEW b \in Backends, Crash(b) PROVE UNCHANGED Promise!vars
  <2>1. KeepsCursors
    BY <1>0, <1>5 DEF Crash, KeepsCursors, NoHandler
  <2>. QED BY <1>5, <2>1, OtherSteps DEF Crash
<1>6. ASSUME NEW b \in Backends,
             \/ CreateRoom(b) \/ ReadBatch(b) \/ ApplyEvent(b) \/ SnapshotClients(b)
      PROVE  UNCHANGED Promise!vars
  BY <1>1, <1>6, OtherSteps
     DEF CreateRoom, CreateRoomScript, ReadBatch, ApplyEvent, SnapshotClients
<1>7. ASSUME NEW c \in Conns, ReceiveEdit(c) \/ Disconnect(c)
      PROVE  UNCHANGED Promise!vars
  <2>1. handler'[c].cursor = handler[c].cursor
    BY <1>0, <1>7, ReturnKeepsCursor, StepKeepsCursor DEF Disconnect
  <2>2. \A d \in Conns \ {c} : handler'[d] = handler[d]
    BY <1>0, <1>7 DEF ReceiveEdit, Disconnect, Return
  <2>3. KeepsCursors
    BY <2>1, <2>2 DEF KeepsCursors
  <2>. QED BY <1>7, <2>3, OtherSteps DEF ReceiveEdit, Disconnect
<1>8. ASSUME NEW c \in Conns, Reset(c) \/ Stall(c) \/ HeartbeatClose(c)
      PROVE  UNCHANGED Promise!vars
  BY <1>1, <1>8, OtherSteps DEF Reset, Stall, HeartbeatClose
<1>9. CASE UNCHANGED vars
  BY <1>1, <1>9, OtherSteps DEF vars
<1>. QED BY <1>2, <1>3, <1>4, <1>5, <1>6, <1>7, <1>8, <1>9 DEF Next, Watch

(* Whatever the backends, their watchers and replays, Redis failures,      *)
(* stalls and crashes do: seen from outside, serveWS, resumeClient,        *)
(* writeContentUpdate, finishReplay and applyOperationScript are one log   *)
(* of edits and, for each connection, consecutive events of it after its   *)
(* cursor.                                                                 *)
THEOREM DeliveryKeepsPromise == Spec => KeepsPromise
<1>1. Init => Promise!Init
  BY DEF Init, StoreInit, NoHandler, NoWire, LogOfStream, CursorOf, SentOnWire,
         Promise!Init
<1>2. IInv /\ [Next]_vars => Promise!Next \/ UNCHANGED Promise!vars
  BY NextPromises
<1>. QED BY <1>1, <1>2, DeliveryInvariant, PTL DEF Spec, KeepsPromise, Promise!Spec
=============================================================================
