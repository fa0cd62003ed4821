---------------------------- MODULE DeliverySteps -----------------------------
(***************************************************************************)
(* Every action of Delivery keeps the inductive invariant of DeliveryInv.  *)
(* A step changes one connection, one backend or both; Bystander gives the *)
(* invariant back for every other connection, and the lemmas after it do   *)
(* the same for the kinds of steps that several actions share.  Then there *)
(* is one lemma for each action, in the order of a connection's life, and  *)
(* the watcher.                                                            *)
(***************************************************************************)
EXTENDS DeliveryInv, DocStoreProofs, FiniteSetTheorems

(* What a step may do to everything connection d can see: its own state    *)
(* stays, the store and the cached rooms only grow, nobody adds d to a     *)
(* room or to a copy of its clients, and no watcher passes d by.           *)
Unaffected(d) ==
  /\ handler'[d] = handler[d]
  /\ client'[d] = client[d]
  /\ wire'[d] = wire[d]
  /\ exists => exists'
  /\ Len(stream) <= Len(stream')
  /\ doc.content <= doc'.content
  /\ doc.version <= doc'.version
  /\ doc.sequence <= doc'.sequence
  /\ \A b \in Backends :
       d \in room'[b].clients \cup watcher'[b].left =>
         d \in room[b].clients \cup watcher[b].left
  /\ handler[d].home \in Backends => LET b == handler[d].home IN
       /\ room[b].cached => room'[b].cached
       /\ room[b].snap.sequence <= room'[b].snap.sequence
       /\ d \in room'[b].clients <=> d \in room[b].clients
       /\ d \in room[b].clients \cup watcher'[b].left
            => Reached(b, d)' = Reached(b, d)

(* The elements of a sequence.                                             *)
LEMMA Elements ==
  ASSUME NEW S, NEW s \in Seq(S), NEW i \in 1 .. Len(s)
  PROVE  s[i] \in S
OBVIOUS

(* Event n goes after l that follow cursor k.                              *)
LEMMA BeforeLast ==
  ASSUME NEW n \in Nat, NEW k \in Nat, NEW l \in Nat, l = n - k - 1
  PROVE  l + 1 + k = n
OBVIOUS

(* A sequence with one more element.                                       *)
LEMMA Appended ==
  ASSUME NEW S, NEW v \in Seq(S), NEW n \in S
  PROVE  /\ Append(v, n) \in Seq(S) /\ Len(v) \in Nat
         /\ Append(v, n) # <<>>
         /\ Len(Append(v, n)) = Len(v) + 1
         /\ Append(v, n)[Len(v) + 1] = n
         /\ \A i \in 1 .. Len(v) : Append(v, n)[i] = v[i]
<1>1. /\ Append(v, n) \in Seq(S) /\ Len(v) \in Nat
      /\ Len(Append(v, n)) = Len(v) + 1
  OBVIOUS
<1>2. Append(v, n)[Len(v) + 1] = n
  OBVIOUS
<1>3. \A i \in 1 .. Len(v) : Append(v, n)[i] = v[i]
  OBVIOUS
<1>4. Append(v, n) # <<>>
  BY <1>1
<1>. QED BY <1>1, <1>2, <1>3, <1>4

(* A step that leaves d unaffected keeps its part of the invariant.  Every *)
(* action of one connection or backend is a step of this kind for all      *)
(* other connections.                                                      *)
LEMMA Bystander ==
  ASSUME TypeOK, TypeOK', StoreOK, StoreOK', NEW d \in Conns, ConnOK(d), Unaffected(d)
  PROVE  ConnOK(d)'
<1>0. PICK h \in HandlerType, k \in ClientType, w \in WireType :
        /\ h = handler[d] /\ k = client[d] /\ w = wire[d]
        /\ h = handler'[d] /\ k = client'[d] /\ w = wire'[d]
  BY DEF TypeOK, Unaffected
<1>1. doc \in Snapshot /\ doc' \in Snapshot /\ Len(stream) \in Nat /\ Len(stream') \in Nat
  BY DEF TypeOK, StoreTypeOK
<1>2. MembershipOK(d)'
  BY <1>0 DEF ConnOK, MembershipOK, Unaffected
<1>3. SnapshotOK(d)'
  <2>1. h.snap \in Snapshot /\ h.gets \in Nat /\ w.states \in Seq([snap : Snapshot, after : Nat])
    BY <1>0 DEF HandlerType, WireType
  <2>2. \A i \in 1 .. Len(w.states) : w.states[i].snap \in Snapshot
    <3>1. \A i \in 1 .. Len(w.states) : w.states[i] \in [snap : Snapshot, after : Nat]
      BY <2>1, Elements
    <3>. QED BY <3>1
  <2>5. SnapshotOK(d)
    BY DEF ConnOK
  <2>6. \A i \in 1 .. Len(w.states) : OnlyLags(w.states[i].snap)'
    <3>. SUFFICES ASSUME NEW i \in 1 .. Len(w.states)
                  PROVE  OnlyLags(w.states[i].snap)'
      OBVIOUS
    <3>1. PICK snap \in Snapshot : snap = w.states[i].snap
      BY <2>2
    <3>2. OnlyLags(snap)
      BY <1>0, <2>5, <3>1 DEF SnapshotOK
    <3>3. /\ snap.content <= snap.version /\ snap.version <= snap.sequence
          /\ snap.sequence <= doc'.sequence
      BY <1>1, <3>2 DEF OnlyLags, Snapshot, Unaffected
    <3>. QED BY <3>1, <3>3 DEF OnlyLags
  <2>7. /\ h.pc \in {"register", "join", "live"} => h.gets = 0
        /\ h.pc = "get" =>
           /\ h.gets < 3
           /\ h.gets >= 1 => h.snap.content <= doc'.version
           /\ h.gets = 2 => h.snap.content <= h.snap.version
           /\ h.gets = 2 => h.snap.version <= doc'.sequence
    BY <1>0, <2>1, <2>5, <1>1 DEF SnapshotOK, Unaffected, Snapshot
  <2>8. h.pc \in {"applySnapshot", "writeState", "applyReply", "acknowledge"}
           => OnlyLags(h.snap)'
    BY <1>0, <1>1, <2>1, <2>5 DEF SnapshotOK, OnlyLags, Snapshot, Unaffected
  <2>. QED BY <1>0, <2>6, <2>7, <2>8 DEF SnapshotOK
<1>4. ReplayOK(d)'
  <2>1. h.pc \in {"join"} \cup Replaying => h.home \in Backends
    BY <1>0 DEF ConnOK, MembershipOK, Replaying
  <2>2. h.pc \in {"join"} \cup Replaying => d \in room[h.home].clients
    <3>1. h.pc \in {"join"} \cup Replaying => k.ticket > 0
      BY <1>0 DEF ConnOK, MembershipOK, ClientType, Replaying
    <3>. QED BY <1>0, <3>1 DEF ConnOK, MembershipOK, Replaying, Serving, Pcs, Ending
  <2>3. h.pc \in {"join"} \cup Replaying =>
            Reached(h.home, d)' = Reached(h.home, d)
    BY <1>0, <2>1, <2>2 DEF Unaffected
  <2>4. ReplayOK(d) /\ h.boundary \in Nat /\ Len(stream) <= Len(stream')
    BY <1>0 DEF ConnOK, Unaffected, HandlerType
  <2>5. h.boundary <= Len(stream) => h.boundary <= Len(stream')
    BY <1>1, <2>4
  <2>. QED BY <1>0, <2>3, <2>4, <2>5 DEF ReplayOK, Resumed, Serving, Replaying
<1>5. LiveOK(d)'
  <2>1. /\ LiveOK(d) /\ Len(stream) <= Len(stream') /\ h.boundary \in Nat
    BY <1>0 DEF ConnOK, Unaffected, HandlerType
  <2>2. /\ From(d)' = From(d) /\ (Started(d)' <=> Started(d))
        /\ (Resumed(d)' <=> Resumed(d)) /\ (Usable(d)' <=> Usable(d))
        /\ Home(d)' = h.home /\ Home(d) = h.home
    BY <1>0 DEF From, Started, Resumed, Usable, Home
  <2>3. Following(d)' => /\ Following(d)
                         /\ Reached(h.home, d)' = Reached(h.home, d)
    BY <1>0, <2>2 DEF Following, Unaffected
  <2>4. ~k.replaying /\ k.ticket > 0 =>
           /\ Started(d)' => k.lastSequence = From(d)' + Len(w.updates)
           /\ ~Started(d)' => k.lastSequence = 0
           /\ (Started(d) /\ Following(d) /\ Usable(d))' =>
                Reached(h.home, d)' <= k.lastSequence
    BY <1>0, <2>1, <2>2, <2>3 DEF LiveOK
  <2>5. \A i \in 1 .. Len(w.updates) : w.updates[i] = From(d)' + i
    BY <1>0, <2>1, <2>2 DEF LiveOK
  <2>6. w.handoff # -1 =>
           /\ h.cursor <= h.boundary /\ h.boundary <= Len(stream')
           /\ w.handoff = h.boundary - h.cursor
           /\ h.boundary <= h.cursor + Len(w.updates)
           /\ Resumed(d)'
    BY <1>0, <1>1, <2>1, <2>2 DEF LiveOK
  <2>7. Reached(Home(d), d)' = Reached(h.home, d)'
    BY <1>0, <2>2 DEF Home, Reached
  <2>. QED BY <1>0, <2>4, <2>5, <2>6, <2>7 DEF LiveOK
<1>6. JoinOK(d)'
  <2>. DEFINE u == w.updates
  <2>1. h.home \in Backends => /\ room[h.home].snap.sequence \in Nat
                               /\ room'[h.home].snap.sequence \in Nat
                               /\ room[h.home].snap.sequence <= room'[h.home].snap.sequence
    BY <1>0 DEF TypeOK, Unaffected, RoomType, Snapshot
  <2>2. h.pc \in Serving => h.home \in Backends
    BY <1>0 DEF ConnOK, MembershipOK, Serving
  <2>3. u # <<>> => u[1] \in Nat
    <3>1. u \in Seq(Nat)
      BY <1>0 DEF WireType
    <3>2. u # <<>> => 1 \in 1 .. Len(u)
      BY <3>1
    <3>. QED BY <3>1, <3>2, Elements
  <2>4. h.cursor = 0 /\ u # <<>> /\ h.pc \in Serving => u[1] <= room'[h.home].snap.sequence
    BY <1>0, <2>1, <2>2, <2>3 DEF ConnOK, JoinOK, Resumed
  <2>5. h.home \in Backends /\ d \in room'[h.home].clients \cup watcher'[h.home].left =>
          /\ d \in room[h.home].clients \cup watcher[h.home].left
          /\ Reached(h.home, d)' = Reached(h.home, d)
    BY <1>0 DEF Unaffected
  <2>6. ASSUME NEW q, u = <<>> /\ Following(d) /\ Usable(d) => Reached(h.home, d) <= q
        PROVE  (u = <<>> /\ Following(d) /\ Usable(d))' => Reached(h.home, d)' <= q
    BY <1>0, <2>5, <2>6 DEF Following, Home, Usable
  <2>. QED BY <1>0, <2>4, <2>6 DEF ConnOK, JoinOK, Resumed, HandlerType
<1>. QED BY <1>2, <1>3, <1>4, <1>5, <1>6 DEF ConnOK

(* What the log being the document says of the keys and of stream IDs.     *)
LEMMA StoreFacts ==
  ASSUME TypeOK, StoreOK
  PROVE  /\ Len(stream) \in Nat /\ LastStreamID = Len(stream)
         /\ doc \in Snapshot
         /\ doc.content = Len(stream)
         /\ doc.version = Len(stream)
         /\ doc.sequence = Len(stream)
         /\ \A i \in 0 .. Len(stream) : SequenceAt(i) = i
<1>1. Len(stream) \in Nat /\ doc \in Snapshot
  BY DEF TypeOK, StoreTypeOK
<1>. QED BY <1>1 DEF StoreOK, LogIsTheDocument, SequenceAt, LastStreamID

(* A step of the handler of c that touches nothing but its own connection. *)
LEMMA HandlerStep ==
  ASSUME IInv, NEW c \in Conns, NEW h \in HandlerType,
         handler' = [handler EXCEPT ![c] = h],
         client' \in [Conns -> ClientType], wire' \in [Conns -> WireType],
         \A d \in Conns \ {c} : client'[d] = client[d] /\ wire'[d] = wire[d],
         UNCHANGED <<exists, doc, stream, room, watcher, crashes>>,
         ConnOK(c)'
  PROVE  IInv'
<1>1. TypeOK'
  BY DEF IInv, TypeOK, StoreTypeOK
<1>2. StoreOK'
  BY DEF IInv, StoreOK, LogIsTheDocument, NoSilentOverwrite
<1>3. \A b \in Backends : WatcherOK(b)'
  BY DEF IInv, WatcherOK, OnlyLags
<1>4. ASSUME NEW d \in Conns \ {c} PROVE ConnOK(d)'
  <2>1. handler'[d] = handler[d]
    BY DEF IInv, TypeOK
  <2>3. Unaffected(d)
    BY <2>1 DEF Unaffected, IInv, TypeOK, StoreTypeOK, Snapshot, RoomType, Reached
  <2>. QED BY <1>1, <1>2, <2>3, Bystander DEF IInv
<1>. QED BY <1>1, <1>2, <1>3, <1>4 DEF IInv

(* What other steps may do to Redis while a handler waits.                 *)
StoreGrows ==
  /\ StoreTypeOK' /\ StoreOK'
  /\ exists => exists'
  /\ Len(stream) <= Len(stream')
  /\ doc.content <= doc'.content
  /\ doc.version <= doc'.version
  /\ doc.sequence <= doc'.sequence

(* A step that leaves Redis alone.                                         *)
LEMMA StoreStays ==
  ASSUME TypeOK, StoreOK, UNCHANGED storeVars PROVE StoreGrows
BY DEF TypeOK, StoreTypeOK, StoreOK, LogIsTheDocument, NoSilentOverwrite,
       storeVars, StoreGrows, Snapshot

(* A snapshot that lags the store goes on lagging it.                      *)
LEMMA LagsMore ==
  ASSUME StoreTypeOK, StoreGrows, NEW snap \in Snapshot, OnlyLags(snap)
  PROVE  /\ snap.content <= snap.version
         /\ snap.version <= snap.sequence
         /\ snap.sequence <= doc'.sequence
BY DEF StoreGrows, StoreTypeOK, OnlyLags, Snapshot

(* The handler of a registered connection moves on, the cached room of its *)
(* backend takes a newer snapshot, and nothing is written.                 *)
LEMMA HandlerMoves ==
  ASSUME IInv, NEW c \in Conns, NEW g \in HandlerType, NEW snap \in Snapshot,
         handler' = [handler EXCEPT ![c] = g],
         room' = [room EXCEPT ![g.home].snap = snap],
         UNCHANGED <<watcher, client, wire, crashes>>, StoreGrows,
         client[c].ticket > 0,
         g.home = handler[c].home, g.cursor = handler[c].cursor,
         wire[c].handoff = -1 \/ g.boundary = handler[c].boundary,
         g.pc \notin {"new", "register", "join"},
         handler[c].pc \in Serving,
         g.pc \in {"get", "applySnapshot"} => g.task \in {"state", "edit"},
         room[g.home].snap.sequence <= snap.sequence,
         OnlyLags(snap)',
         SnapshotOK(c)', ReplayOK(c)',
         g.cursor = 0 =>
           /\ g.pc \in {"get", "applySnapshot"} /\ g.task = "state" =>
                wire[c].states = <<>>
           /\ g.pc \in {"get", "applySnapshot"} /\ g.task = "edit" =>
                wire[c].states # <<>>
           /\ g.pc \in {"live", "eval", "applyReply", "acknowledge"} =>
                wire[c].states # <<>>
           /\ g.pc = "writeState" =>
                wire[c].states = <<>> /\ g.snap.sequence = snap.sequence
  PROVE  IInv'
<1>. PICK h \in HandlerType, k \in ClientType, w \in WireType :
        h = handler[c] /\ k = client[c] /\ w = wire[c]
  BY DEF IInv, TypeOK
<1>1. handler'[c] = g /\ client'[c] = k /\ wire'[c] = w
  BY DEF IInv, TypeOK
<1>2. g.home \in Backends /\ h.pc # "new"
  BY DEF IInv, ConnOK, MembershipOK
<1>3. PICK r \in RoomType : r = room[g.home]
  BY <1>2 DEF IInv, TypeOK
<1>4. /\ room'[g.home] \in RoomType
      /\ room'[g.home].snap = snap
      /\ room'[g.home].cached = r.cached
      /\ room'[g.home].clients = r.clients
  BY <1>2, <1>3 DEF IInv, TypeOK, RoomType
<1>5. /\ room' \in [Backends -> RoomType]
      /\ \A b \in Backends : b # g.home => room'[b] = room[b]
  BY <1>2, <1>4 DEF IInv, TypeOK
<1>6. TypeOK'
  BY <1>5 DEF IInv, TypeOK, StoreGrows
<1>7. StoreOK'
  BY DEF StoreGrows
<1>8. \A b \in Backends : /\ room'[b].cached = room[b].cached
                          /\ room'[b].clients = room[b].clients
                          /\ room[b].snap.sequence <= room'[b].snap.sequence
  BY <1>2, <1>3, <1>4, <1>5 DEF IInv, TypeOK, RoomType, Snapshot
<1>9. ASSUME NEW b \in Backends PROVE WatcherOK(b)'
  <2>1. OnlyLags(room[b].snap)'
    <3>1. CASE b = g.home
      BY <1>4, <3>1 DEF OnlyLags
    <3>2. CASE b # g.home
      <4>1. room[b].snap \in Snapshot /\ OnlyLags(room[b].snap) /\ StoreTypeOK
        BY DEF IInv, TypeOK, RoomType, WatcherOK
      <4>. QED BY <4>1, <1>5, <3>2, LagsMore DEF OnlyLags
    <3>. QED BY <3>1, <3>2
  <2>2. PICK v \in WatcherType : v = watcher[b] /\ v = watcher'[b]
    BY DEF IInv, TypeOK
  <2>3. room[b].snap.sequence \in Nat /\ room'[b].snap.sequence \in Nat
    BY <1>5 DEF IInv, TypeOK, RoomType, Snapshot
  <2>4. Len(stream) \in Nat /\ Len(stream') \in Nat
    BY <1>6 DEF IInv, TypeOK, StoreTypeOK
  <2>5. WatcherOK(b)
    BY DEF IInv
  <2>6. ~room[b].cached => b # g.home /\ room'[b] = room[b]
    <3>1. c \in room[g.home].clients
      BY DEF IInv, ConnOK, MembershipOK
    <3>. QED BY <1>5, <2>5, <3>1 DEF WatcherOK, NoRoom
  <2>. QED BY <1>8, <2>1, <2>2, <2>3, <2>4, <2>5, <2>6 DEF IInv, WatcherOK, StoreGrows, WatcherType
<1>10. ASSUME NEW b \in Backends, NEW d PROVE Reached(b, d)' = Reached(b, d)
  BY DEF Reached
<1>11. ASSUME NEW d \in Conns \ {c} PROVE ConnOK(d)'
  <2>1. handler'[d] = handler[d]
    BY DEF IInv, TypeOK
  <2>2. Unaffected(d)
    BY <1>8, <1>10, <2>1 DEF Unaffected, StoreGrows
  <2>. QED BY <1>6, <1>7, <2>2, Bystander DEF IInv
<1>12. MembershipOK(c)'
  BY <1>1, <1>2, <1>8 DEF IInv, ConnOK, MembershipOK, StoreGrows
<1>13. (Following(c)' <=> Following(c)) /\ (Usable(c)' <=> Usable(c))
  BY <1>1, <1>2, <1>8 DEF Following, Usable, Home
<1>14. LiveOK(c)'
  <2>1. Home(c)' = Home(c) /\ (Resumed(c)' <=> Resumed(c)) /\ Home(c) = g.home
    BY <1>1 DEF Home, Resumed
  <2>2. From(c)' = From(c) /\ (Started(c)' <=> Started(c))
    BY <1>1, <2>1 DEF From, Started, Resumed
  <2>3. LiveOK(c) /\ Len(stream) \in Nat /\ Len(stream') \in Nat
    BY <1>6 DEF IInv, ConnOK, TypeOK, StoreTypeOK
  <2>4. Reached(Home(c), c)' = Reached(Home(c), c)
    BY <1>1, <2>1 DEF Home, Reached
  <2>5. \A i \in 1 .. Len(w.updates) : w.updates[i] = From(c)' + i
    BY <2>2, <2>3 DEF LiveOK
  <2>6. ~k.replaying /\ k.ticket > 0 =>
           /\ Started(c)' => k.lastSequence = From(c)' + Len(w.updates)
           /\ ~Started(c)' => k.lastSequence = 0
           /\ (Started(c) /\ Following(c) /\ Usable(c))' =>
                Reached(Home(c), c)' <= k.lastSequence
    BY <1>13, <2>2, <2>3, <2>4 DEF LiveOK
  <2>7. w.handoff # -1 =>
           /\ g.cursor <= g.boundary /\ g.boundary <= Len(stream')
           /\ w.handoff = g.boundary - g.cursor
           /\ g.boundary <= g.cursor + Len(w.updates)
           /\ Resumed(c)'
    <3>1. w.handoff # -1 => g.boundary = h.boundary /\ g.cursor = h.cursor
      OBVIOUS
    <3>2. h.boundary \in Nat /\ Len(stream) <= Len(stream')
      BY DEF HandlerType, StoreGrows
    <3>3. w.handoff # -1 =>
           /\ h.cursor <= h.boundary /\ h.boundary <= Len(stream)
           /\ w.handoff = h.boundary - h.cursor
           /\ h.boundary <= h.cursor + Len(w.updates)
           /\ Resumed(c)
      BY <2>3 DEF LiveOK
    <3>. QED BY <2>1, <2>3, <3>1, <3>2, <3>3
  <2>. QED BY <1>1, <2>5, <2>6, <2>7 DEF LiveOK
<1>15. JoinOK(c)'
  <2>1. /\ r.snap.sequence \in Nat /\ snap.sequence \in Nat
        /\ r.snap.sequence <= snap.sequence
    BY <1>3 DEF RoomType, Snapshot
  <2>2. w.updates # <<>> => w.updates[1] \in Nat
    BY Elements DEF WireType
  <2>3. h.cursor = 0 /\ w.updates # <<>> /\ g.pc \in Serving => w.updates[1] <= snap.sequence
    <3>1. JoinOK(c)
      BY DEF IInv, ConnOK
    <3>2. h.cursor = 0 /\ w.updates # <<>> /\ h.pc \in Serving =>
            w.updates[1] <= r.snap.sequence
      BY <1>3, <3>1 DEF JoinOK, Resumed
    <3>. QED BY <2>1, <2>2, <3>2
  <2>4. Reached(g.home, c) \in Nat /\ Reached(g.home, c) <= r.snap.sequence
    BY <1>2, <1>3, <2>1 DEF IInv, TypeOK, WatcherOK, WatcherType, Reached
  <2>5. JoinOK(c) /\ Home(c) = g.home
    BY DEF IInv, ConnOK, Home
  <2>6. h.cursor = 0 /\ w.states # <<>> /\ w.updates # <<>> =>
          w.updates[1] <= w.states[1].snap.sequence + 1
    BY <2>5 DEF JoinOK, Resumed
  <2>7. h.cursor = 0 /\ w.states # <<>> /\ w.updates = <<>> /\ Following(c) /\ Usable(c) =>
          Reached(g.home, c) <= w.states[1].snap.sequence
    BY <2>5 DEF JoinOK, Resumed
  <2>8. h.cursor = 0 /\ g.pc = "writeState" =>
         /\ w.updates # <<>> => w.updates[1] <= g.snap.sequence + 1
         /\ Reached(g.home, c) <= g.snap.sequence
    BY <2>1, <2>2, <2>3, <2>4 DEF Serving, Pcs, Ending
  <2>9. /\ Reached(g.home, c)' = Reached(g.home, c)
        /\ Resumed(c)' <=> g.cursor # 0
        /\ room'[g.home].snap = snap
    BY <1>1, <1>2, <1>4, <1>10 DEF Resumed, HandlerType
  <2>. QED BY <1>1, <1>13, <2>3, <2>6, <2>7, <2>8, <2>9 DEF JoinOK, Resumed
<1>16. ConnOK(c)'
  BY <1>12, <1>14, <1>15 DEF ConnOK
<1>. QED BY <1>6, <1>7, <1>9, <1>11, <1>16 DEF IInv

(* The same with the cached room as it is.                                 *)
LEMMA HandlerOnly ==
  ASSUME IInv, NEW c \in Conns, NEW g \in HandlerType,
         handler' = [handler EXCEPT ![c] = g],
         UNCHANGED <<room, watcher, client, wire, crashes>>, StoreGrows,
         client[c].ticket > 0,
         g.home = handler[c].home, g.cursor = handler[c].cursor,
         wire[c].handoff = -1 \/ g.boundary = handler[c].boundary,
         g.pc \notin {"new", "register", "join"},
         handler[c].pc \in Serving,
         g.pc \in {"get", "applySnapshot"} => g.task \in {"state", "edit"},
         SnapshotOK(c)', ReplayOK(c)',
         g.cursor = 0 =>
           /\ g.pc \in {"get", "applySnapshot"} /\ g.task = "state" =>
                wire[c].states = <<>>
           /\ g.pc \in {"get", "applySnapshot"} /\ g.task = "edit" =>
                wire[c].states # <<>>
           /\ g.pc \in {"live", "eval", "applyReply", "acknowledge"} =>
                wire[c].states # <<>>
           /\ g.pc = "writeState" =>
                wire[c].states = <<>> /\ g.snap.sequence = room[g.home].snap.sequence
  PROVE  IInv'
<1>1. g.home \in Backends
  BY DEF IInv, ConnOK, MembershipOK
<1>2. PICK snap \in Snapshot : snap = room[g.home].snap
  BY <1>1 DEF IInv, TypeOK, RoomType
<1>3. room' = [room EXCEPT ![g.home].snap = snap]
  BY <1>1, <1>2 DEF IInv, TypeOK, RoomType
<1>4. OnlyLags(snap)'
  BY <1>1, <1>2, LagsMore DEF IInv, WatcherOK, TypeOK, OnlyLags
<1>5. room[g.home].snap.sequence <= snap.sequence
  BY <1>2 DEF Snapshot
<1>. QED BY <1>2, <1>3, <1>4, <1>5, HandlerMoves

(* A connection being served, other than one whose room is still looked    *)
(* up, has a client in its room.                                           *)
LEMMA Registered ==
  ASSUME IInv, NEW c \in Conns,
         \/ handler[c].pc \in Serving \ {"get", "applySnapshot"}
         \/ handler[c].pc \in {"get", "applySnapshot"} /\ handler[c].task # "hydrate"
         \/ handler[c].pc \in {"closing", "removed"}
  PROVE  client[c].ticket > 0
BY DEF IInv, TypeOK, ClientType, ConnOK, MembershipOK, Serving, Pcs, Ending

(* What a handler holds after one of its calls has returned.               *)
LEMMA Returned ==
  ASSUME IInv, NEW c \in Conns, NEW pc \in Pcs, Return(c, pc)
  PROVE  LET h == handler[c]
         IN  \E g \in HandlerType :
               /\ handler' = [handler EXCEPT ![c] = g]
               /\ g.home = h.home /\ g.cursor = h.cursor /\ g.boundary = h.boundary
               /\ g.pc = pc /\ g.gets = 0 /\ g.at = 0
<1>. PICK h \in HandlerType : h = handler[c]
  BY DEF IInv, TypeOK
<1>. DEFINE g == [h EXCEPT !.pc = pc, !.task = "none", !.gets = 0,
                    !.snap = EmptyDoc, !.accepted = FALSE, !.at = 0,
                    !.pageEnd = 0, !.expected = 0]
<1>1. g \in HandlerType
  BY DEF HandlerType, EmptyDoc, Snapshot
<1>2. handler' = [handler EXCEPT ![c] = g]
  BY DEF Return
<1>3. /\ g.home = h.home /\ g.cursor = h.cursor /\ g.boundary = h.boundary
      /\ g.pc = pc /\ g.gets = 0 /\ g.at = 0
  BY DEF HandlerType
<1>. HIDE DEF g
<1>. QED BY <1>1, <1>2, <1>3

(* A call of serveWS returns, to the read loop or to the cleanup.          *)
LEMMA ReturnMoves ==
  ASSUME IInv, NEW c \in Conns, NEW pc \in {"live", "eval", "closing"},
         Return(c, pc),
         UNCHANGED <<exists, doc, stream, room, watcher, client, wire, crashes>>,
         client[c].ticket > 0,
         handler[c].pc \in Serving,
         handler[c].pc = "flush" => client[c].sock \notin {"open", "stalled"},
         pc \in {"live", "eval"} =>
           /\ ~client[c].replaying
           /\ handler[c].cursor = 0 => wire[c].states # <<>>
  PROVE  IInv'
<1>. PICK h \in HandlerType : h = handler[c]
  BY DEF IInv, TypeOK
<1>1. PICK g \in HandlerType :
        /\ handler' = [handler EXCEPT ![c] = g]
        /\ g.home = h.home /\ g.cursor = h.cursor /\ g.boundary = h.boundary
        /\ g.pc = pc /\ g.gets = 0
  <2>1. pc \in Pcs
    BY DEF Pcs, Ending
  <2>. QED BY <2>1, Returned
<1>2. handler'[c] = g
  BY <1>1 DEF IInv, TypeOK
<1>3. StoreGrows
  BY StoreStays DEF IInv, storeVars
<1>4. SnapshotOK(c)'
  BY <1>1, <1>2 DEF IInv, ConnOK, SnapshotOK, OnlyLags
<1>5. ReplayOK(c)'
  BY <1>1, <1>2 DEF IInv, ConnOK, ReplayOK, Resumed, Replaying, Serving, Pcs, Ending
<1>. QED BY <1>1, <1>3, <1>4, <1>5, HandlerOnly DEF Serving, Pcs, Ending

(* A handler whose client is in no room yet: nobody else knows of it.      *)
LEMMA Unregistered ==
  ASSUME IInv, NEW c \in Conns, NEW g \in HandlerType,
         handler'[c] = g, client'[c] = client[c], wire'[c] = wire[c],
         client[c].ticket = 0,
         \A b \in Backends :
           c \in room'[b].clients \cup watcher'[b].left =>
             c \in room[b].clients \cup watcher[b].left,
         g.pc \in {"get", "applySnapshot", "register", "closed"},
         g.pc \in {"get", "applySnapshot"} => g.task = "hydrate",
         exists', g.home \in Backends,
         g.pc = "register" => room'[g.home].cached /\ g.at = 0,
         SnapshotOK(c)'
  PROVE  ConnOK(c)'
<1>. PICK k \in ClientType, w \in WireType : k = client[c] /\ w = wire[c]
  BY DEF IInv, TypeOK
<1>1. /\ \A b \in Backends : c \notin room[b].clients \cup watcher[b].left
      /\ k.sock \notin {"open", "stalled"} /\ ~k.replaying /\ w = NoWire
  BY DEF IInv, ConnOK, MembershipOK, ClientType
<1>2. w.updates = <<>> /\ w.states = <<>> /\ w.handoff = -1 /\ Len(w.updates) = 0
  BY <1>1 DEF NoWire
<1>3. MembershipOK(c)'
  BY <1>1 DEF MembershipOK
<1>4. ReplayOK(c)'
  BY <1>1, <1>2 DEF ReplayOK, Replaying, Serving, Pcs, Ending
<1>5. LiveOK(c)'
  BY <1>1, <1>2 DEF LiveOK
<1>6. JoinOK(c)'
  BY <1>1, <1>2 DEF JoinOK
<1>. QED BY <1>3, <1>4, <1>5, <1>6 DEF ConnOK

(* Until Register a connection has no client.                              *)
LEMMA NotRegistered ==
  ASSUME IInv, NEW c \in Conns,
         \/ handler[c].pc \in {"new", "register"}
         \/ handler[c].pc \in {"get", "applySnapshot"} /\ handler[c].task = "hydrate"
  PROVE  client[c].ticket = 0
BY DEF IInv, TypeOK, ClientType, ConnOK, MembershipOK

(* Room.GetSnapshot returns s, which is what the room holds, or will hold. *)
LEMMA AfterSnapshotMoves ==
  ASSUME IInv, NEW c \in Conns, NEW s \in Snapshot,
         handler[c].pc \in {"get", "applySnapshot"}, handler[c].task # "hydrate",
         AfterSnapshot(c, s),
         room' = [room EXCEPT ![handler[c].home].snap = s],
         UNCHANGED <<exists, doc, stream, watcher, client, wire, crashes>>,
         room[handler[c].home].snap.sequence <= s.sequence,
         OnlyLags(s)
  PROVE  IInv'
<1>. PICK h \in HandlerType : h = handler[c]
  BY DEF IInv, TypeOK
<1>0. /\ client[c].ticket > 0 /\ StoreGrows /\ h.pc \in Serving
      /\ ~client[c].replaying /\ ReplayOK(c) /\ SnapshotOK(c)
      /\ h.task \in {"state", "edit"}
  <2>1. client[c].ticket > 0 /\ StoreGrows
    BY StoreStays, Registered DEF IInv, storeVars
  <2>2. h.pc \in Serving \ (Replaying \cup {"join"})
    BY DEF Serving, Pcs, Ending, Replaying
  <2>. QED BY <2>1, <2>2 DEF IInv, ConnOK, ReplayOK, MembershipOK
<1>1. h.cursor = 0 => /\ h.task = "state" => wire[c].states = <<>>
                      /\ h.task = "edit" => wire[c].states # <<>>
  <2>1. JoinOK(c)
    BY DEF IInv, ConnOK
  <2>. QED BY <1>0, <2>1 DEF JoinOK, Resumed
<1>2. PICK g \in HandlerType :
        /\ handler' = [handler EXCEPT ![c] = g]
        /\ g.home = h.home /\ g.cursor = h.cursor /\ g.boundary = h.boundary
        /\ g.pc \in {"writeState", "eval", "live"}
        /\ g.pc = "writeState" => h.task = "state" /\ g.snap = s
        /\ g.pc # "writeState" => h.task = "edit" /\ g.gets = 0
  <2>1. CASE h.task = "state"
    <3>. DEFINE g == [h EXCEPT !.snap = s, !.pc = "writeState"]
    <3>1. g \in HandlerType
      BY DEF HandlerType, Pcs
    <3>2. handler' = [handler EXCEPT ![c] = g]
      BY <2>1 DEF AfterSnapshot
    <3>3. /\ g.home = h.home /\ g.cursor = h.cursor /\ g.boundary = h.boundary
          /\ g.pc = "writeState" /\ g.snap = s
      BY DEF HandlerType
    <3>. HIDE DEF g
    <3>. QED BY <2>1, <3>1, <3>2, <3>3
  <2>2. CASE h.task = "edit"
    <3>1. PICK pc \in {"eval", "live"} : Return(c, pc)
      BY <2>2 DEF AfterSnapshot
    <3>. DEFINE g == [h EXCEPT !.pc = pc, !.task = "none", !.gets = 0,
                        !.snap = EmptyDoc, !.accepted = FALSE, !.at = 0,
                        !.pageEnd = 0, !.expected = 0]
    <3>2. g \in HandlerType
      BY DEF HandlerType, Pcs, Ending, EmptyDoc, Snapshot
    <3>3. handler' = [handler EXCEPT ![c] = g]
      BY <3>1 DEF Return
    <3>4. /\ g.home = h.home /\ g.cursor = h.cursor /\ g.boundary = h.boundary
          /\ g.pc = pc /\ g.gets = 0
      BY DEF HandlerType
    <3>. HIDE DEF g
    <3>. QED BY <2>2, <3>2, <3>3, <3>4
  <2>. QED BY <1>0, <2>1, <2>2
<1>3. handler'[c] = g
  BY <1>2 DEF IInv, TypeOK
<1>4. SnapshotOK(c)'
  <2>1. doc' = doc /\ wire'[c] = wire[c]
    OBVIOUS
  <2>. QED BY <1>0, <1>2, <1>3, <2>1 DEF SnapshotOK, OnlyLags
<1>5. ReplayOK(c)'
  BY <1>0, <1>2, <1>3 DEF ReplayOK, Resumed, Replaying, Serving, Pcs, Ending
<1>6. OnlyLags(s)'
  BY DEF OnlyLags
<1>7. g.cursor = 0 =>
        /\ g.pc \in {"live", "eval"} => wire[c].states # <<>>
        /\ g.pc = "writeState" =>
             wire[c].states = <<>> /\ g.snap.sequence = s.sequence
  BY <1>1, <1>2
<1>8. room' = [room EXCEPT ![g.home].snap = s]
  BY <1>2
<1>. QED BY <1>0, <1>2, <1>4, <1>5, <1>6, <1>7, <1>8, HandlerMoves

(* The room a registered connection is in.                                 *)
LEMMA RoomOf ==
  ASSUME IInv, NEW c \in Conns, client[c].ticket > 0, handler[c].pc \in Serving
  PROVE  LET b == handler[c].home
         IN  /\ b \in Backends
             /\ room[b] \in RoomType /\ room[b].snap \in Snapshot
             /\ OnlyLags(room[b].snap)
             /\ c \in room[b].clients /\ room[b].cached
<1>1. handler[c].home \in Backends /\ c \in room[handler[c].home].clients
  BY DEF IInv, ConnOK, MembershipOK, Serving
<1>2. WatcherOK(handler[c].home) /\ room[handler[c].home] \in RoomType
  BY <1>1 DEF IInv, TypeOK
<1>. QED BY <1>1, <1>2 DEF WatcherOK, NoRoom, RoomType

(* applySnapshot keeps the newer of two documents.                         *)
LEMMA RefreshedRoom ==
  ASSUME NEW r \in RoomType, NEW snap \in Snapshot, OnlyLags(r.snap), OnlyLags(snap)
  PROVE  \E s \in Snapshot :
           /\ Refreshed(r, snap) = [r EXCEPT !.snap = s]
           /\ OnlyLags(s) /\ r.snap.sequence <= s.sequence
<1>. r.snap \in Snapshot /\ r.snap.sequence \in Nat /\ snap.sequence \in Nat
  BY DEF RoomType, Snapshot
<1>1. CASE snap.sequence < r.snap.sequence
  <2>1. Refreshed(r, snap) = r
    BY <1>1 DEF Refreshed
  <2>2. r = [r EXCEPT !.snap = r.snap]
    BY DEF RoomType
  <2>. QED BY <2>1, <2>2
<1>2. CASE ~(snap.sequence < r.snap.sequence)
  BY <1>2 DEF Refreshed
<1>. QED BY <1>1, <1>2

(* Every room_state written so far goes on lagging the store.              *)
LEMMA StatesLag ==
  ASSUME IInv, StoreGrows, NEW c \in Conns, NEW i \in 1 .. Len(wire[c].states)
  PROVE  LET snap == wire[c].states[i].snap
         IN  /\ snap.content <= snap.version
             /\ snap.version <= snap.sequence
             /\ snap.sequence <= doc'.sequence
<1>. PICK w \in WireType : w = wire[c]
  BY DEF IInv, TypeOK
<1>1. w.states \in Seq([snap : Snapshot, after : Nat])
  BY DEF WireType
<1>2. w.states[i].snap \in Snapshot
  <2>1. w.states[i] \in [snap : Snapshot, after : Nat]
    BY <1>1, Elements
  <2>. QED BY <2>1
<1>3. OnlyLags(w.states[i].snap) /\ StoreTypeOK
  BY DEF IInv, TypeOK, ConnOK, SnapshotOK
<1>. QED BY <1>2, <1>3, LagsMore

(* The socket of c gets worse, and its handler may end.                    *)
LEMMA SocketMoves ==
  ASSUME IInv, NEW c \in Conns, NEW g \in HandlerType,
         NEW sock \in {"stalled", "broken"},
         client' = [client EXCEPT ![c].sock = sock],
         handler' = [handler EXCEPT ![c] = g],
         UNCHANGED <<exists, doc, stream, room, watcher, wire, crashes>>,
         sock = "stalled" => client[c].sock = "open",
         \/ g = handler[c]
         \/ /\ handler[c].pc = "removed"
            /\ g = [handler[c] EXCEPT !.pc = "closed"]
  PROVE  IInv'
<1>. PICK h \in HandlerType, k \in ClientType, w \in WireType :
        h = handler[c] /\ k = client[c] /\ w = wire[c]
  BY DEF IInv, TypeOK
<1>. DEFINE m == [k EXCEPT !.sock = sock]
<1>1. /\ m \in ClientType /\ m.sock = sock /\ m.replaying = k.replaying
      /\ m.lastSequence = k.lastSequence /\ m.pending = k.pending
      /\ m.ticket = k.ticket
  BY DEF ClientType
<1>2. client' = [client EXCEPT ![c] = m]
  OBVIOUS
<1>. HIDE DEF m
<1>3. /\ client' \in [Conns -> ClientType]
      /\ client'[c] = m /\ handler'[c] = g /\ wire'[c] = w
      /\ \A d \in Conns \ {c} : client'[d] = client[d]
  BY <1>1, <1>2 DEF IInv, TypeOK
<1>4. /\ g.home = h.home /\ g.cursor = h.cursor /\ g.boundary = h.boundary
      /\ g.at = h.at /\ g.pageEnd = h.pageEnd /\ g.expected = h.expected
      /\ g.gets = h.gets /\ g.snap = h.snap /\ g.task = h.task
      /\ g.pc = h.pc \/ (h.pc = "removed" /\ g.pc = "closed")
  BY DEF HandlerType
<1>5. ConnOK(c) /\ (Usable(c)' => Usable(c)) /\ (Following(c)' <=> Following(c))
  BY <1>1, <1>3, <1>4 DEF IInv, Usable, Following, Home
<1>6. Reached(h.home, c)' = Reached(h.home, c)
  BY DEF Reached
<1>7. MembershipOK(c)'
  BY <1>1, <1>3, <1>4, <1>5 DEF ConnOK, MembershipOK, Serving, Pcs, Ending
<1>8. SnapshotOK(c)'
  BY <1>1, <1>3, <1>4, <1>5 DEF ConnOK, SnapshotOK, OnlyLags
<1>9. ReplayOK(c)'
  BY <1>1, <1>3, <1>4, <1>5, <1>6 DEF ConnOK, ReplayOK, Resumed, Replaying, Serving, Pcs, Ending
<1>10. LiveOK(c)'
  BY <1>1, <1>3, <1>4, <1>5, <1>6 DEF ConnOK, LiveOK, Resumed, Started, From, Home
<1>11. JoinOK(c)'
  BY <1>1, <1>3, <1>4, <1>5, <1>6 DEF ConnOK, JoinOK, Resumed, Serving, Pcs, Ending
<1>12. ConnOK(c)'
  BY <1>7, <1>8, <1>9, <1>10, <1>11 DEF ConnOK
<1>. QED BY <1>3, <1>12, HandlerStep DEF IInv, TypeOK

(* A room_state is written to c, which reads frames from then on.          *)
LEMMA RoomStateMoves ==
  ASSUME IInv, NEW c \in Conns,
         handler[c].pc \in {"writeState", "acknowledge"},
         wire' = RoomState(c, handler[c].snap), Return(c, "live"),
         UNCHANGED <<exists, doc, stream, room, watcher, client, crashes>>
  PROVE  IInv'
<1>. PICK h \in HandlerType, k \in ClientType, w \in WireType :
        h = handler[c] /\ k = client[c] /\ w = wire[c]
  BY DEF IInv, TypeOK
<1>1. /\ k.ticket > 0 /\ h.pc \in {"writeState", "acknowledge"} /\ h.pc \in Serving
      /\ UNCHANGED <<exists, doc, stream, room, watcher, client, crashes>>
      /\ h.snap \in Snapshot /\ OnlyLags(h.snap) /\ ConnOK(c)
  BY Registered DEF IInv, ConnOK, SnapshotOK, HandlerType, Serving, Pcs, Ending
<1>2. PICK e \in [snap : Snapshot, after : Nat] :
        e = [snap |-> h.snap, after |-> Len(w.updates)]
  <2>1. w.updates \in Seq(Nat)
    BY DEF WireType
  <2>2. Len(w.updates) \in Nat
    BY <2>1
  <2>3. [snap |-> h.snap, after |-> Len(w.updates)] \in [snap : Snapshot, after : Nat]
    BY <1>1, <2>2
  <2>. QED BY <2>3
<1>3. PICK x \in WireType :
        /\ wire' = [wire EXCEPT ![c] = x]
        /\ x.updates = w.updates /\ x.handoff = w.handoff
        /\ x.states = Append(w.states, e)
  <2>. DEFINE x == [w EXCEPT !.states = Append(@, e)]
  <2>1. w.states \in Seq([snap : Snapshot, after : Nat])
    BY DEF WireType
  <2>2. Append(w.states, e) \in Seq([snap : Snapshot, after : Nat])
    BY <2>1
  <2>3. /\ x \in WireType /\ x.updates = w.updates /\ x.handoff = w.handoff
        /\ x.states = Append(w.states, e)
    BY <2>2 DEF WireType
  <2>4. wire' = [wire EXCEPT ![c] = x]
    BY <1>2 DEF RoomState
  <2>. HIDE DEF x
  <2>. QED BY <2>3, <2>4
<1>4. PICK g \in HandlerType :
        /\ handler' = [handler EXCEPT ![c] = g]
        /\ g.home = h.home /\ g.cursor = h.cursor /\ g.boundary = h.boundary
        /\ g.pc = "live" /\ g.gets = 0
  BY Returned DEF Pcs
<1>5. /\ handler'[c] = g /\ wire'[c] = x /\ client'[c] = k
      /\ wire' \in [Conns -> WireType] /\ client' \in [Conns -> ClientType]
      /\ \A d \in Conns \ {c} : wire'[d] = wire[d]
  BY <1>1, <1>3, <1>4 DEF IInv, TypeOK
<1>6. w.states \in Seq([snap : Snapshot, after : Nat])
  BY DEF WireType
<1>7. /\ Len(x.states) = Len(w.states) + 1 /\ Len(w.states) \in Nat
      /\ x.states[Len(w.states) + 1] = e
      /\ \A i \in 1 .. Len(w.states) : x.states[i] = w.states[i]
      /\ x.states # <<>>
      /\ w.states = <<>> => x.states[1] = e
      /\ w.states # <<>> => x.states[1] = w.states[1]
  <2>1. x.states = Append(w.states, e) /\ e \in [snap : Snapshot, after : Nat]
    BY <1>2, <1>3
  <2>2. /\ Len(x.states) = Len(w.states) + 1 /\ Len(w.states) \in Nat
        /\ x.states[Len(w.states) + 1] = e
        /\ \A i \in 1 .. Len(w.states) : x.states[i] = w.states[i]
        /\ x.states # <<>>
    BY <1>6, <2>1, Appended
  <2>3. w.states = <<>> => Len(w.states) = 0
    OBVIOUS
  <2>4. w.states # <<>> => 1 \in 1 .. Len(w.states)
    BY <1>6
  <2>. QED BY <2>2, <2>3, <2>4
<1>8. e.snap = h.snap
  BY <1>2
<1>9. MembershipOK(c)'
  BY <1>1, <1>4, <1>5 DEF ConnOK, MembershipOK, Serving, Pcs, Ending
<1>10. SnapshotOK(c)'
  <2>1. \A i \in 1 .. Len(x.states) : OnlyLags(x.states[i].snap)
    <3>1. \A i \in 1 .. Len(w.states) : OnlyLags(w.states[i].snap)
      BY <1>1 DEF ConnOK, SnapshotOK
    <3>2. TAKE i \in 1 .. Len(x.states)
    <3>3. i \in 1 .. Len(w.states) \/ x.states[i] = e
      BY <1>7
    <3>. QED BY <1>1, <1>7, <1>8, <3>1, <3>3
  <2>. QED BY <1>1, <1>4, <1>5, <2>1 DEF SnapshotOK, OnlyLags
<1>11. ReplayOK(c)'
  BY <1>1, <1>3, <1>4, <1>5 DEF ConnOK, ReplayOK, Resumed, Replaying, Serving, Pcs, Ending
<1>12. Reached(h.home, c)' = Reached(h.home, c)
  BY <1>1 DEF Reached
<1>13. (Following(c)' <=> Following(c)) /\ (Usable(c)' <=> Usable(c))
  BY <1>1, <1>4, <1>5 DEF Following, Usable, Home
<1>14. LiveOK(c)'
  BY <1>1, <1>3, <1>4, <1>5, <1>12, <1>13 DEF ConnOK, LiveOK, Resumed, Started, From, Home
<1>15. JoinOK(c)'
  <2>1. JoinOK(c)
    BY <1>1 DEF ConnOK
  <2>2. h.cursor = 0 =>
          /\ w.states # <<>> <=> h.pc = "acknowledge"
          /\ w.updates # <<>> => w.updates[1] <= room[h.home].snap.sequence
    BY <1>1, <2>1 DEF JoinOK, Resumed
  <2>. DEFINE q == x.states[1].snap.sequence
  <2>3. h.cursor = 0 =>
          /\ w.updates # <<>> => w.updates[1] <= q + 1
          /\ w.updates = <<>> /\ Following(c) /\ Usable(c) => Reached(h.home, c) <= q
    <3>1. CASE h.pc = "writeState"
      <4>1. h.cursor = 0 => q = h.snap.sequence
        BY <1>7, <1>8, <2>2, <3>1
      <4>. HIDE DEF q
      <4>. QED BY <2>1, <3>1, <4>1 DEF JoinOK, Resumed
    <3>2. CASE h.pc = "acknowledge"
      <4>1. h.cursor = 0 => w.states # <<>> /\ q = w.states[1].snap.sequence
        BY <1>7, <2>2, <3>2
      <4>. HIDE DEF q
      <4>. QED BY <2>1, <3>2, <4>1 DEF JoinOK, Resumed
    <3>. QED BY <1>1, <3>1, <3>2
  <2>4. Resumed(c)' <=> h.cursor # 0
    BY <1>4, <1>5 DEF Resumed, HandlerType
  <2>. QED BY <1>1, <1>3, <1>4, <1>5, <1>7, <1>12, <1>13, <2>2, <2>3, <2>4 DEF JoinOK
<1>16. ConnOK(c)'
  BY <1>9, <1>10, <1>11, <1>14, <1>15 DEF ConnOK
<1>. QED BY <1>1, <1>4, <1>5, <1>16, HandlerStep

(* The watcher of b moves on without handing an event to a client.         *)
LEMMA WatcherMoves ==
  ASSUME IInv, NEW b \in Backends, NEW v \in WatcherType, NEW snap \in Snapshot,
         watcher' = [watcher EXCEPT ![b] = v],
         room' = [room EXCEPT ![b].snap = snap],
         UNCHANGED <<exists, doc, stream, client, handler, wire, crashes>>,
         room[b].snap.sequence <= snap.sequence,
         room[b].cached,
         WatcherOK(b)',
         v.left \subseteq room[b].clients \cup watcher[b].left,
         \A d \in room[b].clients \cup v.left : Reached(b, d)' = Reached(b, d)
  PROVE  IInv'
<1>1. PICK r \in RoomType : r = room[b]
  BY DEF IInv, TypeOK
<1>2. /\ room'[b] \in RoomType /\ room'[b].snap = snap
      /\ room'[b].cached = r.cached /\ room'[b].clients = r.clients
  BY <1>1 DEF IInv, TypeOK, RoomType
<1>3. /\ room' \in [Backends -> RoomType] /\ watcher' \in [Backends -> WatcherType]
      /\ watcher'[b] = v
      /\ \A a \in Backends \ {b} : room'[a] = room[a] /\ watcher'[a] = watcher[a]
  BY <1>2 DEF IInv, TypeOK
<1>4. TypeOK' /\ StoreOK'
  BY <1>3 DEF IInv, TypeOK, StoreTypeOK, StoreOK, LogIsTheDocument, NoSilentOverwrite
<1>5. ASSUME NEW a \in Backends PROVE WatcherOK(a)'
  <2>1. CASE a = b
    BY <2>1
  <2>2. CASE a # b
    BY <1>3, <2>2 DEF IInv, WatcherOK, OnlyLags
  <2>. QED BY <2>1, <2>2
<1>6. ASSUME NEW d \in Conns PROVE ConnOK(d)'
  <2>1. \A a \in Backends \ {b} : Reached(a, d)' = Reached(a, d)
    BY <1>3 DEF Reached
  <2>2. \A a \in Backends : /\ room[a].cached => room'[a].cached
                            /\ room[a].snap.sequence <= room'[a].snap.sequence
                            /\ d \in room'[a].clients <=> d \in room[a].clients
                            /\ d \in room[a].clients \cup watcher'[a].left
                                 => Reached(a, d)' = Reached(a, d)
                            /\ d \in room'[a].clients \cup watcher'[a].left
                                 => d \in room[a].clients \cup watcher[a].left
    <3>. TAKE a \in Backends
    <3>1. CASE a = b
      BY <1>1, <1>2, <1>3, <3>1
    <3>2. CASE a # b
      BY <1>3, <2>1, <3>2 DEF IInv, TypeOK, RoomType, Snapshot
    <3>. QED BY <3>1, <3>2
  <2>3. doc \in Snapshot /\ Len(stream) \in Nat
    BY StoreFacts DEF IInv
  <2>4. Unaffected(d)
    BY <2>2, <2>3 DEF Unaffected, Snapshot
  <2>. QED BY <1>4, <2>4, Bystander DEF IInv
<1>. QED BY <1>4, <1>5, <1>6 DEF IInv

-----------------------------------------------------------------------------
\* The actions, one by one

(* The peer of a live connection leaves.                                   *)
LEMMA DisconnectInv ==
  ASSUME IInv, NEW c \in Conns, Disconnect(c) PROVE IInv'
<1>1. client[c].ticket > 0
  BY Registered DEF Disconnect, Serving, Pcs, Ending
<1>. QED BY <1>1, ReturnMoves DEF Disconnect, Serving, Pcs, Ending

(* serveWS returns early.                                                  *)
LEMMA AbortInv ==
  ASSUME IInv, NEW c \in Conns, Abort(c) PROVE IInv'
<1>1. client[c].ticket > 0
  BY Registered DEF Abort, Serving, Pcs, Ending
<1>. QED BY <1>1, ReturnMoves DEF Abort, Serving, Pcs, Ending

(* The script of an edit is not run.                                       *)
LEMMA EvaluateFailsInv ==
  ASSUME IInv, NEW c \in Conns, EvaluateFails(c) PROVE IInv'
<1>1. client[c].ticket > 0
  BY Registered DEF EvaluateFails, Serving, Pcs, Ending
<1>2. ~client[c].replaying /\ (handler[c].cursor = 0 => wire[c].states # <<>>)
  BY DEF EvaluateFails, IInv, ConnOK, ReplayOK, JoinOK, Resumed, Replaying, Serving, Pcs, Ending
<1>. QED BY <1>1, <1>2, ReturnMoves DEF EvaluateFails, Serving, Pcs, Ending

(* After the join a resumed connection asks for the boundary, a fresh one  *)
(* for its snapshot.                                                       *)
LEMMA JoinInv ==
  ASSUME IInv, NEW c \in Conns, Join(c) PROVE IInv'
<1>. PICK h \in HandlerType : h = handler[c]
  BY DEF IInv, TypeOK
<1>1. PICK g \in HandlerType :
        /\ handler' = [handler EXCEPT ![c] = g]
        /\ g.home = h.home /\ g.cursor = h.cursor /\ g.boundary = h.boundary
        /\ g.task = "state" /\ g.gets = h.gets /\ g.at = h.at
        /\ g.pc = IF h.cursor > 0 THEN "boundary" ELSE "get"
  <2>. DEFINE g == [h EXCEPT !.task = "state",
                      !.pc = IF h.cursor > 0 THEN "boundary" ELSE "get"]
  <2>1. g \in HandlerType
    BY DEF HandlerType, Pcs, Ending
  <2>2. handler' = [handler EXCEPT ![c] = g]
    BY DEF Join
  <2>. QED BY <2>1, <2>2 DEF HandlerType
<1>2. handler'[c] = g
  BY <1>1 DEF IInv, TypeOK
<1>3. StoreGrows /\ client[c].ticket > 0
  BY StoreStays, Registered DEF Join, IInv, storeVars, Serving, Pcs, Ending
<1>4. SnapshotOK(c)'
  BY <1>1, <1>2 DEF Join, IInv, ConnOK, SnapshotOK, OnlyLags
<1>5. ReplayOK(c)'
  <2>1. ReplayOK(c)
    BY DEF IInv, ConnOK
  <2>2. Reached(h.home, c)' = Reached(h.home, c)
    BY DEF Join, Reached
  <2>. QED BY <1>1, <1>2, <2>1, <2>2 DEF Join, ReplayOK, Resumed, Replaying, Serving, Pcs, Ending
<1>6. g.cursor = 0 => wire[c].states = <<>>
  <2>1. JoinOK(c)
    BY DEF IInv, ConnOK
  <2>. QED BY <1>1, <2>1 DEF Join, JoinOK, Resumed
<1>. QED BY <1>1, <1>3, <1>4, <1>5, <1>6, HandlerOnly DEF Join, Serving, Pcs, Ending

(* resume_started is written: nothing else changes.                        *)
LEMMA WriteStartedInv ==
  ASSUME IInv, NEW c \in Conns, WriteStarted(c) PROVE IInv'
<1>. PICK h \in HandlerType : h = handler[c]
  BY DEF IInv, TypeOK
<1>1. PICK g \in HandlerType :
        /\ handler' = [handler EXCEPT ![c] = g]
        /\ g.home = h.home /\ g.cursor = h.cursor /\ g.boundary = h.boundary
        /\ g.expected = h.expected /\ g.at = h.at
        /\ g.pc = "page"
  <2>. DEFINE g == [h EXCEPT !.pc = "page"]
  <2>1. g \in HandlerType
    BY DEF HandlerType, Pcs
  <2>2. handler' = [handler EXCEPT ![c] = g]
    BY DEF WriteStarted, Goto
  <2>. QED BY <2>1, <2>2 DEF HandlerType
<1>2. handler'[c] = g
  BY <1>1 DEF IInv, TypeOK
<1>3. StoreGrows /\ client[c].ticket > 0
  BY StoreStays, Registered DEF WriteStarted, IInv, storeVars, Serving, Pcs, Ending
<1>4. SnapshotOK(c)'
  BY <1>1, <1>2 DEF WriteStarted, IInv, ConnOK, SnapshotOK, OnlyLags
<1>5. ReplayOK(c)'
  <2>1. ReplayOK(c)
    BY DEF IInv, ConnOK
  <2>. QED BY <1>1, <1>2, <2>1 DEF WriteStarted, ReplayOK, Resumed, Replaying, Serving, Pcs, Ending, Reached
<1>. QED BY <1>1, <1>3, <1>4, <1>5, HandlerOnly DEF WriteStarted, Serving, Pcs, Ending

(* A frame is read: a live connection is not replaying.                    *)
LEMMA ReceiveEditInv ==
  ASSUME IInv, NEW c \in Conns, ReceiveEdit(c) PROVE IInv'
<1>. PICK h \in HandlerType : h = handler[c]
  BY DEF IInv, TypeOK
<1>1. PICK g \in HandlerType :
        /\ handler' = [handler EXCEPT ![c] = g]
        /\ g.home = h.home /\ g.cursor = h.cursor /\ g.boundary = h.boundary
        /\ g.gets = h.gets /\ g.task = "edit" /\ g.pc = "get"
  <2>. DEFINE g == [h EXCEPT !.task = "edit", !.pc = "get", !.edits = h.edits + 1]
  <2>1. g \in HandlerType
    <3>1. h.edits + 1 \in Nat /\ "get" \in Pcs
      BY DEF HandlerType, Pcs
    <3>. QED BY <3>1 DEF HandlerType
  <2>2. handler' = [handler EXCEPT ![c] = g]
    BY DEF ReceiveEdit
  <2>. QED BY <2>1, <2>2 DEF HandlerType
<1>2. handler'[c] = g
  BY <1>1 DEF IInv, TypeOK
<1>3. StoreGrows /\ client[c].ticket > 0
  BY StoreStays, Registered DEF ReceiveEdit, IInv, storeVars, Serving, Pcs, Ending
<1>4. SnapshotOK(c)'
  BY <1>1, <1>2 DEF ReceiveEdit, IInv, ConnOK, SnapshotOK, OnlyLags
<1>5. ReplayOK(c)'
  BY <1>1, <1>2 DEF ReceiveEdit, IInv, ConnOK, ReplayOK, Resumed, Replaying, Serving, Pcs, Ending
<1>6. g.cursor = 0 => wire[c].states # <<>>
  <2>1. JoinOK(c)
    BY DEF IInv, ConnOK
  <2>. QED BY <1>1, <2>1 DEF ReceiveEdit, JoinOK, Resumed
<1>. QED BY <1>1, <1>3, <1>4, <1>5, <1>6, HandlerOnly DEF ReceiveEdit, Serving, Pcs, Ending

(* The boundary is the end of the stream, which no watcher is beyond: the  *)
(* buffer covers what the replay will not.                                 *)
LEMMA ReadBoundaryInv ==
  ASSUME IInv, NEW c \in Conns, ReadBoundary(c) PROVE IInv'
<1>. PICK h \in HandlerType, k \in ClientType : h = handler[c] /\ k = client[c]
  BY DEF IInv, TypeOK
<1>0. /\ Len(stream) \in Nat /\ LastStreamID = Len(stream)
      /\ SequenceAt(LastStreamID) = Len(stream)
  BY StoreFacts DEF IInv
<1>1. PICK g \in HandlerType :
        /\ handler' = [handler EXCEPT ![c] = g]
        /\ g.home = h.home /\ g.cursor = h.cursor /\ g.boundary = Len(stream)
        /\ g.expected = h.cursor + 1 /\ g.at = h.at
        /\ g.pc = IF h.cursor > Len(stream) THEN "closing" ELSE "started"
  <2>. DEFINE pc == IF h.cursor > Len(stream) THEN "closing" ELSE "started"
              g == [h EXCEPT !.boundary = Len(stream), !.expected = h.cursor + 1,
                             !.pc = pc]
  <2>1. h.cursor + 1 \in Nat /\ pc \in Pcs
    BY DEF HandlerType, Pcs, Ending
  <2>2. g \in HandlerType
    BY <1>0, <2>1 DEF HandlerType
  <2>3. handler' = [handler EXCEPT ![c] = g]
    BY <1>0 DEF ReadBoundary
  <2>. QED BY <2>2, <2>3 DEF HandlerType
<1>2. handler'[c] = g
  BY <1>1 DEF IInv, TypeOK
<1>3. StoreGrows /\ client[c].ticket > 0
  BY StoreStays, Registered DEF ReadBoundary, IInv, storeVars, Serving, Pcs, Ending
<1>4. SnapshotOK(c)'
  BY <1>1, <1>2 DEF ReadBoundary, IInv, ConnOK, SnapshotOK, OnlyLags
<1>5. /\ h.home \in Backends /\ c \in room[h.home].clients
      /\ Reached(h.home, c) \in Nat /\ Reached(h.home, c) <= Len(stream)
  <2>1. h.home \in Backends /\ c \in room[h.home].clients
    BY <1>3 DEF IInv, ConnOK, MembershipOK, ReadBoundary, Serving, Pcs, Ending
  <2>. QED BY <2>1, <1>0 DEF IInv, TypeOK, WatcherOK, WatcherType, Reached
<1>6. ReplayOK(c)'
  <2>1. ReplayOK(c) /\ k.pending \subseteq Nat
    BY DEF IInv, ConnOK, ClientType
  <2>2. /\ h.pc = "boundary" /\ h.at = 0 /\ k.replaying /\ h.cursor > 0
        /\ k.lastSequence = h.cursor /\ wire[c].handoff = -1
        /\ wire[c].updates = <<>>
        /\ \A s \in k.pending : s <= Reached(h.home, c)
    BY <2>1 DEF ReadBoundary, ReplayOK, Resumed, Replaying
  <2>3. Reached(h.home, c)' = Reached(h.home, c)
    BY DEF ReadBoundary, Reached
  <2>4. client'[c] = k /\ wire'[c] = wire[c] /\ stream' = stream
    BY DEF ReadBoundary
  <2>5. h.cursor \in Nat /\ Len(<<>>) = 0
    BY DEF HandlerType
  <2>6. CASE h.cursor > Len(stream)
    <3>1. g.pc = "closing"
      BY <1>1, <2>6
    <3>. QED BY <1>1, <1>2, <2>2, <2>4, <3>1
         DEF ReplayOK, Resumed, Replaying, Serving, Pcs, Ending
  <2>7. CASE ~(h.cursor > Len(stream))
    <3>1. g.pc = "started"
      BY <1>1, <2>7
    <3>2. /\ h.cursor <= Len(stream) /\ h.cursor < h.cursor + 1
          /\ h.cursor + 1 <= Len(stream) + 1 /\ (h.cursor + 1) - h.cursor - 1 = 0
          /\ 0 <= Len(stream)
          /\ h.cursor + 1 = (IF 0 < h.cursor THEN h.cursor ELSE 0) + 1
          /\ \A s \in Len(stream) + 1 .. Reached(h.home, c) : s \in k.pending
      BY <1>0, <1>5, <2>2, <2>5, <2>7
    <3>. QED BY <1>1, <1>2, <2>2, <2>3, <2>4, <2>5, <3>1, <3>2
         DEF ReplayOK, Resumed, Replaying, Serving
  <2>. QED BY <2>6, <2>7
<1>7. wire[c].handoff = -1
  BY DEF IInv, ConnOK, ReplayOK, ReadBoundary, Replaying
<1>. QED BY <1>1, <1>3, <1>4, <1>6, <1>7, HandlerOnly DEF ReadBoundary, Serving, Pcs, Ending

(* The next page lies between what was visited and the boundary, and the   *)
(* loop ends exactly when the last expected entry was written.             *)
LEMMA ReadPageInv ==
  ASSUME IInv, NEW c \in Conns, ReadPage(c) PROVE IInv'
<1>. PICK h \in HandlerType, k \in ClientType : h = handler[c] /\ k = client[c]
  BY DEF IInv, TypeOK
<1>. DEFINE end == IF h.at + PageSize < h.boundary THEN h.at + PageSize ELSE h.boundary
            pc  == IF h.expected > h.boundary THEN "finish"
                   ELSE IF h.at = end THEN "closing" ELSE "visit"
<1>0. /\ Len(stream) \in Nat
      /\ h.boundary <= Len(stream) /\ SequenceAt(h.boundary) = h.boundary
  BY StoreFacts DEF IInv, ConnOK, ReplayOK, ReadPage, HandlerType
<1>1. PICK g \in HandlerType :
        /\ handler' = [handler EXCEPT ![c] = g]
        /\ g.home = h.home /\ g.cursor = h.cursor /\ g.boundary = h.boundary
        /\ g.expected = h.expected /\ g.at = h.at
        /\ g.pageEnd = end /\ g.pc = pc
  <2>. DEFINE g == [h EXCEPT !.pageEnd = end, !.pc = pc]
  <2>1. end \in Nat /\ pc \in Pcs
    BY DeliveryAssumption DEF HandlerType, Pcs, Ending
  <2>2. handler' = [handler EXCEPT ![c] = g]
    BY <1>0 DEF ReadPage
  <2>. HIDE DEF pc, end
  <2>3. /\ g \in HandlerType
        /\ g.home = h.home /\ g.cursor = h.cursor /\ g.boundary = h.boundary
        /\ g.expected = h.expected /\ g.at = h.at
        /\ g.pageEnd = end /\ g.pc = pc
    BY <2>1 DEF HandlerType
  <2>. HIDE DEF g
  <2>. QED BY <2>2, <2>3
<1>2. handler'[c] = g
  BY <1>1 DEF IInv, TypeOK
<1>3. StoreGrows /\ client[c].ticket > 0
  BY StoreStays, Registered DEF ReadPage, IInv, storeVars, Serving, Pcs, Ending
<1>4. SnapshotOK(c)'
  BY <1>1, <1>2 DEF ReadPage, IInv, ConnOK, SnapshotOK, OnlyLags
<1>5. ReplayOK(c)'
  <2>1. ReplayOK(c)
    BY DEF IInv, ConnOK
  <2>2. h.at <= h.boundary /\ h.pc = "page"
    BY <2>1 DEF ReplayOK, ReadPage
  <2>3. h.at <= end /\ end <= h.boundary
    BY <2>2, DeliveryAssumption DEF HandlerType
  <2>4. g.pc = "visit" => g.at < g.pageEnd /\ g.pageEnd <= g.boundary
    BY <1>1, <2>3 DEF HandlerType
  <2>5. g.pc = "finish" => g.expected > g.boundary
    BY <1>1
  <2>6. Reached(h.home, c)' = Reached(h.home, c)
    BY DEF ReadPage, Reached
  <2>7. g.pc \in {"finish", "closing", "visit"}
    BY <1>1
  <2>8. CASE g.pc = "closing"
    BY <1>1, <1>2, <2>1, <2>8 DEF ReadPage, ReplayOK, Resumed, Replaying, Serving, Pcs, Ending
  <2>9. CASE g.pc # "closing"
    <3>1. /\ client'[c] = k /\ wire'[c] = wire[c] /\ stream' = stream
          /\ g.pc \in {"finish", "visit"}
      BY <2>7, <2>9 DEF ReadPage
    <3>2. g.pc = "finish" => g.expected = g.boundary + 1
      <4>1. /\ h.expected <= h.boundary + 1 /\ h.expected \in Nat /\ h.boundary \in Nat
            /\ g.expected = h.expected /\ g.boundary = h.boundary
        BY <1>1, <2>1, <2>2 DEF ReplayOK, HandlerType
      <4>2. h.expected > h.boundary => h.expected = h.boundary + 1
        BY <4>1
      <4>. QED BY <2>5, <4>1, <4>2
    <3>. QED BY <1>1, <1>2, <2>1, <2>2, <2>4, <2>6, <3>1, <3>2
             DEF ReplayOK, Resumed, Replaying, Serving, Pcs, Ending
  <2>. QED BY <2>8, <2>9
<1>. QED BY <1>1, <1>3, <1>4, <1>5, HandlerOnly DEF ReadPage, Serving, Pcs, Ending

(* A GET reads a key that has only grown since the GET before it.          *)
LEMMA GetNextInv ==
  ASSUME IInv, NEW c \in Conns, GetNext(c) PROVE IInv'
<1>. PICK h \in HandlerType : h = handler[c]
  BY DEF IInv, TypeOK
<1>. DEFINE i  == h.gets + 1
            pc == IF i = 3 THEN "applySnapshot" ELSE "get"
            s  == [h.snap EXCEPT ![GETs[i]] = doc[GETs[i]]]
<1>0. SnapshotOK(c) /\ h.pc = "get"
  BY DEF IInv, ConnOK, GetNext
<1>1. /\ h.gets \in {0, 1, 2} /\ h.snap \in Snapshot
  BY <1>0 DEF SnapshotOK, HandlerType
<1>2. /\ doc \in Snapshot
      /\ doc.content = Len(stream) /\ doc.version = Len(stream)
      /\ doc.sequence = Len(stream) /\ Len(stream) \in Nat
  BY StoreFacts DEF IInv
<1>3. /\ h.gets = 0 => s = [h.snap EXCEPT !.content = doc.content]
      /\ h.gets = 1 => s = [h.snap EXCEPT !.version = doc.version]
      /\ h.gets = 2 => s = [h.snap EXCEPT !.sequence = doc.sequence]
  BY DEF GETs
<1>4. s \in Snapshot
  BY <1>1, <1>2, <1>3 DEF Snapshot
<1>5. PICK g \in HandlerType :
        /\ handler' = [handler EXCEPT ![c] = g]
        /\ g.home = h.home /\ g.cursor = h.cursor /\ g.boundary = h.boundary
        /\ g.task = h.task /\ g.gets = i /\ g.pc = pc /\ g.snap = s
  <2>. DEFINE g == [h EXCEPT !.snap = s, !.gets = i, !.pc = pc]
  <2>1. i \in Nat /\ pc \in Pcs
    BY <1>1 DEF Pcs
  <2>2. g \in HandlerType
    BY <1>4, <2>1 DEF HandlerType
  <2>3. handler' = [handler EXCEPT ![c] = g]
    <3>1. Len(GETs) = 3
      BY DEF GETs
    <3>. QED BY <3>1 DEF GetNext
  <2>4. /\ g.home = h.home /\ g.cursor = h.cursor /\ g.boundary = h.boundary
        /\ g.task = h.task /\ g.gets = i /\ g.pc = pc /\ g.snap = s
    BY DEF HandlerType
  <2>. HIDE DEF g, i, pc, s
  <2>. QED BY <2>2, <2>3, <2>4
<1>6. handler'[c] = g
  BY <1>5 DEF IInv, TypeOK
<1>7. StoreGrows
  BY StoreStays DEF GetNext, IInv, storeVars
<1>8. SnapshotOK(c)'
  <2>1. /\ i = 1 => s.content <= doc.version
        /\ i = 2 => s.content <= s.version /\ s.content <= doc.version
                    /\ s.version <= doc.sequence
        /\ i = 3 => OnlyLags(s)
    BY <1>0, <1>1, <1>2, <1>3 DEF SnapshotOK, OnlyLags, Snapshot
  <2>2. i \in {1, 2, 3}
    BY <1>1
  <2>3. \A n \in 1 .. Len(wire[c].states) : OnlyLags(wire[c].states[n].snap)'
    BY <1>0 DEF SnapshotOK, OnlyLags, GetNext
  <2>4. doc' = doc /\ wire'[c] = wire[c]
    BY DEF GetNext
  <2>. HIDE DEF s, i
  <2>5. pc = (IF i = 3 THEN "applySnapshot" ELSE "get")
    OBVIOUS
  <2>. HIDE DEF pc
  <2>. QED BY <1>5, <1>6, <2>1, <2>2, <2>3, <2>4, <2>5 DEF SnapshotOK, OnlyLags
<1>9. CASE client[c].ticket > 0
  <2>1. ReplayOK(c)'
    <3>1. ReplayOK(c)
      BY DEF IInv, ConnOK
    <3>2. UNCHANGED <<stream, client, wire>>
      BY DEF GetNext
    <3>. QED BY <1>0, <1>5, <1>6, <3>1, <3>2
             DEF ReplayOK, Resumed, Replaying, Serving, Pcs, Ending
  <2>2. JoinOK(c) /\ h.task \in {"state", "edit"}
    BY <1>0, <1>9 DEF IInv, ConnOK, MembershipOK
  <2>3. h.cursor = 0 => /\ h.task = "state" => wire[c].states = <<>>
                        /\ h.task = "edit" => wire[c].states # <<>>
    BY <1>0, <2>2 DEF JoinOK, Resumed
  <2>4. UNCHANGED <<room, watcher, client, wire, crashes>>
    BY DEF GetNext
  <2>5. g.pc \in {"get", "applySnapshot"} /\ h.pc \in Serving
    BY <1>0, <1>5 DEF Serving, Pcs, Ending
  <2>. HIDE DEF i, pc, s
  <2>. QED BY <1>5, <1>7, <1>8, <1>9, <2>1, <2>2, <2>3, <2>4, <2>5, HandlerOnly
<1>10. CASE client[c].ticket = 0
  <2>1. ConnOK(c)'
    <3>1. exists /\ h.home \in Backends /\ h.task = "hydrate"
      BY <1>0, <1>10 DEF IInv, ConnOK, MembershipOK
    <3>2. /\ UNCHANGED <<exists, room, watcher, client, wire>>
          /\ g.pc \in {"get", "applySnapshot"} /\ g.task = "hydrate"
      BY <1>5, <3>1 DEF GetNext
    <3>. HIDE DEF i, pc, s
    <3>. QED BY <1>5, <1>6, <1>8, <1>10, <3>1, <3>2, Unregistered
  <2>. QED BY <1>5, <2>1, HandlerStep DEF GetNext, IInv, TypeOK
<1>. QED BY <1>9, <1>10 DEF IInv, TypeOK, ClientType

(* Room.GetSnapshot refreshes the cached room with what was read.          *)
LEMMA ApplySnapshotInv ==
  ASSUME IInv, NEW c \in Conns, ApplySnapshot(c) PROVE IInv'
<1>. PICK h \in HandlerType : h = handler[c]
  BY DEF IInv, TypeOK
<1>1. /\ client[c].ticket > 0 /\ h.pc \in Serving /\ h.snap \in Snapshot
      /\ OnlyLags(h.snap)
  BY Registered DEF ApplySnapshot, IInv, ConnOK, SnapshotOK, HandlerType, Serving, Pcs, Ending
<1>2. PICK r \in RoomType : /\ r = room[h.home] /\ h.home \in Backends
                            /\ r.snap \in Snapshot /\ OnlyLags(r.snap)
  BY <1>1, RoomOf
<1>3. PICK s \in Snapshot :
        /\ Refreshed(r, h.snap) = [r EXCEPT !.snap = s]
        /\ OnlyLags(s) /\ r.snap.sequence <= s.sequence
  BY <1>1, <1>2, RefreshedRoom
<1>4. room' = [room EXCEPT ![h.home].snap = s] /\ AfterSnapshot(c, s)
  <2>1. Refreshed(r, h.snap).snap = s
    BY <1>3 DEF RoomType
  <2>. QED BY <1>2, <1>3, <2>1 DEF ApplySnapshot, Home
<1>. QED BY <1>2, <1>3, <1>4, AfterSnapshotMoves DEF ApplySnapshot

(* Without an answer from Redis the cached room stands in.                 *)
LEMMA SnapshotFailsInv ==
  ASSUME IInv, NEW c \in Conns, SnapshotFails(c) PROVE IInv'
<1>. PICK h \in HandlerType : h = handler[c]
  BY DEF IInv, TypeOK
<1>1. CASE h.task # "hydrate"
  <2>1. client[c].ticket > 0 /\ h.pc \in Serving
    BY <1>1, Registered DEF SnapshotFails, Serving, Pcs, Ending
  <2>2. PICK s \in Snapshot :
          s = room[h.home].snap /\ OnlyLags(s) /\ h.home \in Backends
    BY <2>1, RoomOf
  <2>3. room' = [room EXCEPT ![h.home].snap = s]
    BY <2>2 DEF SnapshotFails, IInv, TypeOK, RoomType
  <2>4. room[h.home].snap.sequence <= s.sequence
    BY <2>2 DEF Snapshot
  <2>. QED BY <1>1, <2>2, <2>3, <2>4, AfterSnapshotMoves DEF SnapshotFails, Home
<1>2. CASE h.task = "hydrate"
  <2>1. client[c].ticket = 0 /\ exists /\ h.home \in Backends
    BY <1>2, NotRegistered DEF SnapshotFails, IInv, ConnOK, MembershipOK
  <2>. DEFINE g == [h EXCEPT !.pc = "closed", !.task = "none", !.gets = 0,
                      !.snap = EmptyDoc, !.accepted = FALSE, !.at = 0,
                      !.pageEnd = 0, !.expected = 0]
  <2>2. g \in HandlerType
    BY DEF HandlerType, Pcs, Ending, EmptyDoc, Snapshot
  <2>3. handler' = [handler EXCEPT ![c] = g]
    BY <1>2 DEF SnapshotFails, Return
  <2>4. g.home = h.home /\ g.pc = "closed"
    BY DEF HandlerType
  <2>. HIDE DEF g
  <2>5. handler'[c] = g
    BY <2>3 DEF IInv, TypeOK
  <2>6. SnapshotOK(c)'
    BY <2>4, <2>5 DEF SnapshotFails, IInv, ConnOK, SnapshotOK, OnlyLags
  <2>7. ConnOK(c)'
    BY <2>1, <2>2, <2>4, <2>5, <2>6, Unregistered DEF SnapshotFails
  <2>. QED BY <2>2, <2>3, <2>7, HandlerStep DEF SnapshotFails, IInv, TypeOK
<1>. QED BY <1>1, <1>2

(* The reply of the edit script reaches the cached room.                   *)
LEMMA ApplyReplyToRoomInv ==
  ASSUME IInv, NEW c \in Conns, ApplyReplyToRoom(c) PROVE IInv'
<1>. PICK h \in HandlerType : h = handler[c]
  BY DEF IInv, TypeOK
<1>1. /\ client[c].ticket > 0 /\ h.pc = "applyReply" /\ h.pc \in Serving
      /\ h.snap \in Snapshot /\ OnlyLags(h.snap)
  BY Registered DEF ApplyReplyToRoom, IInv, ConnOK, SnapshotOK, HandlerType,
                    Serving, Pcs, Ending
<1>2. PICK r \in RoomType : /\ r = room[h.home] /\ h.home \in Backends
                            /\ r.snap \in Snapshot /\ OnlyLags(r.snap)
  BY <1>1, RoomOf
<1>3. PICK s \in Snapshot :
        /\ Refreshed(r, h.snap) = [r EXCEPT !.snap = s]
        /\ OnlyLags(s) /\ r.snap.sequence <= s.sequence
  BY <1>1, <1>2, RefreshedRoom
<1>4. room' = [room EXCEPT ![h.home].snap = s]
  BY <1>2, <1>3 DEF ApplyReplyToRoom, Home
<1>5. PICK g \in HandlerType :
        /\ handler' = [handler EXCEPT ![c] = g]
        /\ g.home = h.home /\ g.cursor = h.cursor /\ g.boundary = h.boundary
        /\ g.snap = h.snap /\ g.pc = "acknowledge"
  <2>. DEFINE g == [h EXCEPT !.pc = "acknowledge"]
  <2>1. g \in HandlerType
    BY DEF HandlerType, Pcs
  <2>2. handler' = [handler EXCEPT ![c] = g]
    BY DEF ApplyReplyToRoom, Goto
  <2>. QED BY <2>1, <2>2 DEF HandlerType
<1>6. handler'[c] = g
  BY <1>5 DEF IInv, TypeOK
<1>7. StoreGrows /\ OnlyLags(s)' /\ g.home = h.home
  BY <1>3, <1>5, StoreStays DEF ApplyReplyToRoom, IInv, storeVars, OnlyLags
<1>8. SnapshotOK(c)'
  <2>1. doc' = doc /\ wire'[c] = wire[c] /\ SnapshotOK(c)
    BY DEF ApplyReplyToRoom, IInv, ConnOK
  <2>. QED BY <1>1, <1>5, <1>6, <2>1 DEF SnapshotOK, OnlyLags
<1>9. ReplayOK(c)'
  <2>1. ReplayOK(c) /\ client'[c] = client[c] /\ wire'[c] = wire[c] /\ stream' = stream
    BY DEF ApplyReplyToRoom, IInv, ConnOK
  <2>. QED BY <1>1, <1>5, <1>6, <2>1 DEF ReplayOK, Resumed, Replaying, Serving, Pcs, Ending
<1>10. g.cursor = 0 => wire[c].states # <<>>
  <2>1. JoinOK(c)
    BY DEF IInv, ConnOK
  <2>. QED BY <1>1, <1>5, <2>1 DEF JoinOK, Resumed
<1>11. UNCHANGED <<watcher, client, wire, crashes>>
  BY DEF ApplyReplyToRoom
<1>. QED BY <1>1, <1>2, <1>3, <1>4, <1>5, <1>7, <1>8, <1>9, <1>10, <1>11, HandlerMoves

(* The script of the edit runs; its reply may be lost.                     *)
LEMMA EvaluateInv ==
  ASSUME IInv, NEW c \in Conns, Evaluate(c) PROVE IInv'
<1>. PICK h \in HandlerType : h = handler[c]
  BY DEF IInv, TypeOK
<1>. PICK base \in Bases :
       /\ ApplyOperationScript(base)
       /\ \/ handler' = [handler EXCEPT ![c] =
                [@ EXCEPT !.snap = ApplyReply(base).snap,
                          !.accepted = ApplyReply(base).accepted,
                          !.pc = "applyReply"]]
          \/ Return(c, "live")
  BY DEF Evaluate
<1>1. /\ client[c].ticket > 0 /\ h.pc = "eval" /\ h.pc \in Serving
      /\ UNCHANGED <<room, watcher, client, wire, crashes>>
  BY Registered DEF Evaluate, Serving, Pcs, Ending
<1>2. /\ h.home \in Backends /\ exists
  BY <1>1 DEF IInv, ConnOK, MembershipOK
<1>3. /\ Len(stream) \in Nat /\ doc \in Snapshot
      /\ doc.content = Len(stream) /\ doc.version = Len(stream)
      /\ doc.sequence = Len(stream)
  BY StoreFacts DEF IInv
<1>4. base \in Nat
  BY BoundAssumption DEF Bases
<1>5. StoreInv'
  <2>1. StoreInv
    BY DEF IInv, TypeOK, StoreOK, StoreInv
  <2>. QED BY <1>2, <1>4, <2>1, ApplyOperationInv
<1>6. StoreGrows
  <2>1. /\ exists' = exists
        /\ Len(stream) <= Len(stream') /\ doc.content <= doc'.content
        /\ doc.version <= doc'.version /\ doc.sequence <= doc'.sequence
    <3>1. CASE Refused(base)
      BY <1>3, <3>1 DEF ApplyOperationScript, Snapshot
    <3>2. CASE ~Refused(base)
      <4>1. /\ doc' = [content |-> Len(stream) + 1, version |-> doc.version + 1,
                       sequence |-> doc.sequence + 1]
            /\ Len(stream') = Len(stream) + 1
        BY <3>2 DEF ApplyOperationScript, NewText, IInv, TypeOK, StoreTypeOK
      <4>. QED BY <1>3, <4>1 DEF ApplyOperationScript
    <3>. QED BY <3>1, <3>2
  <2>. QED BY <1>5, <2>1 DEF StoreGrows, StoreInv, StoreOK
<1>7. LET s == ApplyReply(base).snap IN
        s \in Snapshot /\ s = doc' /\ ApplyReply(base).accepted \in BOOLEAN
  BY <1>3 DEF ApplyReply, ApplyOperationScript, NewText, Snapshot
<1>8. PICK g \in HandlerType :
        /\ handler' = [handler EXCEPT ![c] = g]
        /\ g.home = h.home /\ g.cursor = h.cursor /\ g.boundary = h.boundary
        /\ \/ g.pc = "applyReply" /\ g.snap = doc'
           \/ g.pc = "live" /\ g.gets = 0
  <2>1. CASE Return(c, "live")
    <3>. DEFINE g == [h EXCEPT !.pc = "live", !.task = "none", !.gets = 0,
                        !.snap = EmptyDoc, !.accepted = FALSE, !.at = 0,
                        !.pageEnd = 0, !.expected = 0]
    <3>1. g \in HandlerType
      BY DEF HandlerType, Pcs, Ending, EmptyDoc, Snapshot
    <3>2. handler' = [handler EXCEPT ![c] = g]
      BY <2>1 DEF Return
    <3>3. /\ g.home = h.home /\ g.cursor = h.cursor /\ g.boundary = h.boundary
          /\ g.pc = "live" /\ g.gets = 0
      BY DEF HandlerType
    <3>. HIDE DEF g
    <3>. QED BY <3>1, <3>2, <3>3
  <2>2. CASE ~Return(c, "live")
    <3>. DEFINE g == [h EXCEPT !.snap = ApplyReply(base).snap,
                        !.accepted = ApplyReply(base).accepted,
                        !.pc = "applyReply"]
    <3>1. g \in HandlerType
      BY <1>7 DEF HandlerType, Pcs
    <3>2. handler' = [handler EXCEPT ![c] = g]
      BY <2>2
    <3>3. /\ g.home = h.home /\ g.cursor = h.cursor /\ g.boundary = h.boundary
          /\ g.pc = "applyReply" /\ g.snap = doc'
      BY <1>7 DEF HandlerType
    <3>. HIDE DEF g
    <3>. QED BY <3>1, <3>2, <3>3
  <2>. QED BY <2>1, <2>2
<1>9. handler'[c] = g
  BY <1>8 DEF IInv, TypeOK
<1>10. SnapshotOK(c)'
  <2>1. wire'[c] = wire[c] /\ SnapshotOK(c)
    BY <1>1 DEF IInv, ConnOK
  <2>2. OnlyLags(doc)'
    <3>1. StoreTypeOK' /\ doc'.content = Len(stream)' /\ doc'.version = Len(stream)' /\ doc'.sequence = Len(stream)'
      BY <1>5 DEF StoreInv, LogIsTheDocument
    <3>2. Len(stream)' \in Nat
      BY <3>1 DEF StoreTypeOK
    <3>. QED BY <3>1, <3>2 DEF OnlyLags
  <2>3. \A i \in 1 .. Len(wire[c].states) :
          LET snap == wire[c].states[i].snap
          IN  /\ snap.content <= snap.version
              /\ snap.version <= snap.sequence
              /\ snap.sequence <= doc'.sequence
    BY <1>6, StatesLag
  <2>. QED BY <1>8, <1>9, <2>1, <2>2, <2>3 DEF SnapshotOK, OnlyLags
<1>11. ReplayOK(c)'
  <2>1. ReplayOK(c) /\ client'[c] = client[c] /\ wire'[c] = wire[c]
    BY <1>1 DEF IInv, ConnOK
  <2>. QED BY <1>1, <1>8, <1>9, <2>1 DEF ReplayOK, Resumed, Replaying, Serving, Pcs, Ending
<1>12. g.cursor = 0 => wire[c].states # <<>>
  <2>1. JoinOK(c)
    BY DEF IInv, ConnOK
  <2>. QED BY <1>1, <1>8, <2>1 DEF JoinOK, Resumed
<1>. QED BY <1>1, <1>6, <1>8, <1>10, <1>11, <1>12, HandlerOnly

(* A new connection uses a cached room, or starts to look the room up.     *)
LEMMA ConnectInv ==
  ASSUME IInv, NEW c \in Conns, NEW b \in Backends, NEW k \in Cursors,
         Connect(c, b, k)
  PROVE  IInv'
<1>. DEFINE g == [NoHandler EXCEPT !.home = b, !.cursor = k,
                    !.task = IF room[b].cached THEN "none" ELSE "hydrate",
                    !.pc   = IF room[b].cached THEN "register" ELSE "get"]
<1>1. client[c].ticket = 0
  BY NotRegistered DEF Connect
<1>2. g \in HandlerType
  BY DeliveryAssumption DEF HandlerType, NoHandler, Pcs, Ending, EmptyDoc, Snapshot
<1>3. handler' = [handler EXCEPT ![c] = g]
  BY DEF Connect
<1>4. /\ g.home = b /\ g.gets = 0 /\ g.at = 0
      /\ g.pc = (IF room[b].cached THEN "register" ELSE "get")
      /\ g.task = (IF room[b].cached THEN "none" ELSE "hydrate")
  BY DEF NoHandler
<1>. HIDE DEF g
<1>5. handler'[c] = g
  BY <1>3 DEF IInv, TypeOK
<1>6. SnapshotOK(c)'
  <2>1. wire'[c] = wire[c] /\ doc' = doc /\ SnapshotOK(c)
    BY DEF Connect, IInv, ConnOK
  <2>. QED BY <1>4, <1>5, <2>1 DEF SnapshotOK, OnlyLags
<1>7. ConnOK(c)'
  BY <1>1, <1>2, <1>4, <1>5, <1>6, Unregistered DEF Connect
<1>. QED BY <1>2, <1>3, <1>7, HandlerStep DEF Connect, IInv, TypeOK

(* A watcher starts only with a cached room, so that in one that was not   *)
(* cached nobody is waiting for events.                                    *)
LEMMA HydrateRoomInv ==
  ASSUME IInv, NEW c \in Conns, HydrateRoom(c) PROVE IInv'
<1>. PICK h \in HandlerType : h = handler[c]
  BY DEF IInv, TypeOK
<1>1. /\ client[c].ticket = 0 /\ exists /\ h.home \in Backends
      /\ h.snap \in Snapshot /\ OnlyLags(h.snap)
      /\ UNCHANGED <<exists, doc, stream, client, wire, crashes>>
  BY NotRegistered DEF HydrateRoom, IInv, ConnOK, MembershipOK, SnapshotOK, HandlerType
<1>2. PICK b \in Backends : b = h.home
  BY <1>1
<1>3. PICK r \in RoomType, v \in WatcherType : r = room[b] /\ v = watcher[b]
  BY DEF IInv, TypeOK
<1>. DEFINE g == [h EXCEPT !.pc = "register", !.task = "none", !.gets = 0,
                    !.snap = EmptyDoc, !.accepted = FALSE, !.at = 0,
                    !.pageEnd = 0, !.expected = 0]
<1>4. g \in HandlerType
  BY DEF HandlerType, Pcs, Ending, EmptyDoc, Snapshot
<1>5. handler' = [handler EXCEPT ![c] = g]
  BY DEF HydrateRoom, Return
<1>6. g.home = h.home /\ g.gets = 0 /\ g.at = 0 /\ g.pc = "register"
  BY DEF HandlerType
<1>. HIDE DEF g
<1>7. handler'[c] = g /\ \A d \in Conns \ {c} : handler'[d] = handler[d]
  BY <1>5 DEF IInv, TypeOK
<1>8. WatcherOK(b)
  BY DEF IInv
<1>9. CASE r.cached
  <2>1. room' = room /\ watcher' = watcher
    BY <1>2, <1>3, <1>8, <1>9 DEF HydrateRoom, Home, EnsuredWatcher, WatcherOK, IInv, TypeOK
  <2>2. SnapshotOK(c)'
    <3>1. wire'[c] = wire[c] /\ doc' = doc /\ SnapshotOK(c)
      BY <1>1 DEF IInv, ConnOK
    <3>. QED BY <1>6, <1>7, <3>1 DEF SnapshotOK, OnlyLags
  <2>3. ConnOK(c)'
    BY <1>1, <1>2, <1>3, <1>4, <1>6, <1>7, <1>9, <2>1, <2>2, Unregistered
  <2>. QED BY <1>1, <1>4, <1>5, <2>1, <2>3, HandlerStep DEF IInv, TypeOK
<1>10. CASE ~r.cached
  <2>. DEFINE n  == [NoRoom EXCEPT !.cached = TRUE, !.snap = h.snap]
              nw == [NoWatcher EXCEPT !.pc = "read", !.initial = h.snap.sequence]
  <2>1. /\ n \in RoomType /\ n.cached /\ n.snap = h.snap /\ n.clients = {}
        /\ nw \in WatcherType /\ nw.pc = "read" /\ nw.initial = h.snap.sequence
        /\ nw.cursor = 0 /\ nw.batchEnd = 0 /\ nw.left = {}
    BY <1>1 DEF NoRoom, NoWatcher, RoomType, WatcherType, Snapshot
  <2>2. room' = [room EXCEPT ![b] = n]
    BY <1>2, <1>3, <1>10 DEF HydrateRoom, Home
  <2>3. watcher' = [watcher EXCEPT ![b] = nw]
    <3>1. v.pc = "off"
      BY <1>3, <1>8, <1>10 DEF WatcherOK
    <3>. QED BY <1>2, <1>3, <1>10, <2>1, <3>1 DEF HydrateRoom, Home, EnsuredWatcher
  <2>4. /\ r.clients = {} /\ v.left = {} /\ r.snap.sequence = 0
    BY <1>3, <1>8, <1>10 DEF WatcherOK, NoRoom, EmptyDoc
  <2>. HIDE DEF n, nw
  <2>5. /\ room' \in [Backends -> RoomType] /\ watcher' \in [Backends -> WatcherType]
        /\ room'[b] = n /\ watcher'[b] = nw
        /\ \A a \in Backends \ {b} : room'[a] = room[a] /\ watcher'[a] = watcher[a]
    BY <2>1, <2>2, <2>3 DEF IInv, TypeOK
  <2>6. TypeOK' /\ StoreOK'
    BY <1>1, <1>4, <1>5, <2>5 DEF IInv, TypeOK, StoreTypeOK, StoreOK,
       LogIsTheDocument, NoSilentOverwrite
  <2>7. ASSUME NEW a \in Backends PROVE WatcherOK(a)'
    <3>1. CASE a = b
      <4>1. /\ h.snap.sequence \in Nat /\ h.snap.sequence <= Len(stream)
            /\ Len(stream) \in Nat
        BY <1>1, StoreFacts DEF IInv, OnlyLags, Snapshot
      <4>. QED BY <1>1, <2>1, <2>5, <3>1, <4>1 DEF WatcherOK, OnlyLags
    <3>2. CASE a # b
      BY <1>1, <2>5, <3>2 DEF IInv, WatcherOK, OnlyLags
    <3>. QED BY <3>1, <3>2
  <2>8. ASSUME NEW d \in Conns \ {c} PROVE ConnOK(d)'
    <3>1. \A a \in Backends :
            d \in room'[a].clients \cup watcher'[a].left =>
              a # b /\ d \in room[a].clients \cup watcher[a].left
      BY <2>1, <2>5
    <3>2. \A a \in Backends \ {b} : Reached(a, d)' = Reached(a, d)
      BY <2>5 DEF Reached
    <3>3. n.snap.sequence \in Nat /\ doc \in Snapshot
      BY <1>1, <2>1, StoreFacts DEF Snapshot, IInv
    <3>4. \A a \in Backends : /\ room[a].cached => room'[a].cached
                              /\ room[a].snap.sequence <= room'[a].snap.sequence
                              /\ d \in room'[a].clients <=> d \in room[a].clients
                              /\ d \in room[a].clients \cup watcher'[a].left
                                   => Reached(a, d)' = Reached(a, d)
      BY <1>3, <2>1, <2>4, <2>5, <3>2, <3>3 DEF IInv, TypeOK, RoomType, Snapshot
    <3>5. Unaffected(d)
      BY <1>1, <1>7, <3>1, <3>3, <3>4 DEF Unaffected, IInv, TypeOK, StoreTypeOK, Snapshot
    <3>. QED BY <2>6, <3>5, Bystander DEF IInv
  <2>9. SnapshotOK(c)'
    <3>1. wire'[c] = wire[c] /\ doc' = doc /\ SnapshotOK(c)
      BY <1>1 DEF IInv, ConnOK
    <3>. QED BY <1>6, <1>7, <3>1 DEF SnapshotOK, OnlyLags
  <2>10. ConnOK(c)'
    <3>1. \A a \in Backends :
            c \in room'[a].clients \cup watcher'[a].left =>
              c \in room[a].clients \cup watcher[a].left
      BY <2>1, <2>5
    <3>. QED BY <1>1, <1>2, <1>4, <1>6, <1>7, <2>1, <2>5, <2>9, <3>1, Unregistered
  <2>. QED BY <2>6, <2>7, <2>8, <2>10 DEF IInv
<1>. QED BY <1>9, <1>10

(* Before the room exists no connection has been made.                     *)
LEMMA BackendCreatesRoomInv ==
  ASSUME IInv, NEW b \in Backends, CreateRoom(b) PROVE IInv'
<1>. PICK v \in WatcherType : v = watcher[b]
  BY DEF IInv, TypeOK
<1>. DEFINE n  == [NoRoom EXCEPT !.cached = TRUE]
            nw == IF v.pc # "off" THEN v ELSE [NoWatcher EXCEPT !.pc = "read", !.initial = 0]
<1>1. /\ ~exists /\ exists' /\ doc' = EmptyDoc /\ stream' = stream
      /\ UNCHANGED <<client, handler, wire, crashes>>
  BY DeliveryAssumption DEF CreateRoom, CreateRoomScript
<1>2. stream = <<>> /\ Len(stream) = 0 /\ doc \in Snapshot
      /\ doc.content = 0 /\ doc.version = 0 /\ doc.sequence = 0
  BY <1>1, StoreFacts DEF IInv, StoreOK
<1>3. StoreInv'
  <2>1. StoreInv /\ FreshIds
    BY DeliveryAssumption DEF IInv, TypeOK, StoreOK, StoreInv
  <2>. QED BY <2>1, CreateRoomInv DEF CreateRoom
<1>4. WatcherOK(b)
  BY DEF IInv
<1>5. /\ n \in RoomType /\ n.cached /\ n.snap = EmptyDoc /\ n.clients = {}
      /\ EmptyDoc.content = 0 /\ EmptyDoc.version = 0 /\ EmptyDoc.sequence = 0
  BY DEF NoRoom, RoomType, EmptyDoc, Snapshot
<1>6. /\ nw \in WatcherType /\ nw.pc # "off" /\ nw.initial = 0
      /\ nw.cursor = 0 /\ nw.batchEnd = 0 /\ nw.pc # "apply" /\ nw.pc \notin {"broadcast", "send"}
      /\ nw.left = {}
  <2>1. CASE v.pc = "off"
    BY <2>1 DEF NoWatcher, WatcherType
  <2>2. CASE v.pc # "off"
    BY <1>2, <1>4, <2>2 DEF WatcherOK, WatcherType
  <2>. QED BY <2>1, <2>2
<1>7. room' = [room EXCEPT ![b] = n] /\ watcher' = [watcher EXCEPT ![b] = nw]
  BY DEF CreateRoom, EnsuredWatcher, IInv, TypeOK
<1>. HIDE DEF n, nw
<1>8. /\ room' \in [Backends -> RoomType] /\ watcher' \in [Backends -> WatcherType]
      /\ room'[b] = n /\ watcher'[b] = nw
      /\ \A a \in Backends \ {b} : room'[a] = room[a] /\ watcher'[a] = watcher[a]
  BY <1>5, <1>6, <1>7 DEF IInv, TypeOK
<1>9. TypeOK' /\ StoreOK'
  BY <1>1, <1>3, <1>8 DEF IInv, TypeOK, StoreInv, StoreOK
<1>10. ASSUME NEW a \in Backends PROVE WatcherOK(a)'
  <2>1. CASE a = b
    BY <1>1, <1>2, <1>5, <1>6, <1>8, <2>1 DEF WatcherOK, OnlyLags
  <2>2. CASE a # b
    BY <1>1, <1>2, <1>5, <1>8, <2>2 DEF IInv, WatcherOK, OnlyLags
  <2>. QED BY <2>1, <2>2
<1>11. ASSUME NEW d \in Conns PROVE ConnOK(d)'
  <2>1. handler[d].home \notin Backends
    BY <1>1, DeliveryAssumption DEF IInv, ConnOK, MembershipOK
  <2>2. \A a \in Backends :
          d \in room'[a].clients \cup watcher'[a].left =>
            d \in room[a].clients \cup watcher[a].left
    BY <1>5, <1>6, <1>8
  <2>3. Unaffected(d)
    BY <1>1, <1>2, <1>5, <2>1, <2>2 DEF Unaffected
  <2>. QED BY <1>9, <2>3, Bystander DEF IInv
<1>. QED BY <1>9, <1>10, <1>11 DEF IInv

(* AddClient.                                                              *)
LEMMA RegisterInv ==
  ASSUME IInv, NEW c \in Conns, Register(c) PROVE IInv'
<1>. PICK h \in HandlerType, w \in WireType : h = handler[c] /\ w = wire[c]
  BY DEF IInv, TypeOK
<1>1. /\ client[c].ticket = 0 /\ exists /\ h.home \in Backends /\ h.pc = "register"
      /\ room[h.home].cached /\ h.gets = 0 /\ h.at = 0 /\ w = NoWire
      /\ UNCHANGED <<exists, doc, stream, watcher, wire, crashes>>
  BY NotRegistered DEF Register, IInv, ConnOK, MembershipOK, SnapshotOK, ReplayOK
<1>2. PICK b \in Backends : b = h.home
  BY <1>1
<1>3. PICK r \in RoomType : r = room[b]
  BY DEF IInv, TypeOK
<1>4. PICK t \in Nat : t = Cardinality({d \in Conns : client[d].ticket > 0})
  <2>1. IsFiniteSet({d \in Conns : client[d].ticket > 0})
    BY DeliveryAssumption, FS_Subset
  <2>. QED BY <2>1, FS_CardinalityType
<1>41. PICK p \in BOOLEAN : p = (h.cursor > 0)
  <2>1. (h.cursor > 0) \in BOOLEAN
    OBVIOUS
  <2>2. WITNESS (h.cursor > 0) \in BOOLEAN
  <2>. QED OBVIOUS
<1>. DEFINE k == [sock |-> "open", replaying |-> p,
                  lastSequence |-> h.cursor, pending |-> {}, ticket |-> t + 1]
            n == [r EXCEPT !.clients = @ \cup {c}]
            g == [h EXCEPT !.pc = "join"]
<1>5. /\ k \in ClientType /\ n \in RoomType /\ g \in HandlerType
      /\ k.ticket > 0 /\ (k.replaying <=> h.cursor > 0)
      /\ k.lastSequence = h.cursor /\ k.pending = {}
      /\ n.cached = r.cached /\ n.snap = r.snap /\ n.clients = r.clients \cup {c}
      /\ g.home = b /\ g.cursor = h.cursor /\ g.gets = 0 /\ g.at = 0 /\ g.pc = "join"
  <2>1. /\ k \in ClientType /\ k.ticket > 0 /\ (k.replaying <=> h.cursor > 0)
        /\ k.lastSequence = h.cursor /\ k.pending = {}
    <3>1. t + 1 \in Nat /\ t + 1 > 0 /\ h.cursor \in Nat
      BY DEF HandlerType
    <3>2. k.replaying = p /\ k.ticket = t + 1
      OBVIOUS
    <3>3. k \in ClientType
      BY <3>1 DEF ClientType
    <3>4. p <=> h.cursor > 0
      BY <1>41
    <3>. QED BY <3>1, <3>2, <3>3, <3>4
  <2>2. n \in RoomType /\ n.cached = r.cached /\ n.snap = r.snap /\ n.clients = r.clients \cup {c}
    BY DEF RoomType
  <2>3. /\ g \in HandlerType
        /\ g.home = b /\ g.cursor = h.cursor /\ g.gets = 0 /\ g.at = 0 /\ g.pc = "join"
    BY <1>1, <1>2 DEF HandlerType, Pcs
  <2>. QED BY <2>1, <2>2, <2>3
<1>6. /\ client' = [client EXCEPT ![c] = k]
      /\ room' = [room EXCEPT ![b] = n]
      /\ handler' = [handler EXCEPT ![c] = g]
  <2>1. client' = [client EXCEPT ![c] = k]
    BY <1>4, <1>41 DEF Register
  <2>2. handler' = [handler EXCEPT ![c] = g]
    BY DEF Register, Goto
  <2>3. room' = [room EXCEPT ![b] = n]
    BY <1>2, <1>3 DEF Register, Home
  <2>. QED BY <2>1, <2>2, <2>3
<1>. HIDE DEF k, n, g
<1>7. /\ room' \in [Backends -> RoomType] /\ room'[b] = n
      /\ \A a \in Backends \ {b} : room'[a] = room[a]
      /\ client'[c] = k /\ handler'[c] = g /\ wire'[c] = w
      /\ \A d \in Conns \ {c} : client'[d] = client[d] /\ handler'[d] = handler[d]
  BY <1>1, <1>5, <1>6 DEF IInv, TypeOK
<1>8. TypeOK' /\ StoreOK'
  BY <1>1, <1>5, <1>6, <1>7 DEF IInv, TypeOK, StoreTypeOK, StoreOK, LogIsTheDocument,
     NoSilentOverwrite
<1>9. ASSUME NEW a \in Backends PROVE WatcherOK(a)'
  <2>1. WatcherOK(a) /\ room'[a].cached = room[a].cached /\ room'[a].snap = room[a].snap
        /\ (~room'[a].cached => room'[a] = room[a])
    BY <1>1, <1>2, <1>3, <1>5, <1>7 DEF IInv
  <2>. QED BY <1>1, <2>1 DEF WatcherOK, OnlyLags
<1>10. ASSUME NEW d \in Conns \ {c} PROVE ConnOK(d)'
  <2>1. \A a \in Backends : Reached(a, d)' = Reached(a, d)
    BY <1>1 DEF Reached
  <2>2. \A a \in Backends : /\ room'[a].cached = room[a].cached
                            /\ room'[a].snap = room[a].snap
                            /\ d \in room'[a].clients <=> d \in room[a].clients
                            /\ room[a].snap.sequence \in Nat
    BY <1>3, <1>5, <1>7 DEF IInv, TypeOK, RoomType, Snapshot
  <2>3. doc \in Snapshot /\ Len(stream) \in Nat
    BY StoreFacts DEF IInv
  <2>4. Unaffected(d)
    BY <1>1, <1>7, <2>1, <2>2, <2>3 DEF Unaffected, Snapshot
  <2>. QED BY <1>8, <2>4, Bystander DEF IInv
<1>11. MembershipOK(c)'
  <2>1. \A a \in Backends : c \notin room[a].clients \cup watcher[a].left
    BY <1>1 DEF IInv, ConnOK, MembershipOK
  <2>2. \A a \in Backends : c \in room'[a].clients \cup watcher'[a].left => a = b
    BY <1>1, <1>7, <2>1
  <2>. QED BY <1>1, <1>2, <1>5, <1>7, <2>2 DEF MembershipOK, ClientType
<1>12. w.updates = <<>> /\ w.states = <<>> /\ w.handoff = -1 /\ Len(w.updates) = 0
       /\ Len(w.states) = 0
  BY <1>1 DEF NoWire
<1>13. SnapshotOK(c)'
  BY <1>1, <1>5, <1>7, <1>12 DEF SnapshotOK
<1>14. ReplayOK(c)'
  BY <1>1, <1>5, <1>7, <1>12 DEF ReplayOK, Resumed, Replaying, Serving, Pcs, Ending
<1>15. LiveOK(c)'
  BY <1>1, <1>5, <1>7, <1>12 DEF LiveOK, Resumed, Started, HandlerType
<1>16. JoinOK(c)'
  BY <1>1, <1>5, <1>7, <1>12 DEF JoinOK
<1>17. ConnOK(c)'
  BY <1>11, <1>13, <1>14, <1>15, <1>16 DEF ConnOK
<1>. QED BY <1>8, <1>9, <1>10, <1>17 DEF IInv

(* The connection is dropped, by the network or by the heartbeat.          *)
LEMMA ResetInv ==
  ASSUME IInv, NEW c \in Conns, Reset(c) \/ HeartbeatClose(c) PROVE IInv'
<1>1. handler' = [handler EXCEPT ![c] = handler[c]] /\ handler[c] \in HandlerType
  BY DEF Reset, HeartbeatClose, IInv, TypeOK
<1>. QED BY <1>1, SocketMoves DEF Reset, HeartbeatClose

(* The peer stops reading.                                                 *)
LEMMA StallInv ==
  ASSUME IInv, NEW c \in Conns, Stall(c) PROVE IInv'
<1>1. handler' = [handler EXCEPT ![c] = handler[c]] /\ handler[c] \in HandlerType
  BY DEF Stall, IInv, TypeOK
<1>. QED BY <1>1, SocketMoves DEF Stall

(* The socket of a client that was removed is closed.                      *)
LEMMA CloseConnInv ==
  ASSUME IInv, NEW c \in Conns, CloseConn(c) PROVE IInv'
<1>. DEFINE g == [handler[c] EXCEPT !.pc = "closed"]
<1>1. g \in HandlerType
  BY DEF IInv, TypeOK, HandlerType, Pcs, Ending
<1>2. handler' = [handler EXCEPT ![c] = g]
  BY DEF CloseConn, Goto
<1>. QED BY <1>1, <1>2, SocketMoves DEF CloseConn

(* The client leaves its room; the watcher may still hold it in its copy.  *)
LEMMA RemoveClientInv ==
  ASSUME IInv, NEW c \in Conns, RemoveClient(c) PROVE IInv'
<1>. PICK h \in HandlerType, k \in ClientType, w \in WireType :
        h = handler[c] /\ k = client[c] /\ w = wire[c]
  BY DEF IInv, TypeOK
<1>1. /\ k.ticket > 0 /\ h.pc = "closing" /\ exists /\ h.home \in Backends
      /\ UNCHANGED <<exists, doc, stream, watcher, client, wire, crashes>>
  BY Registered DEF RemoveClient, IInv, ConnOK, MembershipOK
<1>2. PICK b \in Backends : b = h.home
  BY <1>1
<1>3. PICK r \in RoomType : r = room[b]
  BY DEF IInv, TypeOK
<1>. DEFINE n == [r EXCEPT !.clients = @ \ {c}]
            g == [h EXCEPT !.pc = "removed"]
<1>4. n \in RoomType /\ n.cached = r.cached /\ n.snap = r.snap /\ n.clients = r.clients \ {c}
  BY DEF RoomType
<1>5. /\ g \in HandlerType /\ g.home = h.home /\ g.cursor = h.cursor
      /\ g.boundary = h.boundary /\ g.pc = "removed"
  BY DEF HandlerType, Pcs, Ending
<1>6. ~r.cached => n = r
  <2>1. ~r.cached => r = NoRoom
    BY <1>3 DEF IInv, WatcherOK
  <2>. QED BY <2>1 DEF NoRoom
<1>7. room' = [room EXCEPT ![b] = n] /\ handler' = [handler EXCEPT ![c] = g]
  <2>1. room' = [room EXCEPT ![b] = n]
    BY <1>2, <1>3 DEF RemoveClient, Home
  <2>2. handler' = [handler EXCEPT ![c] = g]
    BY DEF RemoveClient, Goto
  <2>. QED BY <2>1, <2>2
<1>. HIDE DEF n, g
<1>8. /\ room' \in [Backends -> RoomType] /\ room'[b] = n
      /\ \A a \in Backends \ {b} : room'[a] = room[a]
      /\ handler'[c] = g /\ client'[c] = k /\ wire'[c] = w
      /\ \A d \in Conns \ {c} : handler'[d] = handler[d]
  BY <1>1, <1>4, <1>5, <1>7 DEF IInv, TypeOK
<1>9. TypeOK' /\ StoreOK'
  BY <1>1, <1>5, <1>7, <1>8 DEF IInv, TypeOK, StoreTypeOK, StoreOK, LogIsTheDocument,
     NoSilentOverwrite
<1>10. ASSUME NEW a \in Backends PROVE WatcherOK(a)'
  <2>1. WatcherOK(a) /\ room'[a].cached = room[a].cached /\ room'[a].snap = room[a].snap
        /\ (~room'[a].cached => room'[a] = room[a])
    BY <1>2, <1>3, <1>4, <1>6, <1>8 DEF IInv
  <2>. QED BY <1>1, <2>1 DEF WatcherOK, OnlyLags
<1>11. ASSUME NEW d \in Conns PROVE Reached(b, d)' = Reached(b, d)
  BY <1>1 DEF Reached
<1>12. ASSUME NEW d \in Conns \ {c} PROVE ConnOK(d)'
  <2>1. \A a \in Backends : Reached(a, d)' = Reached(a, d)
    BY <1>1 DEF Reached
  <2>2. \A a \in Backends : /\ room'[a].cached = room[a].cached
                            /\ room'[a].snap = room[a].snap
                            /\ d \in room'[a].clients <=> d \in room[a].clients
                            /\ room[a].snap.sequence \in Nat
    BY <1>3, <1>4, <1>8 DEF IInv, TypeOK, RoomType, Snapshot
  <2>3. doc \in Snapshot /\ Len(stream) \in Nat
    BY StoreFacts DEF IInv
  <2>4. Unaffected(d)
    BY <1>1, <1>8, <2>1, <2>2, <2>3 DEF Unaffected, Snapshot
  <2>. QED BY <1>9, <2>4, Bystander DEF IInv
<1>13. ConnOK(c)
  BY DEF IInv
<1>14. \A a \in Backends : room'[a].clients \subseteq room[a].clients
  BY <1>3, <1>4, <1>8
<1>15. MembershipOK(c)'
  BY <1>1, <1>5, <1>8, <1>13, <1>14 DEF ConnOK, MembershipOK, Serving, Ending
<1>16. (Following(c)' => Following(c)) /\ (Usable(c)' <=> Usable(c))
  BY <1>1, <1>5, <1>8, <1>14 DEF Following, Usable, Home
<1>17. SnapshotOK(c)'
  BY <1>1, <1>5, <1>8, <1>13 DEF ConnOK, SnapshotOK, OnlyLags
<1>18. ReplayOK(c)'
  BY <1>1, <1>5, <1>8, <1>13 DEF ConnOK, ReplayOK, Resumed, Replaying, Serving, Pcs, Ending
<1>19. LiveOK(c)'
  BY <1>1, <1>2, <1>5, <1>8, <1>11, <1>13, <1>16 DEF ConnOK, LiveOK, Resumed, Started, From, Home
<1>20. JoinOK(c)'
  BY <1>1, <1>2, <1>5, <1>8, <1>11, <1>13, <1>16 DEF ConnOK, JoinOK, Resumed, Serving, Pcs, Ending
<1>21. ConnOK(c)'
  BY <1>15, <1>17, <1>18, <1>19, <1>20 DEF ConnOK
<1>. QED BY <1>9, <1>10, <1>12, <1>21 DEF IInv

(* A backend dies: its connections end, those of other backends do not     *)
(* notice.                                                                 *)
LEMMA CrashInv ==
  ASSUME IInv, NEW b \in Backends, Crash(b) PROVE IInv'
<1>. DEFINE lost == {c \in Conns : Home(c) = b /\ handler[c].pc # "new"}
            g(c) == [NoHandler EXCEPT !.pc = "closed", !.home = b,
                       !.cursor = handler[c].cursor,
                       !.boundary = handler[c].boundary]
<1>1. /\ room' = [room EXCEPT ![b] = NoRoom]
      /\ watcher' = [watcher EXCEPT ![b] = NoWatcher]
      /\ client' = [c \in Conns |-> IF c \in lost
                      THEN [client[c] EXCEPT !.sock = "broken"] ELSE client[c]]
      /\ handler' = [c \in Conns |-> IF c \in lost THEN g(c) ELSE handler[c]]
      /\ crashes' = crashes + 1
      /\ UNCHANGED <<exists, doc, stream, wire>>
  BY DEF Crash
<1>2. /\ NoRoom \in RoomType /\ ~NoRoom.cached /\ NoRoom.clients = {}
      /\ NoRoom.snap = EmptyDoc
      /\ NoWatcher \in WatcherType /\ NoWatcher.pc = "off" /\ NoWatcher.left = {}
      /\ NoWatcher.initial = 0 /\ NoWatcher.cursor = 0 /\ NoWatcher.batchEnd = 0
  BY DEF NoRoom, NoWatcher, RoomType, WatcherType, EmptyDoc, Snapshot
<1>3. /\ room' \in [Backends -> RoomType] /\ room'[b] = NoRoom
      /\ watcher' \in [Backends -> WatcherType] /\ watcher'[b] = NoWatcher
      /\ \A a \in Backends \ {b} : room'[a] = room[a] /\ watcher'[a] = watcher[a]
  BY <1>1, <1>2 DEF IInv, TypeOK
<1>4. ASSUME NEW c \in Conns
      PROVE  /\ g(c) \in HandlerType /\ g(c).pc = "closed" /\ g(c).home = b
             /\ g(c).cursor = handler[c].cursor
             /\ g(c).boundary = handler[c].boundary
  <2>1. handler[c] \in HandlerType
    BY DEF IInv, TypeOK
  <2>2. handler[c].cursor \in Nat /\ handler[c].boundary \in Nat
    BY <2>1 DEF HandlerType
  <2>3. EmptyDoc \in Snapshot
    BY DEF EmptyDoc, Snapshot
  <2>. QED BY <2>2, <2>3 DEF NoHandler, HandlerType, Pcs, Ending
<1>. HIDE DEF g
<1>5. TypeOK'
  <2>1. \A c \in Conns : handler[c] \in HandlerType /\ client[c] \in ClientType
    BY DEF IInv, TypeOK
  <2>2. \A c \in Conns : [client[c] EXCEPT !.sock = "broken"] \in ClientType
    BY <2>1 DEF ClientType
  <2>3. handler' \in [Conns -> HandlerType] /\ client' \in [Conns -> ClientType]
    BY <1>1, <1>4, <2>1, <2>2
  <2>. QED BY <1>1, <1>3, <2>3 DEF IInv, TypeOK, StoreTypeOK
<1>6. StoreOK'
  BY <1>1 DEF IInv, StoreOK, LogIsTheDocument, NoSilentOverwrite
<1>7. ASSUME NEW a \in Backends PROVE WatcherOK(a)'
  <2>1. CASE a = b
    <3>1. doc.sequence \in Nat /\ Len(stream) \in Nat
      BY StoreFacts DEF IInv, Snapshot
    <3>. QED BY <1>1, <1>2, <1>3, <2>1, <3>1 DEF WatcherOK, OnlyLags, EmptyDoc
  <2>2. CASE a # b
    BY <1>1, <1>3, <2>2 DEF IInv, WatcherOK, OnlyLags
  <2>. QED BY <2>1, <2>2
<1>8. ASSUME NEW c \in Conns, c \notin lost PROVE ConnOK(c)'
  <2>1. handler'[c] = handler[c] /\ client'[c] = client[c]
    BY <1>1, <1>8
  <2>2. handler[c].home # b
    BY <1>8, DeliveryAssumption DEF Home, IInv, ConnOK, MembershipOK
  <2>3. \A a \in Backends :
          c \in room'[a].clients \cup watcher'[a].left =>
            c \in room[a].clients \cup watcher[a].left
    BY <1>2, <1>3
  <2>4. \A a \in Backends \ {b} : Reached(a, c)' = Reached(a, c)
    BY <1>3 DEF Reached
  <2>5. doc \in Snapshot /\ Len(stream) \in Nat
    BY StoreFacts DEF IInv
  <2>6. handler[c].home \in Backends => room[handler[c].home].snap.sequence \in Nat
    BY DEF IInv, TypeOK, RoomType, Snapshot
  <2>7. Unaffected(c)
    BY <1>1, <1>3, <2>1, <2>2, <2>3, <2>4, <2>5, <2>6 DEF Unaffected, Snapshot
  <2>. QED BY <1>5, <1>6, <2>7, Bystander DEF IInv
<1>9. ASSUME NEW c \in lost PROVE ConnOK(c)'
  <2>1. PICK h \in HandlerType, k \in ClientType, w \in WireType :
          h = handler[c] /\ k = client[c] /\ w = wire[c]
    BY DEF IInv, TypeOK
  <2>2. PICK f \in HandlerType, m \in ClientType :
          /\ f = handler'[c] /\ m = client'[c]
          /\ f.pc = "closed" /\ f.home = b
          /\ f.cursor = h.cursor /\ f.boundary = h.boundary
          /\ m.sock = "broken" /\ m.replaying = k.replaying
          /\ m.lastSequence = k.lastSequence /\ m.ticket = k.ticket
    <3>1. handler'[c] = g(c) /\ client'[c] = [k EXCEPT !.sock = "broken"]
      BY <1>1, <2>1
    <3>2. handler'[c] \in HandlerType /\ client'[c] \in ClientType
      BY <1>5 DEF TypeOK
    <3>. DEFINE m == [k EXCEPT !.sock = "broken"]
    <3>3. /\ m.sock = "broken" /\ m.replaying = k.replaying
          /\ m.lastSequence = k.lastSequence /\ m.ticket = k.ticket
      BY DEF ClientType
    <3>4. /\ g(c).pc = "closed" /\ g(c).home = b
          /\ g(c).cursor = h.cursor /\ g(c).boundary = h.boundary
      BY <1>4, <2>1
    <3>. HIDE DEF m
    <3>5. client'[c] = m
      BY <3>1 DEF m
    <3>. QED BY <3>1, <3>2, <3>3, <3>4, <3>5
  <2>3. h.home = b /\ exists /\ ConnOK(c) /\ wire'[c] = w
    BY <1>1, <2>1 DEF Home, IInv, ConnOK, MembershipOK
  <2>4. /\ \A a \in Backends : c \in room'[a].clients \cup watcher'[a].left => a = b
        /\ c \notin room'[b].clients \cup watcher'[b].left
        /\ ~Usable(c)'
    BY <1>2, <1>3, <2>1, <2>2, <2>3 DEF ConnOK, MembershipOK, Usable
  <2>5. MembershipOK(c)'
    BY <1>1, <2>1, <2>2, <2>3, <2>4 DEF ConnOK, MembershipOK, Serving, Ending
  <2>6. SnapshotOK(c)'
    BY <1>1, <2>1, <2>2, <2>3 DEF ConnOK, SnapshotOK, OnlyLags
  <2>7. ReplayOK(c)'
    BY <1>1, <2>1, <2>2, <2>3 DEF ConnOK, ReplayOK, Resumed, Replaying, Serving, Ending
  <2>8. LiveOK(c)'
    BY <1>1, <2>1, <2>2, <2>3, <2>4 DEF ConnOK, LiveOK, Resumed, Started, From
  <2>9. JoinOK(c)'
    BY <1>1, <2>1, <2>2, <2>3, <2>4 DEF ConnOK, JoinOK, Resumed, Serving, Ending
  <2>. QED BY <2>5, <2>6, <2>7, <2>8, <2>9 DEF ConnOK
<1>. QED BY <1>5, <1>6, <1>7, <1>8, <1>9 DEF IInv

(* The first room_state of a fresh connection.                             *)
LEMMA WriteStateInv ==
  ASSUME IInv, NEW c \in Conns, WriteState(c) PROVE IInv'
BY RoomStateMoves DEF WriteState

(* The sender of an edit is answered, and after a refusal resynced.        *)
LEMMA AcknowledgeInv ==
  ASSUME IInv, NEW c \in Conns, Acknowledge(c) PROVE IInv'
<1>1. CASE wire' = RoomState(c, handler[c].snap)
  BY <1>1, RoomStateMoves DEF Acknowledge
<1>2. CASE wire' = wire
  <2>1. client[c].ticket > 0 /\ handler[c].pc \in Serving
    BY Registered DEF Acknowledge, Serving, Pcs, Ending
  <2>2. ~client[c].replaying /\ (handler[c].cursor = 0 => wire[c].states # <<>>)
    <3>1. ReplayOK(c) /\ JoinOK(c)
      BY DEF IInv, ConnOK
    <3>. QED BY <2>1, <3>1 DEF Acknowledge, ReplayOK, JoinOK, Resumed, Replaying
  <2>. QED BY <1>2, <2>1, <2>2, ReturnMoves DEF Acknowledge
<1>. QED BY <1>1, <1>2 DEF Acknowledge

(* A replayed event is the one after the last.                             *)
LEMMA VisitEntryInv ==
  ASSUME IInv, NEW c \in Conns, VisitEntry(c) PROVE IInv'
<1>. PICK h \in HandlerType, k \in ClientType, w \in WireType :
        h = handler[c] /\ k = client[c] /\ w = wire[c]
  BY DEF IInv, TypeOK
<1>1. /\ k.ticket > 0 /\ h.pc = "visit" /\ h.pc \in Serving
      /\ UNCHANGED <<exists, doc, stream, room, watcher, client, crashes>>
      /\ ConnOK(c)
  BY Registered DEF VisitEntry, IInv, Serving, Pcs, Ending
<1>2. /\ h.cursor \in Nat /\ h.boundary \in Nat /\ h.at \in Nat
      /\ h.expected \in Nat /\ h.pageEnd \in Nat /\ w.updates \in Seq(Nat)
      /\ Len(stream) \in Nat
  BY StoreFacts DEF IInv, HandlerType, WireType
<1>3. /\ h.cursor <= h.boundary /\ h.boundary <= Len(stream)
      /\ h.at < h.pageEnd /\ h.pageEnd <= h.boundary
      /\ h.expected <= h.boundary + 1 /\ h.cursor < h.expected
      /\ h.expected = (IF h.at < h.cursor THEN h.cursor ELSE h.at) + 1
      /\ Len(w.updates) = h.expected - h.cursor - 1
      /\ k.replaying /\ h.cursor > 0 /\ k.lastSequence = h.cursor /\ w.handoff = -1
      /\ \A s \in h.boundary + 1 .. Reached(h.home, c) : s \in k.pending
      /\ \A s \in k.pending : s <= Reached(h.home, c)
  <2>1. ReplayOK(c)
    BY <1>1 DEF ConnOK
  <2>. QED BY <1>1, <2>1 DEF ReplayOK, Resumed, Replaying
<1>4. h.at + 1 \in 0 .. Len(stream) /\ SequenceAt(h.at + 1) = h.at + 1
      /\ SequenceAt(h.boundary) = h.boundary
  <2>1. h.at < h.pageEnd /\ h.pageEnd <= h.boundary /\ h.boundary <= Len(stream)
    BY <1>3
  <2>2. h.at + 1 \in 0 .. Len(stream) /\ h.boundary \in 0 .. Len(stream)
    BY <1>2, <2>1
  <2>. QED BY <2>2, StoreFacts DEF IInv
<1>. DEFINE skip == h.at + 1 <= h.cursor
            pc == IF h.at + 1 = h.pageEnd THEN "page" ELSE "visit"
            e  == IF skip THEN h.expected ELSE (h.at + 1) + 1
            u  == IF skip THEN w.updates ELSE Append(w.updates, h.at + 1)
<1>5. ~skip => h.expected = h.at + 1 /\ h.at + 1 <= h.boundary
  BY <1>2, <1>3
<1>51. /\ handler' = [handler EXCEPT ![c] =
               [@ EXCEPT !.at = h.at + 1, !.pc = pc, !.expected = e]]
       /\ skip => wire' = wire
       /\ ~skip => wire' = [wire EXCEPT ![c] = Written(@, <<h.at + 1>>)]
  <2>. DEFINE gap == ~skip /\ (h.at + 1 # h.expected \/ h.at + 1 > SequenceAt(h.boundary))
  <2>1. ~gap
    BY <1>2, <1>4, <1>5
  <2>2. /\ IF gap THEN Return(c, "closing")
           ELSE handler' = [handler EXCEPT ![c] =
                  [@ EXCEPT !.at = h.at + 1, !.pc = pc, !.expected = e]]
        /\ wire' = IF skip \/ gap THEN wire
                   ELSE [wire EXCEPT ![c] = Written(@, <<h.at + 1>>)]
    BY <1>4 DEF VisitEntry
  <2>. HIDE DEF gap, skip, pc, e
  <2>. QED BY <2>1, <2>2
<1>6. PICK g \in HandlerType :
        /\ handler' = [handler EXCEPT ![c] = g]
        /\ g.home = h.home /\ g.cursor = h.cursor /\ g.boundary = h.boundary
        /\ g.pc = pc /\ g.at = h.at + 1 /\ g.expected = e /\ g.pageEnd = h.pageEnd
  <2>. DEFINE g == [h EXCEPT !.at = h.at + 1, !.pc = pc, !.expected = e]
  <2>1. h.at + 1 \in Nat /\ pc \in Pcs /\ e \in Nat
    BY <1>2 DEF Pcs
  <2>2. /\ g \in HandlerType
        /\ g.home = h.home /\ g.cursor = h.cursor /\ g.boundary = h.boundary
        /\ g.pc = pc /\ g.at = h.at + 1 /\ g.expected = e /\ g.pageEnd = h.pageEnd
    BY <2>1 DEF HandlerType
  <2>3. handler' = [handler EXCEPT ![c] = g]
    BY <1>51
  <2>. HIDE DEF g, pc, e
  <2>. QED BY <2>2, <2>3
<1>7. PICK x \in WireType :
        /\ wire' = [wire EXCEPT ![c] = x]
        /\ x.updates = u /\ x.handoff = w.handoff /\ x.states = w.states
  <2>1. CASE skip
    <3>1. wire' = [wire EXCEPT ![c] = w]
      BY <1>51, <2>1 DEF IInv, TypeOK
    <3>. QED BY <2>1, <3>1
  <2>2. CASE ~skip
    <3>. DEFINE x == [w EXCEPT !.updates = @ \o <<h.at + 1>>]
    <3>1. w.updates \o <<h.at + 1>> = u /\ u \in Seq(Nat)
      BY <1>2, <2>2
    <3>2. x \in WireType /\ x.updates = u /\ x.handoff = w.handoff /\ x.states = w.states
      BY <3>1 DEF WireType
    <3>3. wire' = [wire EXCEPT ![c] = x]
      BY <1>51, <2>2 DEF Written
    <3>. HIDE DEF x, u
    <3>. QED BY <3>2, <3>3
  <2>. QED BY <2>1, <2>2
<1>8. /\ handler'[c] = g /\ wire'[c] = x /\ client'[c] = k
      /\ wire' \in [Conns -> WireType] /\ client' \in [Conns -> ClientType]
      /\ \A d \in Conns \ {c} : wire'[d] = wire[d]
  BY <1>1, <1>6, <1>7 DEF IInv, TypeOK
<1>9. /\ e \in Nat /\ h.cursor < e /\ e <= h.boundary + 1
      /\ e = (IF h.at + 1 < h.cursor THEN h.cursor ELSE h.at + 1) + 1
      /\ pc = "visit" => h.at + 1 < h.pageEnd
      /\ pc \in {"page", "visit"}
  <2>1. /\ skip => e = h.expected
        /\ ~skip => e = h.at + 2
        /\ pc \in {"page", "visit"}
        /\ pc = "visit" => h.at + 1 # h.pageEnd
    BY <1>2
  <2>2. skip <=> h.at + 1 <= h.cursor
    OBVIOUS
  <2>. HIDE DEF skip, e, pc
  <2>3. e \in Nat /\ h.cursor < e /\ e <= h.boundary + 1
    <3>1. CASE skip
      <4>1. h.cursor < h.expected /\ h.expected <= h.boundary + 1
        BY <1>3
      <4>. QED BY <1>2, <2>1, <3>1, <4>1
    <3>2. CASE ~skip
      <4>1. h.cursor < h.at + 2 /\ h.at + 2 <= h.boundary + 1 /\ h.at + 2 \in Nat
        <5>1. h.at \in Nat /\ h.cursor \in Nat /\ h.boundary \in Nat
          BY <1>2
        <5>2. ~(h.at + 1 <= h.cursor) /\ h.at + 1 <= h.boundary
          BY <1>5, <2>2, <3>2
        <5>. QED BY <5>1, <5>2
      <4>. QED BY <2>1, <3>2, <4>1
    <3>. QED BY <3>1, <3>2
  <2>4. e = (IF h.at + 1 < h.cursor THEN h.cursor ELSE h.at + 1) + 1
    <3>1. CASE skip
      <4>1. h.expected = h.cursor + 1
        BY <1>2, <1>3, <2>2, <3>1
      <4>2. h.at + 1 < h.cursor \/ h.at + 1 = h.cursor
        BY <1>2, <2>2, <3>1
      <4>. QED BY <2>1, <3>1, <4>1, <4>2
    <3>2. CASE ~skip
      <4>1. ~(h.at + 1 < h.cursor) /\ h.at + 2 = (h.at + 1) + 1
        BY <1>2, <2>2, <3>2
      <4>. QED BY <2>1, <3>2, <4>1
    <3>. QED BY <3>1, <3>2
  <2>5. pc = "visit" => h.at + 1 < h.pageEnd
    BY <1>2, <1>3, <2>1
  <2>. QED BY <2>1, <2>3, <2>4, <2>5
<1>10. Len(u) = e - h.cursor - 1 /\ \A i \in 1 .. Len(u) : u[i] = h.cursor + i
  <2>1. \A i \in 1 .. Len(w.updates) : w.updates[i] = h.cursor + i
    BY <1>1, <1>3 DEF ConnOK, LiveOK, From, Resumed
  <2>2. CASE skip
    BY <1>3, <2>1, <2>2
  <2>3. CASE ~skip
    <3>1. PICK v \in Seq(Nat), n \in Nat : v = w.updates /\ n = h.at + 1
      BY <1>2
    <3>2. u = Append(v, n)
      BY <2>3, <3>1
    <3>3. e = n + 1
      BY <1>2, <2>3, <3>1
    <3>4. Len(v) \in Nat /\ Len(v) + 1 + h.cursor = n
      <4>1. Len(v) = h.expected - h.cursor - 1 /\ h.expected = n
        BY <1>3, <1>5, <2>3, <3>1
      <4>2. Len(v) \in Nat /\ h.cursor \in Nat
        BY <1>2, <3>1
      <4>3. Len(v) = n - h.cursor - 1
        BY <4>1
      <4>. HIDE DEF u, e, skip, pc
      <4>. QED BY <4>2, <4>3, BeforeLast
    <3>. HIDE DEF u, e
    <3>5. Len(u) = Len(v) + 1 /\ u[Len(v) + 1] = n /\ \A i \in 1 .. Len(v) : u[i] = v[i]
      BY <3>2, Appended
    <3>6. \A i \in 1 .. Len(v) : v[i] = h.cursor + i
      BY <2>1, <3>1
    <3>7. Len(u) = e - h.cursor - 1
      BY <1>2, <3>3, <3>4, <3>5
    <3>8. ASSUME NEW i \in 1 .. Len(u) PROVE u[i] = h.cursor + i
      <4>1. i \in 1 .. Len(v) \/ i = Len(v) + 1
        BY <3>4, <3>5
      <4>2. h.cursor + (Len(v) + 1) = n
        BY <1>2, <3>4
      <4>. QED BY <3>5, <3>6, <4>1, <4>2
    <3>. QED BY <3>7, <3>8
  <2>. QED BY <2>2, <2>3
<1>. HIDE DEF skip, pc, e, u
<1>11. MembershipOK(c)'
  BY <1>1, <1>6, <1>8, <1>9 DEF ConnOK, MembershipOK, Serving, Pcs, Ending
<1>12. SnapshotOK(c)'
  BY <1>1, <1>6, <1>7, <1>8, <1>9 DEF ConnOK, SnapshotOK, OnlyLags
<1>13. Reached(h.home, c)' = Reached(h.home, c)
  BY <1>1 DEF Reached
<1>14. ReplayOK(c)'
  <2>1. stream' = stream /\ x.updates = u /\ x.handoff = -1 /\ pc \notin Ending
    BY <1>1, <1>3, <1>7, <1>9 DEF Ending
  <2>2. h.at + 1 <= h.boundary /\ Len(u) = e - h.cursor - 1
    <3>1. h.at < h.pageEnd /\ h.pageEnd <= h.boundary
      BY <1>3
    <3>2. h.at \in Nat /\ h.pageEnd \in Nat /\ h.boundary \in Nat
      BY <1>2
    <3>3. h.at + 1 <= h.boundary
      BY <3>1, <3>2
    <3>. QED BY <1>10, <3>3
  <2>. QED BY <1>3, <1>6, <1>8, <1>9, <1>13, <2>1, <2>2
     DEF ReplayOK, Resumed, Replaying, Serving
<1>15. LiveOK(c)'
  BY <1>3, <1>6, <1>7, <1>8, <1>10 DEF LiveOK, Resumed, From
<1>16. JoinOK(c)'
  BY <1>3, <1>6, <1>8 DEF JoinOK, Resumed
<1>17. ConnOK(c)'
  BY <1>11, <1>12, <1>14, <1>15, <1>16 DEF ConnOK
<1>. QED BY <1>1, <1>6, <1>8, <1>17, HandlerStep

(* finishReplay has sent all up to last, and what follows is buffered up   *)
(* to the watcher: it goes on with the next event, or hands over to live   *)
(* delivery without a gap.                                                 *)
LEMMA HandedOverInv ==
  ASSUME IInv, NEW c \in Conns, NEW last \in Nat, NEW y \in WireType,
         HandedOver(c, last), wire' = [wire EXCEPT ![c] = y],
         UNCHANGED <<exists, doc, stream, room, watcher, crashes>>,
         handler[c].pc \in {"finish", "flush"}, client[c].sock = "open",
         handler[c].boundary <= last,
         y.handoff = handler[c].boundary - handler[c].cursor,
         y.states = wire[c].states,
         last = handler[c].cursor + Len(y.updates),
         \A i \in 1 .. Len(y.updates) : y.updates[i] = handler[c].cursor + i,
         \A s \in last + 1 .. Reached(Home(c), c) : s \in client[c].pending
  PROVE  IInv'
<1>. PICK h \in HandlerType, k \in ClientType, w \in WireType :
        h = handler[c] /\ k = client[c] /\ w = wire[c]
  BY DEF IInv, TypeOK
<1>1. /\ h.pc \in {"finish", "flush"} /\ h.pc \in Serving /\ k.sock = "open"
      /\ k.ticket > 0 /\ ConnOK(c)
  BY Registered DEF IInv, Serving, Pcs, Ending
<1>2. /\ h.cursor \in Nat /\ h.boundary \in Nat /\ y.updates \in Seq(Nat)
      /\ y.handoff \in Int /\ Len(stream) \in Nat /\ k.pending \subseteq Nat
  BY StoreFacts DEF IInv, HandlerType, WireType, ClientType
<1>3. /\ k.replaying /\ h.cursor > 0
      /\ h.cursor <= h.boundary /\ h.boundary <= Len(stream)
      /\ \A s \in k.pending : s <= Reached(h.home, c)
  <2>1. ReplayOK(c) /\ LiveOK(c)
    BY <1>1 DEF ConnOK
  <2>2. /\ k.replaying /\ h.cursor > 0
        /\ \A s \in k.pending : s <= Reached(h.home, c)
    BY <1>1, <2>1 DEF ReplayOK, Resumed, Replaying
  <2>3. h.cursor <= h.boundary /\ h.boundary <= Len(stream)
    BY <1>1, <2>1 DEF ReplayOK, LiveOK
  <2>. QED BY <2>2, <2>3
<1>4. h.home \in Backends /\ Reached(h.home, c) \in Nat /\ Home(c) = h.home
  <2>1. h.home \in Backends
    BY <1>1 DEF ConnOK, MembershipOK, Serving
  <2>. QED BY <2>1, <1>2 DEF IInv, TypeOK, WatcherOK, WatcherType, Reached, Home
<1>5. Later(c, last) = {} => Reached(h.home, c) <= last
  <2>. SUFFICES ASSUME Later(c, last) = {}, Reached(h.home, c) > last PROVE FALSE
    BY <1>4
  <2>1. PICK n \in Nat : n = Reached(h.home, c) /\ n > last
    BY <1>4
  <2>2. n \in last + 1 .. n
    BY <2>1
  <2>3. n \in k.pending
    BY <1>4, <2>1, <2>2
  <2>. QED BY <2>1, <2>3 DEF Later
<1>6. PICK x \in ClientType, g \in HandlerType :
        /\ client' = [client EXCEPT ![c] = x] /\ handler' = [handler EXCEPT ![c] = g]
        /\ x.sock = "open" /\ x.lastSequence = last /\ x.ticket = k.ticket
        /\ g.home = h.home /\ g.cursor = h.cursor /\ g.boundary = h.boundary
        /\ \/ /\ g.pc = "live" /\ g.gets = 0 /\ ~x.replaying
              /\ Reached(h.home, c) <= last
           \/ /\ g.pc = "flush" /\ x.replaying /\ x.pending = k.pending
              /\ \E s \in k.pending : s > last
  <2>1. "live" \in Pcs /\ "flush" \in Pcs
    BY DEF Pcs
  <2>2. CASE Later(c, last) = {}
    <3>. DEFINE x == [k EXCEPT !.lastSequence = last, !.replaying = FALSE, !.pending = {}]
    <3>1. client' = [client EXCEPT ![c] = x] /\ Return(c, "live")
      BY <2>2 DEF HandedOver
    <3>2. /\ x \in ClientType /\ x.sock = "open" /\ x.lastSequence = last
          /\ x.ticket = k.ticket /\ ~x.replaying
      BY <1>1 DEF ClientType
    <3>3. PICK g \in HandlerType :
            /\ handler' = [handler EXCEPT ![c] = g]
            /\ g.home = h.home /\ g.cursor = h.cursor /\ g.boundary = h.boundary
            /\ g.pc = "live" /\ g.gets = 0
      BY <2>1, <3>1, Returned
    <3>. HIDE DEF x
    <3>. QED BY <1>5, <2>2, <3>1, <3>2, <3>3
  <2>3. CASE Later(c, last) # {}
    <3>. DEFINE x == [k EXCEPT !.lastSequence = last]
                g == [h EXCEPT !.pc = "flush"]
    <3>1. client' = [client EXCEPT ![c] = x] /\ handler' = [handler EXCEPT ![c] = g]
      BY <2>3 DEF HandedOver, Goto
    <3>2. /\ x \in ClientType /\ x.sock = "open" /\ x.lastSequence = last
          /\ x.ticket = k.ticket /\ x.replaying /\ x.pending = k.pending
      BY <1>1, <1>3 DEF ClientType
    <3>3. /\ g \in HandlerType /\ g.home = h.home /\ g.cursor = h.cursor
          /\ g.boundary = h.boundary /\ g.pc = "flush"
      BY <2>1 DEF HandlerType
    <3>4. \E s \in k.pending : s > last
      BY <2>3 DEF Later
    <3>. HIDE DEF x, g
    <3>. QED BY <3>1, <3>2, <3>3, <3>4
  <2>. QED BY <2>2, <2>3
<1>9. /\ handler'[c] = g /\ client'[c] = x /\ wire'[c] = y
      /\ client' \in [Conns -> ClientType] /\ wire' \in [Conns -> WireType]
      /\ \A d \in Conns \ {c} : client'[d] = client[d] /\ wire'[d] = wire[d]
  BY <1>6 DEF IInv, TypeOK
<1>10. Reached(g.home, c)' = Reached(h.home, c) /\ Reached(Home(c), c)' = Reached(h.home, c)
  BY <1>6, <1>9 DEF Reached, Home
<1>11. y.handoff # -1 /\ g.pc \in {"live", "flush"}
  BY <1>2, <1>3, <1>6
<1>12. MembershipOK(c)'
  BY <1>1, <1>6, <1>9, <1>11 DEF ConnOK, MembershipOK, Serving, Pcs, Ending
<1>13. SnapshotOK(c)'
  <2>1. \A i \in 1 .. Len(w.states) : OnlyLags(w.states[i].snap)'
    BY <1>1 DEF ConnOK, SnapshotOK, OnlyLags
  <2>. QED BY <1>6, <1>9, <2>1 DEF SnapshotOK
<1>14. ReplayOK(c)'
  <2>1. CASE g.pc = "live"
    BY <1>3, <1>6, <1>9, <1>11, <2>1 DEF ReplayOK, Resumed, Replaying, Serving
  <2>2. CASE g.pc = "flush"
    <3>1. /\ x.replaying /\ x.pending = k.pending
          /\ x.lastSequence = g.cursor + Len(y.updates) /\ x.lastSequence = last
          /\ \E s \in k.pending : s > last
      BY <1>6, <2>2
    <3>2. /\ \A s \in k.pending : s <= Reached(g.home, c)'
          /\ \A s \in last + 1 .. Reached(g.home, c)' : s \in k.pending
      BY <1>3, <1>4, <1>10
    <3>3. g.boundary <= last /\ g.cursor > 0
      BY <1>3, <1>6
    <3>. QED BY <1>9, <1>11, <2>2, <3>1, <3>2, <3>3
         DEF ReplayOK, Resumed, Replaying, Serving
  <2>. QED BY <1>11, <2>1, <2>2
<1>15. LiveOK(c)'
  <2>1. From(c)' = h.cursor /\ Started(c)' /\ Resumed(c)' /\ Home(c)' = h.home
    BY <1>3, <1>6, <1>9 DEF From, Started, Resumed, Home
  <2>2. ~x.replaying => Reached(Home(c), c)' <= last
    BY <1>6, <1>10
  <2>3. \A i \in 1 .. Len(y.updates) : y.updates[i] = From(c)' + i
    BY <2>1
  <2>4. x.lastSequence = From(c)' + Len(y.updates)
    BY <1>6, <2>1
  <2>5. /\ g.cursor <= g.boundary /\ g.boundary <= Len(stream')
        /\ y.handoff = g.boundary - g.cursor
        /\ g.boundary <= g.cursor + Len(y.updates)
    BY <1>3, <1>6
  <2>. QED BY <1>6, <1>9, <2>1, <2>2, <2>3, <2>4, <2>5 DEF LiveOK
<1>16. JoinOK(c)'
  BY <1>3, <1>6, <1>9 DEF JoinOK, Resumed
<1>17. ConnOK(c)'
  BY <1>12, <1>13, <1>14, <1>15, <1>16 DEF ConnOK
<1>. QED BY <1>6, <1>9, <1>17, HandlerStep

(* resume_complete comes after exactly the events up to the boundary.      *)
LEMMA FinishReplayInv ==
  ASSUME IInv, NEW c \in Conns, FinishReplay(c) PROVE IInv'
<1>. PICK h \in HandlerType, k \in ClientType, w \in WireType :
        h = handler[c] /\ k = client[c] /\ w = wire[c]
  BY DEF IInv, TypeOK
<1>1. /\ h.pc = "finish" /\ k.sock = "open" /\ ConnOK(c)
      /\ UNCHANGED <<exists, doc, stream, room, watcher, crashes>>
      /\ HandedOver(c, SequenceAt(h.boundary))
  BY DEF FinishReplay, IInv
<1>2. /\ h.cursor \in Nat /\ h.boundary \in Nat /\ w.updates \in Seq(Nat)
  BY DEF HandlerType, WireType
<1>3. /\ h.cursor <= h.boundary /\ h.boundary <= Len(stream)
      /\ Len(w.updates) = h.boundary - h.cursor /\ h.cursor > 0
      /\ \A s \in h.boundary + 1 .. Reached(Home(c), c) : s \in k.pending
  <2>1. ReplayOK(c)
    BY <1>1 DEF ConnOK
  <2>2. /\ h.cursor <= h.boundary /\ h.boundary <= Len(stream)
        /\ Len(w.updates) = h.expected - h.cursor - 1
        /\ h.expected = h.boundary + 1
        /\ k.replaying /\ h.cursor > 0
        /\ \A s \in h.boundary + 1 .. Reached(h.home, c) : s \in k.pending
    BY <1>1, <2>1 DEF ReplayOK, Resumed, Replaying
  <2>. QED BY <1>2, <2>2 DEF Home
<1>4. SequenceAt(h.boundary) = h.boundary
  BY <1>2, <1>3, StoreFacts DEF IInv
<1>. DEFINE y == [w EXCEPT !.handoff = Len(w.updates)]
<1>5. /\ y \in WireType /\ y.handoff = h.boundary - h.cursor
      /\ y.updates = w.updates /\ y.states = w.states
      /\ wire' = [wire EXCEPT ![c] = y]
  <2>1. Len(w.updates) \in Int
    BY <1>2
  <2>2. wire' = [wire EXCEPT ![c] = y]
    BY DEF FinishReplay
  <2>3. /\ y \in WireType /\ y.handoff = Len(w.updates)
        /\ y.updates = w.updates /\ y.states = w.states
    BY <2>1 DEF WireType
  <2>. HIDE DEF y
  <2>. QED BY <1>3, <2>2, <2>3
<1>6. \A i \in 1 .. Len(w.updates) : w.updates[i] = h.cursor + i
  BY <1>1, <1>3 DEF ConnOK, LiveOK, From, Resumed
<1>7. h.boundary = h.cursor + Len(w.updates) /\ h.boundary <= h.boundary
  <2>1. PICK n \in Nat : n = Len(w.updates)
    BY <1>2
  <2>. QED BY <1>2, <1>3, <2>1
<1>. HIDE DEF y
<1>8. PICK last \in Nat : last = h.boundary
  BY <1>2
<1>9. /\ HandedOver(c, last) /\ wire' = [wire EXCEPT ![c] = y]
      /\ UNCHANGED <<exists, doc, stream, room, watcher, crashes>>
      /\ handler[c].pc \in {"finish", "flush"} /\ client[c].sock = "open"
      /\ handler[c].boundary <= last
  BY <1>1, <1>4, <1>5, <1>7, <1>8
<1>10. /\ y.handoff = handler[c].boundary - handler[c].cursor
       /\ y.states = wire[c].states
       /\ last = handler[c].cursor + Len(y.updates)
       /\ \A i \in 1 .. Len(y.updates) : y.updates[i] = handler[c].cursor + i
       /\ \A s \in last + 1 .. Reached(Home(c), c) : s \in client[c].pending
  BY <1>3, <1>5, <1>6, <1>7, <1>8
<1>. QED BY <1>5, <1>9, <1>10, HandedOverInv

(* The least of the buffered events is the next one.                       *)
LEMMA NextBuffered ==
  ASSUME IInv, NEW c \in Conns, handler[c].pc = "flush",
         NEW s \in Later(c, client[c].lastSequence),
         \A t \in Later(c, client[c].lastSequence) : s <= t
  PROVE  /\ s \in Nat /\ s = client[c].lastSequence + 1
         /\ client[c].lastSequence = handler[c].cursor + Len(wire[c].updates)
         /\ handler[c].boundary < s
<1>. PICK h \in HandlerType, k \in ClientType, w \in WireType :
        h = handler[c] /\ k = client[c] /\ w = wire[c]
  BY DEF IInv, TypeOK
<1>1. ConnOK(c) /\ Len(stream) \in Nat
  BY StoreFacts DEF IInv
<1>2. /\ k.lastSequence \in Nat /\ k.pending \subseteq Nat /\ h.boundary \in Nat
  BY DEF ClientType, HandlerType
<1>3. /\ k.lastSequence = h.cursor + Len(w.updates)
      /\ h.boundary <= k.lastSequence
      /\ \A t \in k.lastSequence + 1 .. Reached(h.home, c) : t \in k.pending
      /\ \A t \in k.pending : t <= Reached(h.home, c)
  BY <1>1 DEF ConnOK, ReplayOK, Replaying
<1>4. Reached(h.home, c) \in Nat
  <2>1. h.home \in Backends
    BY <1>1 DEF ConnOK, MembershipOK
  <2>. QED BY <2>1, <1>1 DEF IInv, TypeOK, WatcherOK, WatcherType, Reached
<1>5. s \in Nat /\ s > k.lastSequence /\ s <= Reached(h.home, c)
  BY <1>2, <1>3 DEF Later
<1>6. k.lastSequence + 1 \in k.lastSequence + 1 .. Reached(h.home, c)
  BY <1>2, <1>4, <1>5
<1>7. k.lastSequence + 1 \in Later(c, k.lastSequence)
  BY <1>2, <1>3, <1>6 DEF Later
<1>8. s <= k.lastSequence + 1
  BY <1>7
<1>. QED BY <1>2, <1>3, <1>5, <1>8

(* The flush sends the buffered events one after the other.                *)
LEMMA FlushNextInv ==
  ASSUME IInv, NEW c \in Conns, FlushNext(c) PROVE IInv'
<1>. PICK h \in HandlerType, k \in ClientType, w \in WireType :
        h = handler[c] /\ k = client[c] /\ w = wire[c]
  BY DEF IInv, TypeOK
<1>1. PICK s \in Later(c, k.lastSequence) :
        /\ \A t \in Later(c, k.lastSequence) : s <= t
        /\ wire' = [wire EXCEPT ![c] = Written(@, <<s>>)]
        /\ HandedOver(c, s)
  BY DEF FlushNext
<1>2. /\ h.pc = "flush" /\ k.sock = "open" /\ ConnOK(c)
      /\ UNCHANGED <<exists, doc, stream, room, watcher, crashes>>
  BY DEF FlushNext, IInv
<1>3. /\ s \in Nat /\ s = k.lastSequence + 1
      /\ k.lastSequence = h.cursor + Len(w.updates) /\ h.boundary < s
  BY <1>1, <1>2, NextBuffered
<1>4. /\ h.cursor \in Nat /\ h.boundary \in Nat /\ w.updates \in Seq(Nat)
      /\ k.lastSequence \in Nat
  BY DEF HandlerType, WireType, ClientType
<1>5. /\ w.handoff = h.boundary - h.cursor /\ h.cursor > 0
      /\ \A t \in k.lastSequence + 1 .. Reached(h.home, c) : t \in k.pending
      /\ \A i \in 1 .. Len(w.updates) : w.updates[i] = h.cursor + i
  <2>1. ReplayOK(c) /\ LiveOK(c)
    BY <1>2 DEF ConnOK
  <2>2. /\ k.replaying /\ h.cursor > 0 /\ w.handoff # -1
        /\ \A t \in k.lastSequence + 1 .. Reached(h.home, c) : t \in k.pending
    BY <1>2, <2>1 DEF ReplayOK, Resumed, Replaying
  <2>3. w.handoff = h.boundary - h.cursor
    BY <2>1, <2>2 DEF LiveOK
  <2>4. \A i \in 1 .. Len(w.updates) : w.updates[i] = h.cursor + i
    BY <2>1, <2>2 DEF LiveOK, From, Resumed
  <2>. QED BY <2>2, <2>3, <2>4
<1>. DEFINE v == Append(w.updates, s)
            y == [w EXCEPT !.updates = v]
<1>6. /\ v \in Seq(Nat) /\ Len(v) = Len(w.updates) + 1
      /\ v[Len(w.updates) + 1] = s
      /\ \A i \in 1 .. Len(w.updates) : v[i] = w.updates[i]
      /\ Len(w.updates) \in Nat
  BY <1>3, <1>4, Appended
<1>7. /\ y \in WireType /\ y.handoff = w.handoff
      /\ y.updates = v /\ y.states = w.states
      /\ wire' = [wire EXCEPT ![c] = y]
  <2>1. w.updates \o <<s>> = v
    BY <1>3, <1>4
  <2>. HIDE DEF v
  <2>. QED BY <1>1, <1>6, <2>1 DEF WireType, Written
<1>. HIDE DEF v, y
<1>8. s = h.cursor + Len(v) /\ h.boundary <= s
  <2>1. PICK n \in Nat : n = Len(w.updates)
    BY ONLY <1>6
  <2>2. /\ h.cursor \in Nat /\ h.boundary \in Nat /\ s \in Nat
        /\ s = (h.cursor + n) + 1 /\ Len(v) = n + 1 /\ h.boundary < s
    BY ONLY <1>3, <1>4, <1>6, <2>1
  <2>. QED BY ONLY <2>1, <2>2
<1>9. ASSUME NEW i \in 1 .. Len(v) PROVE v[i] = h.cursor + i
  <2>1. CASE i \in 1 .. Len(w.updates)
    BY <1>5, <1>6, <2>1
  <2>2. CASE i \notin 1 .. Len(w.updates)
    <3>1. i = Len(v) /\ v[Len(v)] = s
      BY ONLY <1>6, <2>2, i \in 1 .. Len(v)
    <3>. QED BY ONLY <1>8, <3>1
  <2>. QED BY <2>1, <2>2
<1>10. \A t \in s + 1 .. Reached(Home(c), c) : t \in k.pending
  <2>1. Reached(h.home, c) \in Nat
    <3>1. h.home \in Backends
      BY <1>2 DEF ConnOK, MembershipOK
    <3>2. Len(stream) \in Nat
      BY StoreFacts DEF IInv
    <3>. QED BY <3>1, <3>2 DEF IInv, TypeOK, WatcherOK, WatcherType, Reached
  <2>2. \A t \in s + 1 .. Reached(h.home, c) : t \in k.lastSequence + 1 .. Reached(h.home, c)
    BY <1>3, <1>4, <2>1
  <2>. QED BY <1>5, <2>2 DEF Home
<1>11. /\ HandedOver(c, s) /\ wire' = [wire EXCEPT ![c] = y]
       /\ UNCHANGED <<exists, doc, stream, room, watcher, crashes>>
       /\ handler[c].pc \in {"finish", "flush"} /\ client[c].sock = "open"
       /\ handler[c].boundary <= s
  BY <1>1, <1>2, <1>7, <1>8
<1>12. /\ y.handoff = handler[c].boundary - handler[c].cursor
       /\ y.states = wire[c].states
       /\ s = handler[c].cursor + Len(y.updates)
       /\ \A i \in 1 .. Len(y.updates) : y.updates[i] = handler[c].cursor + i
       /\ \A t \in s + 1 .. Reached(Home(c), c) : t \in client[c].pending
  BY <1>5, <1>7, <1>8, <1>9, <1>10
<1>. QED BY <1>3, <1>7, <1>11, <1>12, HandedOverInv

(* A batch is read; nothing of it has been handed on yet.                  *)
LEMMA ReadBatchInv ==
  ASSUME IInv, NEW b \in Backends, ReadBatch(b) PROVE IInv'
<1>. PICK w \in WatcherType, r \in RoomType : w = watcher[b] /\ r = room[b]
  BY DEF IInv, TypeOK
<1>. DEFINE end == IF w.cursor + ReadCount < Len(stream)
                   THEN w.cursor + ReadCount ELSE Len(stream)
<1>1. /\ Len(stream) \in Nat /\ LastStreamID = Len(stream) /\ WatcherOK(b)
      /\ ReadCount \in Nat \ {0} /\ w.cursor \in Nat
      /\ UNCHANGED <<exists, doc, stream, room, client, handler, wire, crashes>>
  BY StoreFacts, DeliveryAssumption DEF ReadBatch, IInv, WatcherType
<1>2. w.pc = "read" /\ w.cursor < Len(stream)
  BY <1>1 DEF ReadBatch
<1>3. end \in Nat /\ w.cursor < end /\ end <= Len(stream)
  BY <1>1, <1>2
<1>4. watcher' = [watcher EXCEPT ![b] = [w EXCEPT !.batchEnd = end, !.pc = "apply"]]
  BY <1>1 DEF ReadBatch, Follow
<1>. HIDE DEF end
<1>5. PICK v \in WatcherType :
        /\ watcher' = [watcher EXCEPT ![b] = v]
        /\ v.pc = "apply" /\ v.initial = w.initial /\ v.cursor = w.cursor
        /\ v.batchEnd = end /\ v.left = w.left
  <2>. DEFINE v == [w EXCEPT !.batchEnd = end, !.pc = "apply"]
  <2>1. /\ v \in WatcherType
        /\ v.pc = "apply" /\ v.initial = w.initial /\ v.cursor = w.cursor
        /\ v.batchEnd = end /\ v.left = w.left
    BY <1>3 DEF WatcherType
  <2>. HIDE DEF v
  <2>. QED BY <1>4, <2>1 DEF v
<1>6. watcher'[b] = v
  BY <1>5 DEF IInv, TypeOK
<1>7. /\ r.snap \in Snapshot /\ r.snap.sequence <= r.snap.sequence
      /\ room' = [room EXCEPT ![b].snap = r.snap]
  BY <1>1 DEF IInv, TypeOK, RoomType, Snapshot
<1>8. WatcherOK(b)'
  BY <1>1, <1>2, <1>3, <1>5, <1>6 DEF WatcherOK, OnlyLags
<1>9. \A d : Reached(b, d)' = Reached(b, d)
  BY <1>2, <1>5, <1>6 DEF Reached
<1>10. r.cached
  BY <1>1, <1>2 DEF WatcherOK
<1>. QED BY <1>1, <1>5, <1>7, <1>8, <1>9, <1>10, WatcherMoves

(* ApplyDistributedEvent puts the event in the room before anybody is told *)
(* of it; an event that is skipped was in the room when it started.        *)
LEMMA ApplyEventInv ==
  ASSUME IInv, NEW b \in Backends, ApplyEvent(b) PROVE IInv'
<1>. PICK w \in WatcherType, r \in RoomType : w = watcher[b] /\ r = room[b]
  BY DEF IInv, TypeOK
<1>1. /\ Len(stream) \in Nat /\ WatcherOK(b) /\ w.pc = "apply"
      /\ w.cursor \in Nat /\ w.initial \in Nat /\ w.batchEnd \in Nat
      /\ r.snap \in Snapshot /\ r.snap.sequence \in Nat
      /\ UNCHANGED <<exists, doc, stream, client, handler, wire, crashes>>
  BY StoreFacts DEF ApplyEvent, IInv, WatcherType, RoomType, Snapshot
<1>. DEFINE id == w.cursor + 1
<1>2. /\ w.cursor < w.batchEnd /\ w.batchEnd <= Len(stream) /\ w.left = {}
      /\ r.cached /\ OnlyLags(r.snap) /\ w.initial <= r.snap.sequence
      /\ w.initial <= Len(stream)
  BY <1>1 DEF WatcherOK
<1>3. id \in 1 .. Len(stream) /\ id <= w.batchEnd
  BY <1>1, <1>2
<1>4. PICK e : e = stream[id] /\ e.content = id /\ e.version = id /\ e.sequence = id
  <2>1. PICK i \in 1 .. Len(stream) : i = id
    BY <1>3
  <2>. HIDE DEF id
  <2>. QED BY <2>1 DEF IInv, StoreOK, LogIsTheDocument
<1>. DEFINE skip == id <= w.initial
            pc == IF ~skip THEN "broadcast"
                  ELSE IF id = w.batchEnd THEN "read" ELSE "apply"
            snap == IF skip \/ id <= r.snap.sequence THEN r.snap
                    ELSE [content |-> id, version |-> id, sequence |-> id]
<1>5. /\ pc \in {"broadcast", "read", "apply"}
      /\ pc = "apply" => id < w.batchEnd
      /\ pc = "broadcast" <=> ~skip
  <2>1. id # w.batchEnd => id < w.batchEnd
    BY <1>1, <1>3
  <2>. HIDE DEF id
  <2>2. CASE skip
    <3>1. pc = IF id = w.batchEnd THEN "read" ELSE "apply"
      BY <2>2
    <3>. QED BY <2>1, <2>2, <3>1
  <2>3. CASE ~skip
    <3>1. pc = "broadcast"
      BY <2>3
    <3>. QED BY <2>3, <3>1
  <2>. QED BY <2>2, <2>3
<1>6. PICK v \in WatcherType :
        /\ watcher' = [watcher EXCEPT ![b] = v]
        /\ v.pc = pc /\ v.initial = w.initial /\ v.cursor = id
        /\ v.batchEnd = w.batchEnd /\ v.left = {}
  <2>. DEFINE next == [w EXCEPT !.cursor = id]
              v == [next EXCEPT !.pc = pc]
  <2>1. id \in Nat
    BY <1>3
  <2>2. next \in WatcherType /\ next.cursor = id /\ next.batchEnd = w.batchEnd
    BY <2>1 DEF WatcherType
  <2>3. watcher' = [watcher EXCEPT ![b] =
              [next EXCEPT !.pc = IF id <= w.initial THEN NextEvent(next) ELSE "broadcast"]]
    BY <1>4 DEF ApplyEvent, Follow, Hydrated
  <2>4. NextEvent(next) = IF id = w.batchEnd THEN "read" ELSE "apply"
    BY <2>2 DEF NextEvent
  <2>5. watcher' = [watcher EXCEPT ![b] = v]
    BY <2>3, <2>4
  <2>. HIDE DEF pc, id
  <2>6. /\ v \in WatcherType
        /\ v.pc = pc /\ v.initial = w.initial /\ v.cursor = id
        /\ v.batchEnd = w.batchEnd /\ v.left = {}
    BY <1>2, <1>5, <2>1 DEF WatcherType
  <2>. HIDE DEF v
  <2>. QED BY <2>5, <2>6
<1>7. room' = [room EXCEPT ![b].snap = snap]
  <2>1. CASE skip \/ id <= r.snap.sequence
    <3>1. room' = room
      BY <1>4, <2>1 DEF ApplyEvent, Hydrated
    <3>. QED BY <2>1, <3>1 DEF IInv, TypeOK, RoomType
  <2>2. CASE ~(skip \/ id <= r.snap.sequence)
    BY <1>4, <2>2 DEF ApplyEvent, Hydrated
  <2>. QED BY <2>1, <2>2
<1>8. /\ snap \in Snapshot /\ r.snap.sequence <= snap.sequence
      /\ ~skip => id <= snap.sequence
      /\ OnlyLags(snap)
  <2>1. id \in Nat /\ doc \in Snapshot /\ doc.sequence = Len(stream)
    BY <1>3, StoreFacts DEF IInv
  <2>2. CASE skip \/ id <= r.snap.sequence
    BY <1>1, <1>2, <2>2
  <2>3. CASE ~(skip \/ id <= r.snap.sequence)
    <3>1. snap = [content |-> id, version |-> id, sequence |-> id]
      BY <2>3
    <3>. HIDE DEF snap
    <3>2. snap.content = id /\ snap.version = id /\ snap.sequence = id /\ snap \in Snapshot
      BY <2>1, <3>1 DEF Snapshot
    <3>. QED BY <1>1, <1>3, <2>1, <2>3, <3>2 DEF OnlyLags
  <2>. QED BY <2>2, <2>3
<1>9. skip <=> id <= w.initial
  OBVIOUS
<1>. HIDE DEF skip, pc, snap
<1>10. /\ watcher'[b] = v /\ room'[b].snap = snap /\ room'[b].cached
  BY <1>2, <1>6, <1>7 DEF IInv, TypeOK, RoomType
<1>11. WatcherOK(b)'
  <2>1. w.initial <= snap.sequence
    BY <1>1, <1>2, <1>8 DEF Snapshot
  <2>2. id > w.initial => id <= snap.sequence
    BY <1>1, <1>8, <1>9
  <2>3. v.pc = "broadcast" => id > w.initial
    BY <1>1, <1>5, <1>6, <1>9
  <2>. QED BY <1>1, <1>2, <1>3, <1>5, <1>6, <1>8, <1>10, <2>1, <2>2, <2>3
     DEF WatcherOK, OnlyLags
<1>12. \A d : Reached(b, d)' = Reached(b, d)
  BY <1>1, <1>2, <1>5, <1>6, <1>9, <1>10 DEF Reached
<1>. QED BY <1>1, <1>2, <1>6, <1>7, <1>8, <1>11, <1>12, WatcherMoves

(* The copy of the clients: nobody in it has been told of the event.       *)
LEMMA SnapshotClientsInv ==
  ASSUME IInv, NEW b \in Backends, SnapshotClients(b) PROVE IInv'
<1>. PICK w \in WatcherType, r \in RoomType : w = watcher[b] /\ r = room[b]
  BY DEF IInv, TypeOK
<1>. DEFINE pc == IF r.clients = {} THEN NextEvent(w) ELSE "send"
<1>1. /\ WatcherOK(b) /\ w.pc = "broadcast"
      /\ w.cursor \in Nat /\ w.batchEnd \in Nat /\ r.clients \subseteq Conns
      /\ UNCHANGED <<exists, doc, stream, room, client, handler, wire, crashes>>
  BY DEF SnapshotClients, IInv, WatcherType, RoomType
<1>2. /\ pc \in {"send", "read", "apply"}
      /\ pc # "send" => r.clients = {}
      /\ pc = "apply" => w.cursor # w.batchEnd
  BY DEF NextEvent
<1>3. PICK v \in WatcherType :
        /\ watcher' = [watcher EXCEPT ![b] = v]
        /\ v.pc = pc /\ v.initial = w.initial /\ v.cursor = w.cursor
        /\ v.batchEnd = w.batchEnd /\ v.left = r.clients
  <2>. DEFINE v == [w EXCEPT !.left = r.clients, !.pc = pc]
  <2>1. watcher' = [watcher EXCEPT ![b] = v]
    BY DEF SnapshotClients, Follow
  <2>. HIDE DEF pc
  <2>2. /\ v \in WatcherType
        /\ v.pc = pc /\ v.initial = w.initial /\ v.cursor = w.cursor
        /\ v.batchEnd = w.batchEnd /\ v.left = r.clients
    BY <1>1, <1>2 DEF WatcherType
  <2>. HIDE DEF v
  <2>. QED BY <2>1, <2>2
<1>. HIDE DEF pc
<1>4. watcher'[b] = v
  BY <1>3 DEF IInv, TypeOK
<1>5. /\ r.snap \in Snapshot /\ r.snap.sequence <= r.snap.sequence
      /\ room' = [room EXCEPT ![b].snap = r.snap]
  BY <1>1 DEF IInv, TypeOK, RoomType, Snapshot
<1>6. r.cached
  BY <1>1 DEF WatcherOK
<1>7. WatcherOK(b)'
  <2>1. w.cursor <= w.batchEnd
    BY <1>1 DEF WatcherOK
  <2>2. v.pc = "apply" => w.cursor < w.batchEnd
    BY <1>1, <1>2, <1>3, <2>1
  <2>. QED BY <1>1, <1>2, <1>3, <1>4, <2>2 DEF WatcherOK, OnlyLags
<1>8. \A d \in r.clients : Reached(b, d)' = Reached(b, d)
  BY <1>1, <1>2, <1>3, <1>4 DEF Reached
<1>. QED BY <1>1, <1>3, <1>5, <1>6, <1>7, <1>8, WatcherMoves

(* What writeContentUpdate does with the event at s: x and y are the       *)
(* client and the wire of c afterwards.                                    *)
Delivered(c, s, x, y) ==
  LET k == client[c]
      w == wire[c]
  IN  /\ client' = [client EXCEPT ![c] = x]
      /\ wire' = [wire EXCEPT ![c] = y]
      /\ x.sock = k.sock /\ x.replaying = k.replaying /\ x.ticket = k.ticket
      /\ y.handoff = w.handoff /\ y.states = w.states
      /\ x.pending = IF k.replaying /\ s > k.lastSequence
                     THEN k.pending \cup {s} ELSE k.pending
      /\ IF ~k.replaying /\ s > k.lastSequence /\ k.sock = "open"
         THEN x.lastSequence = s /\ y.updates = Append(w.updates, s)
         ELSE x.lastSequence = k.lastSequence /\ y.updates = w.updates

(* writeContentUpdate does nothing else.                                   *)
LEMMA Updated ==
  ASSUME TypeOK, NEW c \in Conns, NEW s \in Nat, Update(c, s)
  PROVE  \E x \in ClientType, y \in WireType : Delivered(c, s, x, y)
<1>. PICK k \in ClientType, w \in WireType : k = client[c] /\ w = wire[c]
  BY DEF TypeOK
<1>1. /\ client = [client EXCEPT ![c] = k] /\ wire = [wire EXCEPT ![c] = w]
  BY DEF TypeOK
<1>2. CASE s > k.lastSequence /\ k.replaying
  <2>. DEFINE x == [k EXCEPT !.pending = @ \cup {s}]
  <2>1. client' = [client EXCEPT ![c] = x] /\ wire' = wire
    BY <1>2 DEF Update
  <2>2. /\ x \in ClientType
        /\ x.sock = k.sock /\ x.replaying = k.replaying /\ x.ticket = k.ticket
        /\ x.pending = k.pending \cup {s} /\ x.lastSequence = k.lastSequence
    BY DEF ClientType
  <2>. HIDE DEF x
  <2>. QED BY <1>1, <1>2, <2>1, <2>2 DEF Delivered
<1>3. CASE s > k.lastSequence /\ ~k.replaying /\ k.sock = "open"
  <2>. DEFINE x == [k EXCEPT !.lastSequence = s]
              y == [w EXCEPT !.updates = Append(w.updates, s)]
  <2>1. w.updates \in Seq(Nat) /\ w.updates \o <<s>> = Append(w.updates, s)
        /\ Append(w.updates, s) \in Seq(Nat)
    BY DEF WireType
  <2>2. client' = [client EXCEPT ![c] = x]
    BY <1>3 DEF Update
  <2>3. wire' = [wire EXCEPT ![c] = y]
    <3>1. wire' = [wire EXCEPT ![c] = Written(w, <<s>>)]
      BY <1>3 DEF Update
    <3>. QED BY <2>1, <3>1 DEF Written
  <2>4. /\ x \in ClientType
        /\ x.sock = k.sock /\ x.replaying = k.replaying /\ x.ticket = k.ticket
        /\ x.pending = k.pending /\ x.lastSequence = s
    BY DEF ClientType
  <2>5. /\ y \in WireType
        /\ y.handoff = w.handoff /\ y.states = w.states
        /\ y.updates = Append(w.updates, s)
    BY <2>1 DEF WireType
  <2>. HIDE DEF x, y
  <2>. QED BY <1>3, <2>2, <2>3, <2>4, <2>5 DEF Delivered
<1>4. CASE ~(s > k.lastSequence) \/ (~k.replaying /\ k.sock # "open")
  <2>1. client' = client /\ wire' = wire
    BY <1>4 DEF Update
  <2>. QED BY <1>1, <1>4, <2>1 DEF Delivered
<1>. QED BY <1>2, <1>3, <1>4

(* One client is told of one event: buffered during replay, written if it  *)
(* is the next, dropped if it is an old one.                               *)
LEMMA SendInv ==
  ASSUME IInv, NEW b \in Backends, NEW c \in Conns, Send(b, c) PROVE IInv'
<1>. PICK v \in WatcherType, r \in RoomType, h \in HandlerType,
          k \in ClientType, w \in WireType :
        /\ v = watcher[b] /\ r = room[b]
        /\ h = handler[c] /\ k = client[c] /\ w = wire[c]
  BY DEF IInv, TypeOK
<1>. PICK s \in Nat, u \in Seq(Nat) : s = v.cursor /\ u = w.updates
  BY DEF WatcherType, WireType
<1>. DEFINE left == v.left \ {c}
            pc == IF left = {} THEN NextEvent(v) ELSE "send"
<1>1. /\ WatcherOK(b) /\ ConnOK(c) /\ v.pc = "send" /\ c \in v.left /\ ~Blocked(c)
      /\ UNCHANGED <<exists, doc, stream, room, handler, crashes>>
      /\ s \in Nat /\ v.initial \in Nat /\ v.batchEnd \in Nat /\ v.left \subseteq Conns
      /\ Len(stream) \in Nat /\ r.snap.sequence \in Nat
  BY StoreFacts DEF Send, IInv, WatcherType, RoomType, Snapshot
<1>2. /\ s > v.initial /\ s <= v.batchEnd /\ v.batchEnd <= Len(stream)
      /\ s <= r.snap.sequence
  BY <1>1 DEF WatcherOK
<1>3. /\ h.home = b /\ k.ticket > 0 /\ h.pc \notin {"new", "register"} /\ Following(c)
  BY <1>1 DEF ConnOK, MembershipOK, Following, Home
<1>4. Reached(b, c) = s - 1
  BY <1>1, <1>2 DEF Reached
<1>5. SequenceAt(s) = s
  BY <1>1, <1>2, StoreFacts DEF IInv
<1>6. PICK x \in ClientType, y \in WireType :
        /\ client' = [client EXCEPT ![c] = x]
        /\ wire' = [wire EXCEPT ![c] = y]
        /\ x.sock = k.sock /\ x.replaying = k.replaying /\ x.ticket = k.ticket
        /\ y.handoff = w.handoff /\ y.states = w.states
        /\ x.pending = IF k.replaying /\ s > k.lastSequence
                       THEN k.pending \cup {s} ELSE k.pending
        /\ IF ~k.replaying /\ s > k.lastSequence /\ k.sock = "open"
           THEN x.lastSequence = s /\ y.updates = Append(u, s)
           ELSE x.lastSequence = k.lastSequence /\ y.updates = u
  <2>1. Update(c, s)
    BY <1>5 DEF Send
  <2>2. PICK x \in ClientType, y \in WireType : Delivered(c, s, x, y)
    BY <2>1, Updated DEF IInv
  <2>. QED BY <2>2 DEF Delivered
<1>7. /\ pc \in {"send", "read", "apply"}
      /\ pc # "send" => left = {}
      /\ pc = "apply" => s < v.batchEnd
  <2>1. s # v.batchEnd => s < v.batchEnd
    BY <1>1, <1>2
  <2>. QED BY <2>1 DEF NextEvent
<1>8. PICK z \in WatcherType :
        /\ watcher' = [watcher EXCEPT ![b] = z]
        /\ z.pc = pc /\ z.initial = v.initial /\ z.cursor = s
        /\ z.batchEnd = v.batchEnd /\ z.left = left
  <2>. DEFINE z == [v EXCEPT !.left = left, !.pc = pc]
  <2>1. watcher' = [watcher EXCEPT ![b] = z]
    BY DEF Send, Follow
  <2>2. left \subseteq Conns
    BY <1>1
  <2>. HIDE DEF pc, left
  <2>3. /\ z \in WatcherType
        /\ z.pc = pc /\ z.initial = v.initial /\ z.cursor = s
        /\ z.batchEnd = v.batchEnd /\ z.left = left
    BY <1>7, <2>2 DEF WatcherType
  <2>. HIDE DEF z
  <2>. QED BY <2>1, <2>3
<1>. HIDE DEF pc
<1>9. /\ watcher' \in [Backends -> WatcherType] /\ watcher'[b] = z
      /\ \A a \in Backends \ {b} : watcher'[a] = watcher[a]
      /\ client' \in [Conns -> ClientType] /\ wire' \in [Conns -> WireType]
      /\ client'[c] = x /\ wire'[c] = y /\ handler'[c] = h
      /\ \A d \in Conns \ {c} :
           client'[d] = client[d] /\ wire'[d] = wire[d] /\ handler'[d] = handler[d]
  BY <1>1, <1>6, <1>8 DEF IInv, TypeOK
<1>10. TypeOK' /\ StoreOK'
  BY <1>1, <1>9 DEF IInv, TypeOK, StoreTypeOK, StoreOK, LogIsTheDocument, NoSilentOverwrite
<1>11. ASSUME NEW a \in Backends PROVE WatcherOK(a)'
  <2>1. CASE a = b
    BY <1>1, <1>2, <1>7, <1>8, <1>9, <2>1 DEF WatcherOK, OnlyLags
  <2>2. CASE a # b
    BY <1>1, <1>9, <2>2 DEF IInv, WatcherOK, OnlyLags
  <2>. QED BY <2>1, <2>2
<1>12. ASSUME NEW d \in Conns \ {c} PROVE ConnOK(d)'
  <2>1. \A a \in Backends : Reached(a, d)' = Reached(a, d)
    <3>. TAKE a \in Backends
    <3>1. CASE a = b
      BY <1>1, <1>7, <1>8, <1>9, <3>1 DEF Reached
    <3>2. CASE a # b
      BY <1>9, <3>2 DEF Reached
    <3>. QED BY <3>1, <3>2
  <2>2. \A a \in Backends : d \in watcher'[a].left => d \in watcher[a].left
    BY <1>8, <1>9
  <2>3. /\ doc \in Snapshot
        /\ \A a \in Backends : room[a].snap.sequence \in Nat
    BY StoreFacts DEF IInv, TypeOK, RoomType, Snapshot
  <2>4. Unaffected(d)
    BY <1>1, <1>9, <2>1, <2>2, <2>3 DEF Unaffected, Snapshot
  <2>. QED BY <1>10, <2>4, Bystander DEF IInv
<1>13. MembershipOK(c)'
  <2>1. \A a \in Backends : c \in room'[a].clients \cup watcher'[a].left => h.home = a
    BY <1>1, <1>8, <1>9 DEF ConnOK, MembershipOK
  <2>. QED BY <1>1, <1>3, <1>6, <1>9, <2>1 DEF ConnOK, MembershipOK
<1>14. SnapshotOK(c)'
  BY <1>1, <1>6, <1>9 DEF ConnOK, SnapshotOK, OnlyLags
<1>15. Reached(b, c)' = s
  BY <1>1, <1>2, <1>7, <1>8, <1>9 DEF Reached
<1>16. /\ h.cursor \in Nat /\ h.boundary \in Nat /\ k.lastSequence \in Nat
       /\ u \in Seq(Nat) /\ k.pending \subseteq Nat
  BY DEF HandlerType, ClientType, WireType
<1>17. Resumed(c)' <=> Resumed(c)
  BY <1>9 DEF Resumed
<1>18. ASSUME k.replaying PROVE ConnOK(c)'
  <2>1. /\ Resumed(c) /\ h.cursor > 0 /\ h.pc # "flush"
        /\ w.handoff = -1 => k.lastSequence = h.cursor
        /\ ReplayOK(c) /\ LiveOK(c)
    BY <1>1, <1>18 DEF ConnOK, ReplayOK, Resumed, Blocked
  <2>2. /\ y.updates = u /\ x.lastSequence = k.lastSequence /\ x.replaying
        /\ x.pending = IF s > k.lastSequence THEN k.pending \cup {s} ELSE k.pending
    BY <1>6, <1>18, <2>1
  <2>3. \A q \in k.pending : q \in x.pending
    BY <2>2
  <2>4. h.pc \in {"join"} \cup Replaying => \A q \in x.pending : q <= s
    <3>1. h.pc \in {"join"} \cup Replaying => \A q \in k.pending : q <= s - 1
      BY <1>3, <1>4, <2>1 DEF ReplayOK
    <3>. QED BY <1>1, <1>16, <2>2, <3>1
  <2>5. h.pc \in {"started", "page", "visit", "finish"} =>
          \A q \in h.boundary + 1 .. s : q \in x.pending
    <3>1. h.pc \in {"started", "page", "visit", "finish"} =>
            /\ h.cursor <= h.boundary /\ k.lastSequence = h.cursor
            /\ \A q \in h.boundary + 1 .. s - 1 : q \in k.pending
      BY <1>3, <1>4, <2>1 DEF ReplayOK
    <3>2. \A q \in h.boundary + 1 .. s : q \in h.boundary + 1 .. s - 1 \/ q = s
      BY <1>1, <1>16
    <3>3. h.cursor <= h.boundary => \A q \in h.boundary + 1 .. s : q = s => s > h.cursor
      BY <1>1, <1>16
    <3>. QED BY <2>2, <2>3, <3>1, <3>2, <3>3
  <2>6. ReplayOK(c)'
    BY <1>1, <1>3, <1>6, <1>9, <1>15, <2>1, <2>2, <2>4, <2>5
       DEF ReplayOK, Resumed, Replaying
  <2>7. LiveOK(c)'
    <3>1. From(c)' = From(c)
      BY <1>9, <2>1 DEF From, Resumed
    <3>. QED BY <1>1, <1>6, <1>9, <2>1, <2>2, <3>1 DEF LiveOK, Resumed
  <2>8. JoinOK(c)'
    BY <1>9, <2>1 DEF JoinOK, Resumed
  <2>. QED BY <1>13, <1>14, <2>6, <2>7, <2>8 DEF ConnOK
<1>19. ASSUME ~k.replaying PROVE ConnOK(c)'
  <2>1. /\ LiveOK(c) /\ ReplayOK(c) /\ JoinOK(c)
        /\ Started(c) => k.lastSequence = From(c) + Len(u)
        /\ ~Started(c) => k.lastSequence = 0
    BY <1>1, <1>3, <1>19 DEF ConnOK, LiveOK
  <2>2. ReplayOK(c)'
    <3>1. /\ h.pc \notin Replaying
          /\ h.pc = "join" => ~Resumed(c)
      BY <1>19, <2>1 DEF ReplayOK
    <3>2. h.pc = "join" => \A q \in x.pending : q <= s
      <4>1. h.pc = "join" => \A q \in k.pending : q <= s - 1
        BY <1>3, <1>4, <2>1 DEF ReplayOK
      <4>2. x.pending = k.pending
        BY <1>6, <1>19
      <4>. QED BY <1>1, <1>16, <4>1, <4>2
    <3>3. h.pc = "register" \/ h.pc = "join" => h.at = 0
      BY <2>1 DEF ReplayOK
    <3>4. /\ h.pc \in {"register", "join"} => w.handoff = -1
          /\ y.handoff = w.handoff
      BY <1>6, <2>1 DEF ReplayOK
    <3>. QED BY <1>3, <1>6, <1>9, <1>15, <1>17, <1>19, <3>1, <3>2, <3>3, <3>4
       DEF ReplayOK, Resumed, Replaying
  <2>3. Usable(c)' <=> Usable(c)
    BY <1>6, <1>9 DEF Usable
  <2>4. Usable(c) => k.sock = "open"
    BY <1>1, <1>19 DEF Usable, Blocked
  <2>5. CASE s > k.lastSequence /\ k.sock = "open"
    <3>1. /\ x.lastSequence = s /\ y.updates = Append(u, s)
      BY <1>6, <1>19, <2>5
    <3>2. /\ Len(y.updates) = Len(u) + 1 /\ y.updates[Len(u) + 1] = s
          /\ \A i \in 1 .. Len(u) : y.updates[i] = u[i]
          /\ y.updates # <<>> /\ Len(u) \in Nat
      <4>1. u \in Seq(Nat) /\ s \in Nat
        BY <1>16
      <4>2. /\ Append(u, s) \in Seq(Nat) /\ Len(u) \in Nat
            /\ Len(Append(u, s)) = Len(u) + 1
        BY ONLY <4>1
      <4>3. Append(u, s)[Len(u) + 1] = s
        BY ONLY <4>1
      <4>4. \A i \in 1 .. Len(u) : Append(u, s)[i] = u[i]
        BY ONLY <4>1
      <4>5. Append(u, s) # <<>>
        BY ONLY <4>1, <4>2
      <4>. QED BY ONLY <3>1, <4>2, <4>3, <4>4, <4>5
    <3>3. Started(c)' /\ Usable(c)
      BY <1>9, <2>5, <3>2 DEF Started, Usable
    <3>4. PICK f \in Int :
            /\ f = From(c)' /\ s = f + Len(u) + 1
            /\ \A i \in 1 .. Len(u) : u[i] = f + i
      <4>1. CASE Started(c)
        <5>1. From(c)' = From(c) /\ From(c) \in Int
          <6>1. CASE Resumed(c)
            BY <1>9, <1>16, <6>1 DEF From, Resumed
          <6>2. CASE ~Resumed(c)
            <7>1. u # <<>> /\ 1 \in 1 .. Len(u)
              BY <1>16, <4>1, <6>2 DEF Started
            <7>2. u[1] \in Nat
              BY <1>16, <7>1, Elements
            <7>3. From(c) = u[1] - 1 /\ From(c)' = y.updates[1] - 1
              BY <1>9, <6>2 DEF From, Resumed
            <7>. QED BY <3>2, <7>1, <7>2, <7>3
          <6>. QED BY <6>1, <6>2
        <5>2. s - 1 <= k.lastSequence
          BY <1>3, <1>4, <1>19, <2>1, <3>3, <4>1 DEF LiveOK, Home
        <5>3. s = From(c) + Len(u) + 1
          <6>1. PICK l \in Nat, g \in Int, n \in Nat :
                  l = k.lastSequence /\ g = From(c) /\ n = Len(u)
            BY <1>16, <3>2, <5>1
          <6>2. s > l /\ l = g + n /\ s - 1 <= l
            BY <2>1, <2>5, <4>1, <5>2, <6>1
          <6>3. s = g + n + 1
            BY <6>2
          <6>. QED BY <6>1, <6>3
        <5>4. \A i \in 1 .. Len(u) : u[i] = From(c) + i
          BY <2>1 DEF LiveOK
        <5>. QED BY <5>1, <5>3, <5>4
      <4>2. CASE ~Started(c)
        <5>1. u = <<>> /\ ~Resumed(c) /\ Len(u) = 0
          BY <4>2 DEF Started
        <5>2. From(c)' = s - 1
          BY <1>9, <3>2, <5>1 DEF From, Resumed
        <5>. QED BY <1>1, <5>1, <5>2
      <4>. QED BY <4>1, <4>2
    <3>5. \A i \in 1 .. Len(y.updates) : y.updates[i] = From(c)' + i
      <4>1. \A i \in 1 .. Len(u) + 1 : i \in 1 .. Len(u) \/ i = Len(u) + 1
        BY <3>2
      <4>2. s = f + (Len(u) + 1)
        <5>1. PICK n \in Nat : n = Len(u)
          BY <3>2
        <5>2. s = f + n + 1
          BY <3>4, <5>1
        <5>3. s = f + (n + 1)
          BY <5>2
        <5>. QED BY <5>1, <5>3
      <4>. QED BY <3>2, <3>4, <4>1, <4>2
    <3>6. x.lastSequence = From(c)' + Len(y.updates)
      BY <1>1, <3>1, <3>2, <3>4
    <3>7. LiveOK(c)'
      <4>1. Reached(Home(c), c)' <= x.lastSequence
        <5>1. Reached(Home(c), c)' = s
          BY <1>3, <1>9, <1>15 DEF Home, Reached
        <5>. QED BY <1>1, <3>1, <5>1
      <4>2. w.handoff # -1 => /\ h.cursor <= h.boundary
                              /\ h.boundary <= Len(stream)
                              /\ w.handoff = h.boundary - h.cursor
                              /\ h.boundary <= h.cursor + Len(u)
                              /\ Resumed(c)
        BY <2>1 DEF LiveOK
      <4>3. h.boundary <= h.cursor + Len(u) => h.boundary <= h.cursor + Len(y.updates)
        <5>1. PICK n \in Nat : n = Len(u)
          BY <3>2
        <5>2. Len(y.updates) = n + 1
          BY <3>2, <5>1
        <5>. QED BY <1>16, <5>1, <5>2
      <4>4. y.handoff = w.handoff
        BY <1>6
      <4>. QED BY <1>1, <1>6, <1>9, <1>17, <1>19, <3>3, <3>5, <3>6, <4>1, <4>2, <4>3, <4>4
         DEF LiveOK, Resumed
    <3>8. JoinOK(c)'
      <4>. SUFFICES ASSUME ~Resumed(c) PROVE JoinOK(c)'
        BY <1>17 DEF JoinOK
      <4>1. u # <<>> => y.updates[1] = u[1]
        BY <1>16, <3>2
      <4>2. u = <<>> => y.updates[1] = s /\ s - 1 = Reached(h.home, c)
        BY <1>3, <1>4, <3>2
      <4>3. h.pc \in Serving => y.updates[1] <= r.snap.sequence
        BY <1>2, <1>3, <2>1, <4>1, <4>2 DEF JoinOK
      <4>4. ASSUME NEW q \in Nat,
                   u # <<>> => u[1] <= q + 1,
                   u = <<>> /\ Following(c) /\ Usable(c) => Reached(h.home, c) <= q
            PROVE  y.updates[1] <= q + 1
        BY <1>1, <1>3, <3>3, <4>1, <4>2, <4>4
      <4>5. h.snap.sequence \in Nat
        BY DEF HandlerType, Snapshot
      <4>6. w.states # <<>> => w.states[1].snap.sequence \in Nat
        <5>1. w.states \in Seq([snap : Snapshot, after : Nat])
          BY DEF WireType
        <5>2. w.states # <<>> => 1 \in 1 .. Len(w.states)
          BY <5>1
        <5>3. w.states # <<>> => w.states[1] \in [snap : Snapshot, after : Nat]
          BY <5>1, <5>2, Elements
        <5>. QED BY <5>3 DEF Snapshot
      <4>7. h.pc = "writeState" => y.updates[1] <= h.snap.sequence + 1
        BY <2>1, <4>4, <4>5 DEF JoinOK
      <4>8. w.states # <<>> => y.updates[1] <= w.states[1].snap.sequence + 1
        BY <2>1, <4>4, <4>6 DEF JoinOK
      <4>. QED BY <1>1, <1>3, <1>6, <1>9, <2>1, <3>2, <4>3, <4>7, <4>8 DEF JoinOK, Resumed
    <3>. QED BY <1>13, <1>14, <2>2, <3>7, <3>8 DEF ConnOK
  <2>6. CASE ~(s > k.lastSequence /\ k.sock = "open")
    <3>1. x.lastSequence = k.lastSequence /\ y.updates = u
      BY <1>6, <1>19, <2>6
    <3>2. Usable(c) => Started(c) /\ s <= k.lastSequence
      BY <1>1, <1>2, <1>16, <2>1, <2>4, <2>6
    <3>3. /\ From(c)' = From(c) /\ (Started(c)' <=> Started(c))
      BY <1>9, <3>1 DEF From, Started, Resumed
    <3>4. LiveOK(c)'
      <4>1. Reached(Home(c), c)' = s
        BY <1>3, <1>9, <1>15 DEF Home, Reached
      <4>. QED BY <1>1, <1>6, <1>9, <1>17, <1>19, <2>1, <2>3, <3>1, <3>2, <3>3, <4>1
         DEF LiveOK, Resumed
    <3>5. JoinOK(c)'
      <4>1. ~Resumed(c) /\ Usable(c) => u # <<>>
        BY <3>2 DEF Started
      <4>. QED BY <1>1, <1>6, <1>9, <2>1, <2>3, <3>1, <4>1 DEF JoinOK, Resumed
    <3>. QED BY <1>13, <1>14, <2>2, <3>4, <3>5 DEF ConnOK
  <2>. QED BY <2>5, <2>6
<1>. QED BY <1>10, <1>11, <1>12, <1>18, <1>19 DEF IInv
===============================================================================
