--------------------------- MODULE LocalRoomProofs ---------------------------
(***************************************************************************)
(* Nobody in a room without Redis is forgotten by a broadcast, and no room *)
(* is left over, for any connections, policy, number of edits and faults.  *)
(*                                                                         *)
(* TextOnItsWay and PresenceOnItsWay are about goroutines that overtake    *)
(* each other, so the invariant says what each one knows: a snapshot that  *)
(* carries the current revision names the clients of this moment           *)
(* (Truthful), a text is never ahead of the document, and a connection is  *)
(* in the list of clients exactly between AddClient and RemoveClient.      *)
(***************************************************************************)
EXTENDS LocalRoom, SequenceTheorems, TLAPS

HandlerType == [pc : Pcs, task : {"none", "join", "leave", "edit"},
                seq : Nat, accepted : BOOLEAN,
                snap : PresenceType, left : Seq(Conns)]

\* A presence list is not from the future, and right if it is the newest.
Truthful(p) ==
  /\ p.revision <= revision
  /\ p.revision = revision => p.members = Members

\* What the locals of serveWS say at each point of it.
LocalsOK(c) ==
  LET h == handler[c]
  IN  /\ h.pc = "announce" => h.task \in {"join", "leave"}
      /\ h.pc \in {"audience", "tell"} => h.task # "none"
      /\ h.pc \in {"acknowledge", "resync"} => h.task = "edit"
      /\ h.pc \notin {"announce", "audience", "tell", "acknowledge", "resync"} =>
           h.task = "none"
      /\ h.pc \in {"audience", "tell"} /\ h.task = "edit" => h.accepted
      /\ h.pc = "tell" => h.left # <<>>
      /\ h.seq <= doc
      /\ Truthful(h.snap)

\* What the peer was told, and that there is one.
PeerOK(c) ==
  /\ page[c].text <= page[c].best /\ page[c].best <= doc /\ Truthful(told[c])
  /\ sock[c] = "none" => handler[c].pc \in {"new", "register", "closed"}

\* c is between AddClient and RemoveClient.
InRoom(c) ==
  \/ handler[c].pc \in {"read", "writeState", "live", "acknowledge",
                           "resync", "remove"}
  \/ handler[c].pc \in {"announce", "audience", "tell"} /\ handler[c].task # "leave"

ClientsOK ==
  /\ \A i, j \in 1 .. Len(clients) : clients[i] = clients[j] => i = j
  /\ \A c \in Conns : c \in Members <=> InRoom(c)

\* c has yet to go, or to see whether it is the last one.
Busy(c) == handler[c].pc \notin {"new", "register", "close", "closed"}

\* A room that was used is in use or forgotten.
RoomOK ==
  /\ table = "none" =>
       \A c \in Conns : handler[c].pc \in {"new", "closed"} /\ sock[c] = "none"
  /\ (\E c \in Conns : sock[c] # "none") =>
       table = "forgotten" \/ \E d \in Conns : Busy(d)

\* TextOnItsWay, where it does not matter what a page has gone back to.
TextTold ==
  \A c \in Members :
    sock[c] = "open" /\ handler[c].pc # "remove" =>
      page[c].best = doc \/ \E d \in Conns : WillTellText(d, c)

LInv ==
  /\ LocalTypeOK
  /\ \A c \in Conns : LocalsOK(c) /\ PeerOK(c)
  /\ ClientsOK
  /\ RoomOK
  /\ TextTold
  /\ PresenceOnItsWay

-----------------------------------------------------------------------------
LEMMA InitLInv == Init => LInv
<1> SUFFICES ASSUME Init PROVE LInv
  OBVIOUS
<1>1. clients \in Seq(Conns) /\ Len(clients) = 0 /\ Members = {}
  BY DEF Init, Members
<1>2. NewHandler \in HandlerType /\ Nobody \in PresenceType
  BY DEF NewHandler, HandlerType, Pcs, Nobody, PresenceType
<1>3. LocalTypeOK
  BY <1>1, <1>2 DEF Init, LocalTypeOK, HandlerType, PageType
<1>4. \A c \in Conns : LocalsOK(c) /\ PeerOK(c)
  BY DEF Init, LocalsOK, PeerOK, Truthful, NewHandler, Nobody
<1>5. ClientsOK
  BY <1>1 DEF Init, ClientsOK, InRoom, NewHandler
<1>6. RoomOK
  BY DEF Init, RoomOK, NewHandler
<1>7. TextTold /\ PresenceOnItsWay
  BY <1>1 DEF TextTold, PresenceOnItsWay
<1> QED  BY <1>3, <1>4, <1>5, <1>6, <1>7 DEF LInv

\* Types of a connection's variables, for the steps below.
LEMMA Types ==
  ASSUME LInv, NEW c \in Conns
  PROVE  /\ handler[c] \in HandlerType /\ handler \in [Conns -> HandlerType]
         /\ handler[c].seq \in Nat /\ handler[c].left \in Seq(Conns)
         /\ handler[c].snap \in PresenceType /\ handler[c].snap.revision \in Int
         /\ told[c] \in PresenceType /\ told[c].revision \in Int
         /\ page[c] \in PageType /\ page[c].best \in Int /\ page[c].text \in Int
         /\ doc \in Nat /\ revision \in Nat
         /\ clients \in Seq(Conns) /\ Members \subseteq Conns
<1>1. /\ handler \in [Conns -> HandlerType] /\ told \in [Conns -> PresenceType]
      /\ page \in [Conns -> PageType] /\ doc \in Nat /\ revision \in Nat
      /\ clients \in Seq(Conns)
  BY DEF LInv, LocalTypeOK, HandlerType
<1>2. \A p \in PresenceType : p.revision \in Int
  BY DEF PresenceType
<1>3. \A h \in HandlerType : h.seq \in Nat /\ h.left \in Seq(Conns) /\ h.snap \in PresenceType
  BY DEF HandlerType
<1>4. Members \subseteq Conns
  BY <1>1 DEF Members
<1>5. \A g \in PageType : g.best \in Int /\ g.text \in Int
  BY DEF PageType
<1> QED  BY <1>1, <1>2, <1>3, <1>4, <1>5

\* A presence list with the newest revision is the newest list.
LEMMA TruthfulIsNewest ==
  ASSUME NEW p \in PresenceType, Truthful(p), p.revision = revision
  PROVE  p = [revision |-> revision, members |-> Members]
BY DEF Truthful, PresenceType

\* Somebody busy is in a room that was created, and keeps it from leaking.
LEMMA BusyKeepsRoom ==
  ASSUME NEW c \in Conns, Busy(c)', table' # "none"
  PROVE  RoomOK'
BY DEF RoomOK

LEMMA BusyHasRoom ==
  ASSUME LInv, NEW c \in Conns, handler[c].pc \notin {"new", "closed"}
  PROVE  table # "none"
BY DEF LInv, RoomOK

(* A step of c that leaves document and list of clients alone: it must not *)
(* forget anyone it still had to write to.                                 *)
LEMMA QuietInv ==
  ASSUME LInv, NEW c \in Conns, NEW k \in HandlerType,
         handler' = [handler EXCEPT ![c] = k], handler[c].pc # "remove",
         UNCHANGED <<doc, clients, revision>>,
         table' \in {"none", "listed", "forgotten"}, edits' \in Nat,
         sock' \in [Conns -> {"none", "open", "stalled", "broken"}],
         told' \in [Conns -> PresenceType], page' \in [Conns -> PageType],
         LocalsOK(c)', InRoom(c)' <=> InRoom(c), RoomOK',
         \A x \in Conns :
           /\ PeerOK(x)'
           /\ sock'[x] = "open" => sock[x] = "open"
           /\ page[x].best = doc => page'[x].best = doc
           /\ told[x].revision = revision => told'[x] = told[x]
           /\ x \in Members /\ sock'[x] = "open" /\ WillTellText(c, x) =>
                WillTellText(c, x)' \/ page'[x].best = doc
           /\ x \in Members /\ sock'[x] = "open" /\ WillTellPresence(c, x) =>
                WillTellPresence(c, x)' \/ told'[x].revision = revision
  PROVE  LInv'
<1>1. /\ handler'[c] = k /\ \A d \in Conns \ {c} : handler'[d] = handler[d]
      /\ Members' = Members /\ Members \subseteq Conns
  BY DEF LInv, LocalTypeOK, Members
<1>2. LocalTypeOK'
  BY DEF LInv, LocalTypeOK, HandlerType
<1>3. \A d \in Conns : LocalsOK(d)' /\ PeerOK(d)'
  BY <1>1 DEF LInv, LocalsOK, Truthful
<1>4. ClientsOK'
  BY <1>1 DEF LInv, ClientsOK, InRoom
<1>5. TextTold'
  <2> SUFFICES ASSUME NEW x \in Conns, x \in Members, sock'[x] = "open",
                      handler'[x].pc # "remove"
               PROVE  page'[x].best = doc \/ \E d \in Conns : WillTellText(d, x)'
    BY <1>1 DEF TextTold
  <2>1. page[x].best = doc \/ \E d \in Conns : WillTellText(d, x)
    BY <1>1 DEF LInv, TextTold
  <2>2. \A d \in Conns \ {c} : WillTellText(d, x) => WillTellText(d, x)'
    BY <1>1 DEF WillTellText
  <2> QED  BY <2>1, <2>2
<1>6. PresenceOnItsWay'
  <2> SUFFICES ASSUME NEW x \in Conns, x \in Members, sock'[x] = "open"
               PROVE  \/ told'[x] = [revision |-> revision, members |-> Members]'
                      \/ \E d \in Conns : WillTellPresence(d, x)'
    BY <1>1 DEF PresenceOnItsWay
  <2>1. \/ told[x] = [revision |-> revision, members |-> Members]
        \/ \E d \in Conns : WillTellPresence(d, x)
    BY DEF LInv, PresenceOnItsWay
  <2>2. \A d \in Conns \ {c} : WillTellPresence(d, x) => WillTellPresence(d, x)'
    BY <1>1 DEF WillTellPresence
  <2>3. told'[x].revision = revision =>
          told'[x] = [revision |-> revision, members |-> Members]'
    <3>1. told'[x] \in PresenceType /\ Truthful(told[x])'
      BY DEF PeerOK
    <3> QED  BY <1>1, <3>1 DEF Truthful, PresenceType
  <2>4. told[x].revision = revision => told'[x].revision = revision
    BY DEF PeerOK
  <2> QED  BY <2>1, <2>2, <2>3, <2>4
<1> QED  BY <1>2, <1>3, <1>4, <1>5, <1>6 DEF LInv

-----------------------------------------------------------------------------
\* A connection that has nothing left to tell.
LEMMA Silent ==
  ASSUME LInv, NEW c \in Conns,
         handler[c].pc \notin {"announce", "audience", "tell", "acknowledge",
                               "resync", "read", "writeState"}
  PROVE  /\ handler[c].task = "none"
         /\ \A x \in Conns : ~WillTellText(c, x) /\ ~WillTellPresence(c, x)
BY DEF LInv, LocalsOK, WillTellText, WillTellPresence

\* A handler whose locals went out of scope.
LEMMA Returned ==
  ASSUME NEW pc \in Pcs
  PROVE  LET k == [NewHandler EXCEPT !.pc = pc]
         IN  /\ k \in HandlerType /\ k.pc = pc /\ k.task = "none" /\ k.seq = 0
             /\ k.snap = Nobody
<1>1. NewHandler \in HandlerType /\ Nobody \in PresenceType
  BY DEF NewHandler, HandlerType, Pcs, Nobody, PresenceType
<1> QED  BY <1>1 DEF HandlerType, NewHandler

LEMMA GetRoomInv == ASSUME LInv, NEW c \in Conns, GetRoom(c) PROVE LInv'
<1> DEFINE k == [handler[c] EXCEPT !.pc = IF table = "listed" THEN "register"
                                          ELSE "closed"]
<1>1. /\ handler[c].pc = "new" /\ handler' = [handler EXCEPT ![c] = k]
      /\ UNCHANGED <<table, doc, clients, revision, sock, told, page, edits>>
  BY DEF GetRoom, Goto
<1>2. /\ k \in HandlerType /\ k.pc \in {"register", "closed"}
      /\ k.task = handler[c].task /\ k.seq = handler[c].seq
      /\ k.snap = handler[c].snap
      /\ table = "none" => k.pc = "closed"
  BY Types DEF HandlerType, Pcs
<1> HIDE DEF k
<1>3. handler'[c] = k /\ \A d \in Conns \ {c} : handler'[d] = handler[d]
  BY <1>1, Types
<1>4. LocalsOK(c)' /\ (InRoom(c)' <=> InRoom(c))
  <2>1. LocalsOK(c)
    BY DEF LInv
  <2>2. LocalsOK(c)'
    <3>1. Truthful(handler[c].snap)' /\ k.seq <= doc'
      BY <1>1, <1>2, <1>3, <2>1 DEF LocalsOK, Truthful, Members
    <3>2. k.task = "none"
      BY <1>1, <1>2, <2>1 DEF LocalsOK
    <3> QED  BY <1>2, <1>3, <3>1, <3>2 DEF LocalsOK
  <2> QED  BY <1>1, <1>2, <1>3, <2>2 DEF InRoom
<1>5. RoomOK'
  <2>1. \A d \in Conns : Busy(d)' <=> Busy(d)
    BY <1>1, <1>2, <1>3 DEF Busy
  <2> QED  BY <1>1, <1>2, <1>3, <2>1 DEF LInv, RoomOK
<1>6. \A x \in Conns : PeerOK(x)'
  BY <1>1, <1>2 DEF LInv, LocalTypeOK, PeerOK, Truthful, Members
<1> QED  BY <1>1, <1>2, <1>4, <1>5, <1>6, QuietInv, Silent DEF LInv, LocalTypeOK

\* Whoever is still in the list finds, as the last one, that nobody is.
LEMMA CountInv == ASSUME LInv, NEW c \in Conns, Count(c) PROVE LInv'
<1> DEFINE k == [NewHandler EXCEPT !.pc = IF clients = <<>> THEN "forget" ELSE "close"]
<1>1. /\ handler[c].pc = "count" /\ handler' = [handler EXCEPT ![c] = k]
      /\ UNCHANGED <<table, doc, clients, revision, sock, told, page, edits>>
  BY DEF Count, Return
<1>2. /\ k \in HandlerType /\ k.pc \in {"forget", "close"}
      /\ k.task = "none" /\ k.seq = 0 /\ k.snap = Nobody
      /\ k.pc = "close" => clients # <<>>
  BY Returned DEF Pcs
<1> HIDE DEF k
<1>3. handler'[c] = k /\ \A d \in Conns \ {c} : handler'[d] = handler[d]
  BY <1>1, Types
<1>4. LocalsOK(c)' /\ (InRoom(c)' <=> InRoom(c))
  BY <1>1, <1>2, <1>3, Types DEF LocalsOK, Truthful, InRoom, Nobody
<1>5. RoomOK'
  <2>1. table' # "none"
    BY <1>1, BusyHasRoom
  <2>2. CASE k.pc = "forget"
    BY <1>3, <2>1, <2>2, BusyKeepsRoom DEF Busy
  <2>3. CASE k.pc = "close"
    <3>1. PICK d \in Conns : d \in Members
      <4>1. Len(clients) \in Nat \ {0} /\ clients[1] \in Conns
        BY <1>2, <2>3, Types
      <4> QED  BY <4>1 DEF Members
    <3>2. InRoom(d) /\ ~InRoom(c)
      BY <1>1, <3>1 DEF LInv, ClientsOK, InRoom
    <3>3. Busy(d)'
      BY <1>3, <3>1, <3>2 DEF InRoom, Busy
    <3> QED  BY <2>1, <3>1, <3>3, BusyKeepsRoom
  <2> QED  BY <1>2, <2>2, <2>3
<1>6. \A x \in Conns : PeerOK(x)'
  BY <1>1, <1>2 DEF LInv, LocalTypeOK, PeerOK, Truthful, Members
<1> QED  BY <1>1, <1>2, <1>4, <1>5, <1>6, QuietInv, Silent DEF LInv, LocalTypeOK

LEMMA DeleteRoomInv == ASSUME LInv, NEW c \in Conns, DeleteRoom(c) PROVE LInv'
<1> DEFINE k == [NewHandler EXCEPT !.pc = "close"]
<1>1. /\ handler[c].pc = "forget" /\ handler' = [handler EXCEPT ![c] = k]
      /\ table' = "forgotten"
      /\ UNCHANGED <<doc, clients, revision, sock, told, page, edits>>
  BY DEF DeleteRoom, Return
<1>2. /\ k \in HandlerType /\ k.pc = "close"
      /\ k.task = "none" /\ k.seq = 0 /\ k.snap = Nobody
  BY Returned DEF Pcs
<1> HIDE DEF k
<1>3. handler'[c] = k
  BY <1>1, Types
<1>4. LocalsOK(c)' /\ (InRoom(c)' <=> InRoom(c))
  BY <1>1, <1>2, <1>3, Types DEF LocalsOK, Truthful, InRoom, Nobody
<1>5. RoomOK'
  BY <1>1 DEF RoomOK
<1>6. \A x \in Conns : PeerOK(x)'
  BY <1>1, <1>2 DEF LInv, LocalTypeOK, PeerOK, Truthful, Members
<1> QED  BY <1>1, <1>2, <1>4, <1>5, <1>6, QuietInv, Silent DEF LInv, LocalTypeOK

LEMMA CloseConnInv == ASSUME LInv, NEW c \in Conns, CloseConn(c) PROVE LInv'
<1> DEFINE k == [handler[c] EXCEPT !.pc = "closed"]
<1>1. /\ handler[c].pc = "close" /\ handler' = [handler EXCEPT ![c] = k]
      /\ sock' = [sock EXCEPT ![c] = "broken"]
      /\ UNCHANGED <<table, doc, clients, revision, told, page, edits>>
  BY DEF CloseConn, Goto
<1>2. /\ k \in HandlerType /\ k.pc = "closed"
      /\ k.task = handler[c].task /\ k.seq = handler[c].seq
      /\ k.snap = handler[c].snap
  BY Types DEF HandlerType, Pcs
<1> HIDE DEF k
<1>3. handler'[c] = k /\ \A d \in Conns \ {c} : handler'[d] = handler[d]
  BY <1>1, Types
<1>4. LocalsOK(c)' /\ (InRoom(c)' <=> InRoom(c))
  <2>1. LocalsOK(c)
    BY DEF LInv
  <2>2. LocalsOK(c)'
    <3>1. Truthful(handler[c].snap)' /\ k.seq <= doc'
      BY <1>1, <1>2, <1>3, <2>1 DEF LocalsOK, Truthful, Members
    <3>2. k.task = "none"
      BY <1>1, <1>2, <2>1 DEF LocalsOK
    <3> QED  BY <1>2, <1>3, <3>1, <3>2 DEF LocalsOK
  <2> QED  BY <1>1, <1>2, <1>3, <2>2 DEF InRoom
<1>5. RoomOK'
  <2>1. \A d \in Conns : Busy(d)' <=> Busy(d)
    BY <1>1, <1>2, <1>3 DEF Busy
  <2>2. table # "none" /\ sock[c] # "none"
    BY <1>1, BusyHasRoom DEF LInv, PeerOK
  <2> QED  BY <1>1, <2>1, <2>2 DEF LInv, RoomOK
<1>6. \A x \in Conns : PeerOK(x)'
  BY <1>1, <1>2 DEF LInv, LocalTypeOK, PeerOK, Truthful, Members
<1>7. /\ sock' \in [Conns -> {"none", "open", "stalled", "broken"}]
      /\ \A x \in Conns : sock'[x] = "open" => sock[x] = "open"
  BY <1>1 DEF LInv, LocalTypeOK
<1> QED  BY <1>1, <1>2, <1>4, <1>5, <1>6, <1>7, QuietInv, Silent DEF LInv, LocalTypeOK

LEMMA LeaveInv == ASSUME LInv, NEW c \in Conns, Leave(c) PROVE LInv'
<1> DEFINE k == [NewHandler EXCEPT !.pc = "remove"]
<1>1. /\ handler[c].pc = "live" /\ handler' = [handler EXCEPT ![c] = k]
      /\ UNCHANGED <<table, doc, clients, revision, sock, told, page, edits>>
  BY DEF Leave, Return
<1>2. /\ k \in HandlerType /\ k.pc = "remove"
      /\ k.task = "none" /\ k.seq = 0 /\ k.snap = Nobody
  BY Returned DEF Pcs
<1> HIDE DEF k
<1>3. handler'[c] = k
  BY <1>1, Types
<1>4. LocalsOK(c)' /\ (InRoom(c)' <=> InRoom(c))
  BY <1>1, <1>2, <1>3, Types DEF LocalsOK, Truthful, InRoom, Nobody
<1>5. RoomOK'
  BY <1>1, <1>2, <1>3, BusyHasRoom, BusyKeepsRoom DEF Busy
<1>6. \A x \in Conns : PeerOK(x)'
  BY <1>1, <1>2 DEF LInv, LocalTypeOK, PeerOK, Truthful, Members
<1> QED  BY <1>1, <1>2, <1>4, <1>5, <1>6, QuietInv, Silent DEF LInv, LocalTypeOK

\* The text that is read is the newest of this moment.
LEMMA ReadStateInv == ASSUME LInv, NEW c \in Conns, ReadState(c) PROVE LInv'
<1> DEFINE k == [handler[c] EXCEPT !.seq = doc, !.pc = "writeState"]
<1>1. /\ handler[c].pc = "read" /\ handler' = [handler EXCEPT ![c] = k]
      /\ UNCHANGED <<table, doc, clients, revision, sock, told, page, edits>>
  BY DEF ReadState
<1>2. /\ k \in HandlerType /\ k.pc = "writeState"
      /\ k.task = handler[c].task /\ k.seq = doc /\ k.snap = handler[c].snap
  BY Types DEF HandlerType, Pcs
<1> HIDE DEF k
<1>3. handler'[c] = k
  BY <1>1, Types
<1>4. LocalsOK(c) /\ LocalsOK(c)' /\ (InRoom(c)' <=> InRoom(c))
  <2>1. LocalsOK(c)
    BY DEF LInv
  <2>2. LocalsOK(c)'
    BY <1>1, <1>2, <1>3, <2>1, Types DEF LocalsOK, Truthful, Members
  <2> QED  BY <1>1, <1>2, <1>3, <2>1, <2>2 DEF InRoom
<1>5. RoomOK'
  BY <1>1, <1>2, <1>3, BusyHasRoom, BusyKeepsRoom DEF Busy
<1>6. \A x \in Conns : PeerOK(x)'
  BY <1>1, <1>2 DEF LInv, LocalTypeOK, PeerOK, Truthful, Members
<1>7. \A x \in Conns : /\ WillTellText(c, x) => WillTellText(c, x)'
                       /\ ~WillTellPresence(c, x)
  BY <1>1, <1>2, <1>3, <1>4 DEF LocalsOK, WillTellText, WillTellPresence
<1> QED  BY <1>1, <1>2, <1>4, <1>5, <1>6, <1>7, QuietInv DEF LInv, LocalTypeOK

\* One more frame for c, with a text at most the newest.
LEMMA PageReads ==
  ASSUME LInv, NEW c \in Conns, NEW seq \in Nat, seq <= doc,
         page' \in {OnRoomState(c, seq), OnContentUpdate(c, seq)}
  PROVE  /\ page' \in [Conns -> PageType]
         /\ \A x \in Conns : /\ page'[x].best <= doc /\ page'[x].text <= page'[x].best
                             /\ page[x].best = doc => page'[x].best = doc
         /\ seq = doc => page'[c].best = doc
<1>1. /\ page \in [Conns -> PageType] /\ page[c] \in PageType
      /\ page[c].text \in Nat \cup {-1} /\ page[c].best \in Nat \cup {-1} /\ doc \in Nat
      /\ \A x \in Conns : page[x].text <= page[x].best /\ page[x].best <= doc
  BY Types DEF LInv, LocalTypeOK, PeerOK, PageType
<1>2. CASE page' = OnRoomState(c, seq)
  <2> DEFINE g == [text |-> seq, best |-> IF seq > page[c].best THEN seq ELSE page[c].best]
  <2>1. page' = [page EXCEPT ![c] = g]
    BY <1>2 DEF OnRoomState
  <2>2. /\ g \in PageType /\ g.text <= g.best /\ g.best <= doc
        /\ page[c].best = doc \/ seq = doc => g.best = doc
    BY <1>1 DEF PageType
  <2> HIDE DEF g
  <2>3. page'[c] = g /\ \A x \in Conns \ {c} : page'[x] = page[x]
    BY <1>1, <2>1
  <2> QED  BY <1>1, <2>1, <2>2, <2>3
<1>3. CASE page' = page /\ seq <= page[c].text
  BY <1>1, <1>3
<1> QED  BY <1>1, <1>2, <1>3 DEF OnContentUpdate

LEMMA WriteStateInv == ASSUME LInv, NEW c \in Conns, WriteState(c) PROVE LInv'
<1> DEFINE k == [NewHandler EXCEPT !.pc = IF sock[c] = "open" THEN "live" ELSE "remove"]
<1>1. /\ handler[c].pc = "writeState" /\ handler' = [handler EXCEPT ![c] = k]
      /\ page' = IF sock[c] = "open" THEN OnRoomState(c, handler[c].seq) ELSE page
      /\ UNCHANGED <<table, doc, clients, revision, sock, told, edits>>
  BY DEF WriteState, Return
<1>2. /\ k \in HandlerType /\ k.pc \in {"live", "remove"}
      /\ k.task = "none" /\ k.seq = 0 /\ k.snap = Nobody
  BY Returned DEF Pcs
<1> HIDE DEF k
<1>3. handler'[c] = k
  BY <1>1, Types
<1>4. LocalsOK(c)' /\ (InRoom(c)' <=> InRoom(c))
  BY <1>1, <1>2, <1>3, Types DEF LocalsOK, Truthful, InRoom, Nobody
<1>5. RoomOK'
  BY <1>1, <1>2, <1>3, BusyHasRoom, BusyKeepsRoom DEF Busy
<1>6. LocalsOK(c)
  BY DEF LInv
<1>7. /\ page' \in [Conns -> PageType]
      /\ \A x \in Conns : /\ page'[x].best <= doc /\ page'[x].text <= page'[x].best
                          /\ page[x].best = doc => page'[x].best = doc
      /\ sock[c] = "open" /\ handler[c].seq = doc => page'[c].best = doc
  BY <1>1, <1>6, Types, PageReads DEF LInv, LocalTypeOK, LocalsOK, PeerOK
<1>8. \A x \in Conns : PeerOK(x)'
  <2>1. \A x \in Conns : Truthful(told[x])' /\ PeerOK(x)
    BY <1>1 DEF LInv, PeerOK, Truthful, Members
  <2>2. \A x \in Conns : sock[x] = "none" => x # c
    BY <1>1 DEF LInv, PeerOK
  <2>3. \A x \in Conns : x # c => handler'[x] = handler[x]
    BY <1>1, Types
  <2> QED  BY <1>1, <1>7, <2>1, <2>2, <2>3 DEF PeerOK
<1>9. \A x \in Conns : /\ WillTellText(c, x) => x = c /\ handler[c].seq = doc
                       /\ ~WillTellPresence(c, x)
  BY <1>1, <1>6 DEF LocalsOK, WillTellText, WillTellPresence
<1>10. /\ edits' \in Nat /\ table' \in {"none", "listed", "forgotten"}
       /\ sock' \in [Conns -> {"none", "open", "stalled", "broken"}]
       /\ told' \in [Conns -> PresenceType]
  BY <1>1 DEF LInv, LocalTypeOK
<1> QED  BY <1>1, <1>2, <1>4, <1>5, <1>7, <1>8, <1>9, <1>10, QuietInv

\* A refused edit is nobody's newest text; an accepted one is still to be told.
LEMMA AcknowledgeInv == ASSUME LInv, NEW c \in Conns, Acknowledge(c) PROVE LInv'
<1> DEFINE h == handler[c]
           k == [h EXCEPT !.pc = IF h.accepted THEN "audience" ELSE "resync"]
<1>1. /\ h.pc = "acknowledge" /\ handler' = [handler EXCEPT ![c] = k]
      /\ UNCHANGED <<table, doc, clients, revision, sock, told, page, edits>>
  BY DEF Acknowledge, Goto
<1>2. LocalsOK(c)
  BY DEF LInv
<1>3. /\ k \in HandlerType
      /\ k.task = h.task /\ k.seq = h.seq /\ k.accepted = h.accepted /\ k.snap = h.snap
      /\ k.pc = IF h.accepted THEN "audience" ELSE "resync"
  BY Types DEF HandlerType, Pcs
<1> HIDE DEF k
<1>4. handler'[c] = k
  BY <1>1, Types
<1>5. LocalsOK(c)' /\ (InRoom(c)' <=> InRoom(c))
  <2>1. Truthful(handler[c].snap)' /\ k.seq <= doc'
    BY <1>1, <1>2, <1>3, <1>4, Types DEF LocalsOK, Truthful, Members
  <2>2. LocalsOK(c)'
    BY <1>1, <1>2, <1>3, <1>4, <2>1 DEF LocalsOK
  <2> QED  BY <1>1, <1>2, <1>3, <1>4, <2>2 DEF LocalsOK, InRoom
<1>6. RoomOK'
  BY <1>1, <1>3, <1>4, BusyHasRoom, BusyKeepsRoom DEF Busy
<1>8. \A x \in Conns : PeerOK(x)'
  BY <1>1, <1>3, <1>4 DEF LInv, LocalTypeOK, PeerOK, Truthful, Members
<1>9. \A x \in Conns : /\ WillTellText(c, x) => WillTellText(c, x)'
                       /\ ~WillTellPresence(c, x)
  BY <1>1, <1>2, <1>3, <1>4 DEF LocalsOK, WillTellText, WillTellPresence
<1> QED  BY <1>1, <1>3, <1>5, <1>6, <1>8, <1>9, QuietInv DEF LInv, LocalTypeOK

\* The page may go back to the text its edit was refused for.
LEMMA ResyncInv == ASSUME LInv, NEW c \in Conns, Resync(c) PROVE LInv'
<1> DEFINE k == [NewHandler EXCEPT !.pc = "live"]
<1>1. /\ handler[c].pc = "resync" /\ handler' = [handler EXCEPT ![c] = k]
      /\ page' = IF sock[c] = "open" THEN OnRoomState(c, handler[c].seq) ELSE page
      /\ UNCHANGED <<table, doc, clients, revision, sock, told, edits>>
  BY DEF Resync, Return
<1>2. /\ k \in HandlerType /\ k.pc = "live"
      /\ k.task = "none" /\ k.seq = 0 /\ k.snap = Nobody
  BY Returned DEF Pcs
<1> HIDE DEF k
<1>3. handler'[c] = k
  BY <1>1, Types
<1>4. LocalsOK(c)' /\ (InRoom(c)' <=> InRoom(c))
  BY <1>1, <1>2, <1>3, Types DEF LocalsOK, Truthful, InRoom, Nobody
<1>5. RoomOK'
  BY <1>1, <1>2, <1>3, BusyHasRoom, BusyKeepsRoom DEF Busy
<1>6. LocalsOK(c)
  BY DEF LInv
<1>7. /\ page' \in [Conns -> PageType]
      /\ \A x \in Conns : /\ page'[x].best <= doc /\ page'[x].text <= page'[x].best
                          /\ page[x].best = doc => page'[x].best = doc
  BY <1>1, <1>6, Types, PageReads DEF LInv, LocalTypeOK, LocalsOK, PeerOK
<1>8. \A x \in Conns : PeerOK(x)'
  <2>1. \A x \in Conns : Truthful(told[x])' /\ PeerOK(x)
    BY <1>1 DEF LInv, PeerOK, Truthful, Members
  <2>2. \A x \in Conns : sock[x] = "none" => x # c
    BY <1>1 DEF LInv, PeerOK
  <2>3. \A x \in Conns : x # c => handler'[x] = handler[x]
    BY <1>1, Types
  <2> QED  BY <1>1, <1>7, <2>1, <2>2, <2>3 DEF PeerOK
<1>9. \A x \in Conns : ~WillTellText(c, x) /\ ~WillTellPresence(c, x)
  BY <1>1, <1>6 DEF LocalsOK, WillTellText, WillTellPresence
<1>10. /\ edits' \in Nat /\ table' \in {"none", "listed", "forgotten"}
       /\ sock' \in [Conns -> {"none", "open", "stalled", "broken"}]
       /\ told' \in [Conns -> PresenceType]
  BY <1>1 DEF LInv, LocalTypeOK
<1> QED  BY <1>1, <1>2, <1>4, <1>5, <1>7, <1>8, <1>9, <1>10, QuietInv

-----------------------------------------------------------------------------
\* Broadcasts

LEMMA TakePresenceInv == ASSUME LInv, NEW c \in Conns, TakePresence(c) PROVE LInv'
<1> DEFINE p == [revision |-> revision, members |-> Members]
           k == [handler[c] EXCEPT !.pc = "audience", !.snap = p]
<1>1. /\ handler[c].pc = "announce" /\ handler' = [handler EXCEPT ![c] = k]
      /\ UNCHANGED <<table, doc, clients, revision, sock, told, page, edits>>
  BY DEF TakePresence
<1>2. p \in PresenceType
  BY Types DEF PresenceType
<1>3. /\ k \in HandlerType /\ k.pc = "audience" /\ k.snap = p
      /\ k.task = handler[c].task /\ k.seq = handler[c].seq
  BY <1>2, Types DEF HandlerType, Pcs
<1> HIDE DEF k
<1>4. handler'[c] = k
  BY <1>1, Types
<1>5. LocalsOK(c)
  BY DEF LInv
<1>6. LocalsOK(c)'
  <2>1. Truthful(handler[c].snap)'
    BY <1>1, <1>3, <1>4, Types DEF Truthful, Members
  <2> QED  BY <1>1, <1>3, <1>4, <1>5, <2>1 DEF LocalsOK
<1>7. InRoom(c)' <=> InRoom(c)
  BY <1>1, <1>3, <1>4 DEF InRoom
<1>8. RoomOK'
  BY <1>1, <1>3, <1>4, BusyHasRoom, BusyKeepsRoom DEF Busy
<1>9. \A x \in Conns : PeerOK(x)'
  BY <1>1, <1>3 DEF LInv, LocalTypeOK, PeerOK, Truthful, Members
<1>10. \A x \in Conns : /\ WillTellText(c, x) => WillTellText(c, x)'
                        /\ WillTellPresence(c, x)'
  BY <1>1, <1>3, <1>4, <1>5 DEF LocalsOK, WillTellText, WillTellPresence
<1> QED  BY <1>1, <1>3, <1>6, <1>7, <1>8, <1>9, <1>10, QuietInv DEF LInv, LocalTypeOK

(* A broadcast goes on with the clients that are left, or serveWS goes on. *)
LEMMA ContinueStep ==
  ASSUME LInv, NEW c \in Conns, handler[c].pc \in {"audience", "tell"},
         NEW left \in Seq(Conns), Continue(c, left),
         UNCHANGED <<table, doc, clients, revision>>
  PROVE  /\ \E k \in HandlerType :
              /\ handler' = [handler EXCEPT ![c] = k] /\ handler'[c] = k
              /\ \/ /\ left # <<>> /\ k.pc = "tell" /\ k.left = left
                    /\ k.task = handler[c].task /\ k.seq = handler[c].seq
                    /\ k.accepted = handler[c].accepted /\ k.snap = handler[c].snap
                 \/ /\ left = <<>>
                    /\ (handler[c].task = "join" <=> k.pc = "read")
         /\ LocalsOK(c)' /\ (InRoom(c)' <=> InRoom(c)) /\ RoomOK'
         /\ sock[c] # "none"
<1> DEFINE h == handler[c]
<1>1. LocalsOK(c) /\ PeerOK(c) /\ h \in HandlerType
  BY Types DEF LInv
<1>2. h.task \in {"join", "leave", "edit"}
  BY <1>1 DEF LocalsOK, HandlerType
<1>3. table' # "none"
  BY BusyHasRoom
<1>4. CASE left # <<>>
  <2> DEFINE k == [h EXCEPT !.pc = "tell", !.left = left]
  <2>1. handler' = [handler EXCEPT ![c] = k]
    BY <1>4 DEF Continue
  <2>2. /\ k \in HandlerType /\ k.pc = "tell" /\ k.left = left
        /\ k.task = h.task /\ k.seq = h.seq
        /\ k.accepted = h.accepted /\ k.snap = h.snap
    BY <1>1 DEF HandlerType, Pcs
  <2> HIDE DEF k
  <2>3. handler'[c] = k
    BY <2>1, Types
  <2>4. Truthful(handler[c].snap)'
    BY <1>1, <2>2, <2>3 DEF LocalsOK, Truthful, Members
  <2>5. LocalsOK(c)'
    BY <1>1, <1>2, <1>4, <2>2, <2>3, <2>4 DEF LocalsOK
  <2>6. Busy(c)' /\ (InRoom(c)' <=> InRoom(c))
    BY <2>2, <2>3 DEF InRoom, Busy
  <2> QED  BY <1>1, <1>3, <1>4, <2>1, <2>2, <2>3, <2>5, <2>6, BusyKeepsRoom DEF PeerOK
<1>5. CASE left = <<>>
  <2> DEFINE k == [NewHandler EXCEPT !.pc = AfterBroadcast(h.task)]
  <2>1. handler' = [handler EXCEPT ![c] = k]
    BY <1>5 DEF Continue
  <2>2. /\ h.task = "join" => AfterBroadcast(h.task) = "read"
        /\ h.task = "leave" => AfterBroadcast(h.task) = "count"
        /\ h.task = "edit" => AfterBroadcast(h.task) = "live"
        /\ AfterBroadcast(h.task) \in {"read", "count", "live"}
        /\ AfterBroadcast(h.task) \in Pcs
    BY <1>2 DEF AfterBroadcast, Pcs
  <2>3. /\ k \in HandlerType /\ k.task = "none" /\ k.seq = 0 /\ k.snap = Nobody
        /\ k.pc = AfterBroadcast(h.task)
    BY <2>2, Returned
  <2> HIDE DEF k
  <2>4. handler'[c] = k
    BY <2>1, Types
  <2>5. Truthful(handler[c].snap)'
    BY <2>3, <2>4, Types DEF Truthful, Nobody
  <2>6. LocalsOK(c)'
    BY <2>2, <2>3, <2>4, <2>5, Types DEF LocalsOK
  <2>7. Busy(c)' /\ (InRoom(c)' <=> InRoom(c))
    BY <1>2, <2>2, <2>3, <2>4 DEF InRoom, Busy
  <2> QED  BY <1>1, <1>2, <1>3, <1>5, <2>1, <2>2, <2>3, <2>4, <2>6, <2>7, BusyKeepsRoom
           DEF PeerOK
<1> QED  BY <1>4, <1>5

\* Whoever is in the room now is among the clients that are copied.
LEMMA TakeClientsInv == ASSUME LInv, NEW c \in Conns, TakeClients(c) PROVE LInv'
<1> DEFINE h == handler[c]
<1>1. /\ h.pc = "audience" /\ Continue(c, clients)
      /\ UNCHANGED <<table, doc, clients, revision, sock, told, page, edits>>
  BY DEF TakeClients
<1>2. PICK k \in HandlerType :
        /\ handler' = [handler EXCEPT ![c] = k] /\ handler'[c] = k
        /\ \/ /\ clients # <<>> /\ k.pc = "tell" /\ k.left = clients
              /\ k.task = h.task /\ k.seq = h.seq
              /\ k.accepted = h.accepted /\ k.snap = h.snap
           \/ clients = <<>>
        /\ LocalsOK(c)' /\ (InRoom(c)' <=> InRoom(c)) /\ RoomOK'
        /\ sock[c] # "none"
  BY <1>1, Types, ContinueStep
<1>3. \A x \in Conns : PeerOK(x)'
  BY <1>1, <1>2 DEF LInv, LocalTypeOK, PeerOK, Truthful, Members
<1>4. \A x \in Conns :
        /\ x \in Members /\ WillTellText(c, x) => WillTellText(c, x)'
        /\ x \in Members /\ WillTellPresence(c, x) => WillTellPresence(c, x)'
  <2>1. CASE clients # <<>>
    <3>1. \A x \in Members : x \in In(k.left)
      BY <1>2, <2>1 DEF Members, In
    <3> QED  BY <1>1, <1>2, <2>1, <3>1 DEF WillTellText, WillTellPresence
  <2>2. CASE clients = <<>>
    BY <2>2 DEF Members
  <2> QED  BY <2>1, <2>2
<1>5. /\ edits' \in Nat /\ table' \in {"none", "listed", "forgotten"}
      /\ sock' \in [Conns -> {"none", "open", "stalled", "broken"}]
      /\ told' \in [Conns -> PresenceType] /\ page' \in [Conns -> PageType]
  BY <1>1 DEF LInv, LocalTypeOK
<1> QED  BY <1>1, <1>2, <1>3, <1>4, <1>5, QuietInv

\* The next client of a broadcast, and those after it.
LEMMA HeadAndTail ==
  ASSUME NEW left \in Seq(Conns), left # <<>>
  PROVE  /\ Head(left) \in Conns /\ Tail(left) \in Seq(Conns)
         /\ Tail(left) = <<>> => In(left) = {Head(left)}
         /\ Tail(left) # <<>> => In(left) \subseteq In(Tail(left)) \cup {Head(left)}
<1>1. /\ Len(left) \in Nat \ {0} /\ Head(left) = left[1] /\ Len(Tail(left)) = Len(left) - 1
      /\ \A i \in 1 .. Len(left) - 1 : Tail(left)[i] = left[i + 1]
  OBVIOUS
<1>2. Head(left) \in Conns /\ Tail(left) \in Seq(Conns)
  BY <1>1
<1>3. ASSUME NEW x \in In(left) PROVE x = Head(left) \/ x \in In(Tail(left))
  <2>1. PICK i \in 1 .. Len(left) : x = left[i]
    BY DEF In
  <2>2. CASE i = 1
    BY <1>1, <2>1, <2>2
  <2>3. CASE i # 1
    <3>1. i - 1 \in 1 .. Len(Tail(left)) /\ x = Tail(left)[i - 1]
      BY <1>1, <2>1, <2>3
    <3> QED  BY <3>1 DEF In
  <2> QED  BY <2>2, <2>3
<1>4. Head(left) \in In(left)
  BY <1>1 DEF In
<1>5. Tail(left) = <<>> => In(Tail(left)) = {}
  BY DEF In
<1> QED  BY <1>2, <1>3, <1>4, <1>5

(* The one that is written now has what c had to tell, or something newer, *)
(* or cannot be written to; the others are still to be told.               *)
LEMMA TellNextInv == ASSUME LInv, NEW c \in Conns, TellNext(c) PROVE LInv'
<1> DEFINE h == handler[c]
           d == Head(h.left)
<1>1. /\ h.pc = "tell" /\ sock[d] # "stalled" /\ Continue(c, Tail(h.left))
      /\ told' = IF h.task = "edit" \/ sock[d] # "open" \/ Outdated(d, h.snap)
                 THEN told ELSE [told EXCEPT ![d] = h.snap]
      /\ page' = IF h.task = "edit" /\ sock[d] = "open"
                 THEN OnContentUpdate(d, h.seq) ELSE page
      /\ UNCHANGED <<table, doc, clients, revision, sock, edits>>
  BY DEF TellNext
<1>2. LocalsOK(c) /\ h.left # <<>>
  BY <1>1 DEF LInv, LocalsOK
<1>3. PICK left \in Seq(Conns) :
        /\ left = Tail(h.left) /\ d \in Conns
        /\ \A x \in In(h.left) : x = d \/ (left # <<>> /\ x \in In(left))
  <2>1. h.left \in Seq(Conns)
    BY Types
  <2> QED  BY <1>2, <2>1, HeadAndTail
<1>4. PICK k \in HandlerType :
        /\ handler' = [handler EXCEPT ![c] = k] /\ handler'[c] = k
        /\ \/ /\ left # <<>> /\ k.pc = "tell" /\ k.left = left
              /\ k.task = h.task /\ k.seq = h.seq
              /\ k.accepted = h.accepted /\ k.snap = h.snap
           \/ /\ left = <<>>
              /\ (h.task = "join" <=> k.pc = "read")
        /\ LocalsOK(c)' /\ (InRoom(c)' <=> InRoom(c)) /\ RoomOK'
        /\ sock[c] # "none"
  <2>1. h.pc \in {"audience", "tell"} /\ Continue(c, left)
    BY <1>1, <1>3
  <2> QED  BY <1>1, <2>1, ContinueStep
<1>5. /\ page' \in [Conns -> PageType]
      /\ \A x \in Conns : /\ page'[x].best <= doc /\ page'[x].text <= page'[x].best
                          /\ page[x].best = doc => page'[x].best = doc
      /\ h.task = "edit" /\ sock[d] = "open" /\ h.seq = doc => page'[d].best = doc
  <2>1. CASE h.task = "edit" /\ sock[d] = "open"
    BY <1>1, <1>2, <1>3, <2>1, Types, PageReads DEF LocalsOK
  <2>2. CASE ~(h.task = "edit" /\ sock[d] = "open")
    BY <1>1, <2>2, Types DEF LInv, LocalTypeOK, PeerOK
  <2> QED  BY <2>1, <2>2
<1>6. /\ told' \in [Conns -> PresenceType] /\ \A x \in Conns : Truthful(told'[x])
      /\ \A x \in Conns : told[x].revision = revision => told'[x] = told[x]
      /\ h.task # "edit" /\ sock[d] = "open" /\ h.snap.revision = revision =>
           told'[d].revision = revision
  <2>1. \A x \in Conns : Truthful(told[x]) /\ told[x].revision <= revision
    BY DEF LInv, PeerOK, Truthful
  <2>2. Truthful(h.snap) /\ h.snap.revision <= revision
    BY <1>2 DEF LocalsOK, Truthful
  <2>3. told \in [Conns -> PresenceType]
    BY DEF LInv, LocalTypeOK
  <2>4. CASE h.task = "edit" \/ sock[d] # "open" \/ Outdated(d, h.snap)
    <3>1. told' = told
      BY <1>1, <2>4
    <3>2. Outdated(d, h.snap) /\ h.snap.revision = revision => told[d].revision = revision
      BY <1>3, <2>1, Types DEF Outdated
    <3> QED  BY <2>1, <2>3, <2>4, <3>1, <3>2
  <2>5. CASE ~(h.task = "edit" \/ sock[d] # "open" \/ Outdated(d, h.snap))
    <3>1. told' = [told EXCEPT ![d] = h.snap]
      BY <1>1, <2>5
    <3>2. told[d].revision < revision
      BY <1>3, <2>2, <2>5, Types DEF Outdated
    <3> QED  BY <1>3, <2>1, <2>2, <2>3, <3>1, <3>2, Types
  <2> QED  BY <2>4, <2>5
<1>7. \A x \in Conns : PeerOK(x)'
  <2>1. \A x \in Conns : Truthful(told[x])'
    BY <1>1, <1>6 DEF Truthful, Members
  <2>2. \A x \in Conns : sock[x] = "none" => x # c
    BY <1>4
  <2>3. \A x \in Conns : x # c => handler'[x] = handler[x]
    BY <1>4, Types
  <2>4. \A x \in Conns : PeerOK(x)
    BY DEF LInv
  <2> QED  BY <1>1, <1>5, <2>1, <2>2, <2>3, <2>4 DEF PeerOK
<1>8. \A x \in Conns : sock[x] = "open" /\ WillTellText(c, x) =>
        WillTellText(c, x)' \/ page'[x].best = doc
  BY <1>1, <1>2, <1>3, <1>4, <1>5 DEF LocalsOK, WillTellText
<1>9. \A x \in Conns : sock[x] = "open" /\ WillTellPresence(c, x) =>
        WillTellPresence(c, x)' \/ told'[x].revision = revision
  BY <1>1, <1>2, <1>3, <1>4, <1>6 DEF LocalsOK, WillTellPresence
<1>10. /\ edits' \in Nat /\ table' \in {"none", "listed", "forgotten"}
       /\ sock' \in [Conns -> {"none", "open", "stalled", "broken"}]
  BY <1>1 DEF LInv, LocalTypeOK
<1> QED  BY <1>1, <1>4, <1>5, <1>6, <1>7, <1>8, <1>9, <1>10, QuietInv

-----------------------------------------------------------------------------
\* The network and the manager

\* A socket that breaks or stalls: there is nobody more to tell.
LEMMA SocketInv ==
  ASSUME LInv, NEW c \in Conns, NEW s \in {"stalled", "broken"}, sock[c] = "open",
         sock' = [sock EXCEPT ![c] = s],
         UNCHANGED <<table, doc, clients, revision, handler, told, page, edits>>
  PROVE  LInv'
<1>1. /\ sock' \in [Conns -> {"none", "open", "stalled", "broken"}]
      /\ \A x \in Conns : /\ sock'[x] = "open" => sock[x] = "open"
                         /\ sock'[x] = "none" <=> sock[x] = "none"
      /\ Members' = Members
  BY DEF LInv, LocalTypeOK, Members
<1>2. LocalTypeOK'
  BY <1>1 DEF LInv, LocalTypeOK
<1>3. \A x \in Conns : LocalsOK(x)' /\ PeerOK(x)'
  BY <1>1 DEF LInv, LocalsOK, PeerOK, Truthful
<1>4. ClientsOK'
  BY <1>1 DEF LInv, ClientsOK, InRoom
<1>5. RoomOK'
  BY <1>1 DEF LInv, RoomOK, Busy
<1>6. TextTold'
  <2>1. \A x, d \in Conns : WillTellText(d, x)' <=> WillTellText(d, x)
    BY DEF WillTellText
  <2> QED  BY <1>1, <2>1, Types DEF LInv, TextTold
<1>7. PresenceOnItsWay'
  <2>1. \A x, d \in Conns : WillTellPresence(d, x)' <=> WillTellPresence(d, x)
    BY DEF WillTellPresence
  <2> QED  BY <1>1, <2>1, Types DEF LInv, PresenceOnItsWay
<1> QED  BY <1>2, <1>3, <1>4, <1>5, <1>6, <1>7 DEF LInv

LEMMA ResetInv == ASSUME LInv, NEW c \in Conns, Reset(c) PROVE LInv'
BY SocketInv DEF Reset

LEMMA StallInv == ASSUME LInv, NEW c \in Conns, Stall(c) PROVE LInv'
BY SocketInv DEF Stall

LEMMA CreateRoomInv == ASSUME LInv, CreateRoom PROVE LInv'
<1> USE DEF CreateRoom
<1>1. LocalTypeOK'
  BY DEF LInv, LocalTypeOK
<1>2. \A x \in Conns : LocalsOK(x)' /\ PeerOK(x)'
  BY DEF LInv, LocalsOK, PeerOK, Truthful, Members
<1>3. ClientsOK'
  BY DEF LInv, ClientsOK, InRoom, Members
<1>4. RoomOK'
  BY DEF LInv, RoomOK
<1>5. TextTold'
  <2>1. \A x, d \in Conns : WillTellText(d, x)' <=> WillTellText(d, x)
    BY DEF WillTellText
  <2> QED  BY <2>1, Types DEF LInv, TextTold, Members
<1>6. PresenceOnItsWay'
  <2>1. \A x, d \in Conns : WillTellPresence(d, x)' <=> WillTellPresence(d, x)
    BY DEF WillTellPresence
  <2>2. Members' = Members /\ Members \subseteq Conns
    BY DEF LInv, LocalTypeOK, Members
  <2> QED  BY <2>1, <2>2 DEF LInv, PresenceOnItsWay
<1> QED  BY <1>1, <1>2, <1>3, <1>4, <1>5, <1>6 DEF LInv

-----------------------------------------------------------------------------
\* Joining, leaving and editing

(* A step of c after which it has a new list of clients to announce.       *)
LEMMA NewListInv ==
  ASSUME LInv, NEW c \in Conns, handler[c].pc \in {"register", "remove"},
         NEW task \in {"join", "leave"},
         handler' = [handler EXCEPT ![c].pc = "announce", ![c].task = task],
         clients' \in Seq(Conns), revision' = revision + 1,
         sock' \in [Conns -> {"none", "open", "stalled", "broken"}],
         sock'[c] # "none", \A x \in Conns \ {c} : sock'[x] = sock[x],
         UNCHANGED <<table, doc, told, page, edits>>,
         \A i, j \in 1 .. Len(clients') : clients'[i] = clients'[j] => i = j,
         Members' = IF task = "join" THEN Members \cup {c} ELSE Members \ {c}
  PROVE  LInv'
<1> DEFINE k == [handler[c] EXCEPT !.pc = "announce", !.task = task]
<1>1. /\ k \in HandlerType /\ k.pc = "announce" /\ k.task = task
      /\ k.seq = handler[c].seq /\ k.snap = handler[c].snap
      /\ handler' = [handler EXCEPT ![c] = k]
  BY Types DEF HandlerType, Pcs
<1> HIDE DEF k
<1>2. handler'[c] = k /\ \A d \in Conns \ {c} : handler'[d] = handler[d]
  BY <1>1, Types
<1>3. LocalTypeOK'
  <2>1. handler \in [Conns -> HandlerType] /\ revision' \in Nat
    BY Types
  <2>2. handler' \in [Conns -> HandlerType]
    BY <1>1, <2>1
  <2> QED  BY <2>1, <2>2 DEF LInv, LocalTypeOK, HandlerType
<1>4. \A x \in Conns : Truthful(handler[x].snap)' /\ Truthful(told[x])'
  <2>1. \A x \in Conns : /\ handler[x].snap.revision <= revision
                         /\ told[x].revision <= revision
    BY DEF LInv, LocalsOK, PeerOK, Truthful
  <2>2. \A x \in Conns : handler'[x].snap = handler[x].snap
    BY <1>1, <1>2
  <2> QED  BY <2>1, <2>2, Types DEF Truthful
<1>5. \A x \in Conns : LocalsOK(x)' /\ PeerOK(x)'
  <2>1. LocalsOK(c)'
    <3>1. handler[c].seq <= doc
      BY DEF LInv, LocalsOK
    <3> QED  BY <1>1, <1>2, <1>4, <3>1 DEF LocalsOK
  <2>2. ASSUME NEW x \in Conns \ {c} PROVE LocalsOK(x)'
    <3>1. handler'[x] = handler[x] /\ doc' = doc /\ Truthful(handler[x].snap)'
      BY <1>2, <1>4
    <3>2. LocalsOK(x)
      BY DEF LInv
    <3> QED  BY <3>1, <3>2 DEF LocalsOK
  <2>3. \A x \in Conns : PeerOK(x)'
    BY <1>2, <1>4 DEF LInv, PeerOK
  <2> QED  BY <2>1, <2>2, <2>3
<1>6. ClientsOK'
  <2>1. ASSUME NEW x \in Conns PROVE x \in Members' <=> InRoom(x)'
    <3>1. x \in Members <=> InRoom(x)
      BY DEF LInv, ClientsOK
    <3>2. CASE x = c
      BY <1>1, <1>2, <3>2 DEF InRoom
    <3>3. CASE x # c
      BY <1>2, <3>1, <3>3 DEF InRoom
    <3> QED  BY <3>2, <3>3
  <2> QED  BY <2>1 DEF ClientsOK
<1>7. RoomOK'
  BY <1>1, <1>2, BusyHasRoom, BusyKeepsRoom DEF Busy
<1>8. TextTold'
  <2> SUFFICES ASSUME NEW x \in Conns, x \in Members', sock'[x] = "open",
                      handler'[x].pc # "remove"
               PROVE  page'[x].best = doc' \/ \E d \in Conns : WillTellText(d, x)'
    BY <1>3 DEF TextTold, LocalTypeOK, Members
  <2>1. CASE x = c
    <3>1. WillTellText(c, x)'
      BY <1>1, <1>2, <2>1 DEF WillTellText
    <3> QED  BY <3>1
  <2>2. CASE x # c
    <3>1. page[x].best = doc \/ \E d \in Conns \ {c} : WillTellText(d, x)
      BY <1>2, <2>2, Silent DEF LInv, TextTold
    <3>2. \A d \in Conns \ {c} : WillTellText(d, x) => WillTellText(d, x)'
      BY <1>2 DEF WillTellText
    <3> QED  BY <3>1, <3>2
  <2> QED  BY <2>1, <2>2
<1>9. PresenceOnItsWay'
  BY <1>1, <1>2 DEF PresenceOnItsWay, WillTellPresence
<1> QED  BY <1>3, <1>5, <1>6, <1>7, <1>8, <1>9 DEF LInv

LEMMA RegisterInv == ASSUME LInv, NEW c \in Conns, Register(c) PROVE LInv'
<1> USE DEF Register
<1>1. /\ clients' \in Seq(Conns) /\ Len(clients') = Len(clients) + 1
      /\ Len(clients) \in Nat /\ clients'[Len(clients) + 1] = c
      /\ \A i \in 1 .. Len(clients) : clients'[i] = clients[i]
  BY Types
<1>2. c \notin Members
  BY DEF LInv, ClientsOK, InRoom
<1>3. Members' = Members \cup {c}
  <2>1. 1 .. Len(clients') = 1 .. Len(clients) \cup {Len(clients) + 1}
    BY <1>1
  <2> QED  BY <1>1, <2>1 DEF Members
<1>4. \A i, j \in 1 .. Len(clients') : clients'[i] = clients'[j] => i = j
  <2>1. \A i \in 1 .. Len(clients) : clients[i] # c
    BY <1>2 DEF Members
  <2> QED  BY <1>1, <2>1 DEF LInv, ClientsOK
<1>5. /\ sock' \in [Conns -> {"none", "open", "stalled", "broken"}]
      /\ sock'[c] = "open" /\ \A x \in Conns \ {c} : sock'[x] = sock[x]
  BY DEF LInv, LocalTypeOK
<1> QED  BY <1>1, <1>3, <1>4, <1>5, NewListInv

\* A list without its i-th entry.
LEMMA WithoutOne ==
  ASSUME NEW s \in Seq(Conns), NEW i \in 1 .. Len(s),
         \A j, k \in 1 .. Len(s) : s[j] = s[k] => j = k
  PROVE  LET t == SubSeq(s, 1, i - 1) \o SubSeq(s, i + 1, Len(s))
         IN  /\ t \in Seq(Conns) /\ In(t) = In(s) \ {s[i]}
             /\ \A j, k \in 1 .. Len(t) : t[j] = t[k] => j = k
<1> DEFINE a == SubSeq(s, 1, i - 1)
           b == SubSeq(s, i + 1, Len(s))
           t == a \o b
<1>1. /\ Len(s) \in Nat /\ i \in Int /\ 1 <= i /\ i <= Len(s)
  OBVIOUS
<1>2. /\ a \in Seq(Conns) /\ Len(a) = i - 1
      /\ \A j \in 1 .. i - 1 : a[j] = s[j]
  BY <1>1
<1>3. /\ b \in Seq(Conns) /\ Len(b) = Len(s) - i
      /\ \A j \in 1 .. Len(s) - i : b[j] = s[j + i]
  BY <1>1
<1> HIDE DEF a, b
<1>4. /\ t \in Seq(Conns) /\ Len(t) = Len(s) - 1
      /\ \A j \in 1 .. Len(t) : t[j] = IF j < i THEN s[j] ELSE s[j + 1]
  <2>2. /\ t \in Seq(Conns) /\ Len(t) = Len(s) - 1
        /\ \A j \in 1 .. Len(a) + Len(b) : t[j] = IF j <= Len(a) THEN a[j] ELSE b[j - Len(a)]
    BY <1>1, <1>2, <1>3, ConcatProperties
  <2>3. ASSUME NEW j \in 1 .. Len(t) PROVE t[j] = IF j < i THEN s[j] ELSE s[j + 1]
    <3>1. CASE j < i
      BY <1>1, <1>2, <1>3, <2>2, <3>1
    <3>2. CASE ~(j < i)
      <4>1. t[j] = b[j - (i - 1)]
        BY <1>1, <1>2, <1>3, <2>2, <3>2
      <4>2. j - (i - 1) \in 1 .. Len(s) - i
        BY <1>1, <2>2, <3>2
      <4>3. b[j - (i - 1)] = s[(j - (i - 1)) + i]
        BY <1>3, <4>2
      <4>4. (j - (i - 1)) + i = j + 1
        BY <1>1, <2>2
      <4> QED  BY <3>2, <4>1, <4>3, <4>4
    <3> QED  BY <3>1, <3>2
  <2> QED  BY <2>2, <2>3
<1> HIDE DEF t
<1>5. In(t) = In(s) \ {s[i]}
  <2>1. ASSUME NEW j \in 1 .. Len(t) PROVE t[j] \in In(s) \ {s[i]}
    BY <1>1, <1>4 DEF In
  <2>2. ASSUME NEW j \in 1 .. Len(s), s[j] # s[i] PROVE s[j] \in In(t)
    <3>1. CASE j < i
      <4>1. j \in 1 .. Len(t) /\ t[j] = s[j]
        BY <1>1, <1>4, <3>1
      <4> QED  BY <4>1 DEF In
    <3>2. CASE ~(j < i)
      <4>1. j - 1 \in 1 .. Len(t) /\ ~(j - 1 < i) /\ (j - 1) + 1 = j
        BY <1>1, <1>4, <2>2, <3>2
      <4>2. t[j - 1] = s[j]
        BY <1>4, <4>1
      <4> QED  BY <4>1, <4>2 DEF In
    <3> QED  BY <3>1, <3>2
  <2> QED  BY <2>1, <2>2 DEF In
<1>6. \A j, k \in 1 .. Len(t) : t[j] = t[k] => j = k
  BY <1>1, <1>4
<1> QED  BY <1>4, <1>5, <1>6 DEF a, b, t

LEMMA RemoveClientInv == ASSUME LInv, NEW c \in Conns, RemoveClient(c) PROVE LInv'
<1>1. PICK i \in 1 .. Len(clients) :
        /\ clients[i] = c
        /\ clients' = SubSeq(clients, 1, i - 1) \o SubSeq(clients, i + 1, Len(clients))
  BY DEF RemoveClient
<1>2. /\ clients' \in Seq(Conns) /\ Members' = Members \ {c}
      /\ \A j, k \in 1 .. Len(clients') : clients'[j] = clients'[k] => j = k
  <2>1. Members = In(clients) /\ Members' = In(clients')
    BY DEF Members, In
  <2>2. \A j, k \in 1 .. Len(clients) : clients[j] = clients[k] => j = k
    BY DEF LInv, ClientsOK
  <2> QED  BY <1>1, <2>1, <2>2, WithoutOne, Types
<1>3. /\ handler[c].pc = "remove" /\ revision' = revision + 1
      /\ handler' = [handler EXCEPT ![c].pc = "announce", ![c].task = "leave"]
      /\ UNCHANGED <<table, doc, sock, told, page, edits>>
  BY DEF RemoveClient
<1>4. /\ sock' \in [Conns -> {"none", "open", "stalled", "broken"}]
      /\ sock'[c] # "none"
  BY <1>3 DEF LInv, LocalTypeOK, PeerOK
<1> QED  BY <1>2, <1>3, <1>4, NewListInv

\* An accepted edit is its sender's to tell; a refused one is no new text.
LEMMA EditInv == ASSUME LInv, NEW c \in Conns, Edit(c) PROVE LInv'
<1>1. PICK accepted \in BOOLEAN, seq \in Nat :
        /\ seq = IF accepted THEN doc + 1 ELSE doc
        /\ doc' = seq
        /\ handler' = [handler EXCEPT ![c].seq = seq, ![c].task = "edit",
                         ![c].accepted = accepted, ![c].pc = "acknowledge"]
  <2>1. PICK base \in 0 .. MaxEdits :
          LET a == base = doc \/ Policy = "accept"
              s == IF a THEN doc + 1 ELSE doc
          IN  /\ doc' = s
              /\ handler' = [handler EXCEPT ![c].seq = s, ![c].task = "edit",
                               ![c].accepted = a, ![c].pc = "acknowledge"]
    BY DEF Edit
  <2> DEFINE a == base = doc \/ Policy = "accept"
             s == IF a THEN doc + 1 ELSE doc
  <2>2. a \in BOOLEAN /\ s \in Nat
    BY Types
  <2> QED  BY <2>1, <2>2
<1>2. /\ handler[c].pc = "live" /\ edits' = edits + 1
      /\ UNCHANGED <<table, clients, revision, sock, told, page>>
  BY DEF Edit
<1> DEFINE k == [handler[c] EXCEPT !.seq = seq, !.task = "edit",
                                   !.accepted = accepted, !.pc = "acknowledge"]
<1>3. /\ k \in HandlerType /\ k.pc = "acknowledge" /\ k.task = "edit"
      /\ k.seq = seq /\ k.accepted = accepted /\ k.snap = handler[c].snap
      /\ handler' = [handler EXCEPT ![c] = k]
  BY <1>1, Types DEF HandlerType, Pcs
<1> HIDE DEF k
<1>4. /\ handler'[c] = k /\ \A d \in Conns \ {c} : handler'[d] = handler[d]
      /\ Members' = Members /\ doc' \in Nat /\ doc <= doc'
  <2>1. doc' \in Nat /\ doc <= doc'
    BY <1>1, Types
  <2> QED  BY <1>2, <1>3, <2>1, Types DEF Members
<1>5. LocalTypeOK'
  BY <1>2, <1>3, <1>4 DEF LInv, LocalTypeOK, HandlerType
<1>6. \A x \in Conns : LocalsOK(x)'
  <2>1. \A x \in Conns : handler'[x].snap = handler[x].snap /\ handler'[x].seq <= doc'
    BY <1>1, <1>3, <1>4, Types DEF LInv, LocalsOK
  <2>2. \A x \in Conns : Truthful(handler[x].snap)'
    BY <1>2, <1>4, <2>1 DEF LInv, LocalsOK, Truthful
  <2> QED  BY <1>3, <1>4, <2>1, <2>2 DEF LInv, LocalsOK
<1>7. \A x \in Conns : PeerOK(x)'
  BY <1>2, <1>3, <1>4, Types DEF LInv, PeerOK, Truthful
<1>8. ClientsOK'
  BY <1>2, <1>3, <1>4 DEF LInv, ClientsOK, InRoom
<1>9. RoomOK'
  BY <1>2, <1>3, <1>4, BusyHasRoom, BusyKeepsRoom DEF Busy
<1>10. TextTold'
  <2> SUFFICES ASSUME NEW x \in Conns, x \in Members, sock[x] = "open",
                      handler'[x].pc # "remove"
               PROVE  page'[x].best = doc' \/ \E d \in Conns : WillTellText(d, x)'
    BY <1>2, <1>4, Types DEF TextTold
  <2>1. CASE accepted
    <3>1. WillTellText(c, x)'
      BY <1>1, <1>3, <1>4, <2>1 DEF WillTellText
    <3> QED  BY <3>1
  <2>2. CASE ~accepted
    <3>1. page[x].best = doc \/ \E d \in Conns \ {c} : WillTellText(d, x)
      BY <1>2, <1>4, Silent DEF LInv, TextTold
    <3>2. \A d \in Conns \ {c} : WillTellText(d, x) => WillTellText(d, x)'
      BY <1>1, <1>4, <2>2 DEF WillTellText
    <3> QED  BY <1>1, <1>2, <2>2, <3>1, <3>2
  <2> QED  BY <2>1, <2>2
<1>11. PresenceOnItsWay'
  <2> SUFFICES ASSUME NEW x \in Conns, x \in Members, sock[x] = "open"
               PROVE  \/ told[x] = [revision |-> revision, members |-> Members]
                      \/ \E d \in Conns : WillTellPresence(d, x)'
    BY <1>2, <1>4, Types DEF PresenceOnItsWay
  <2>1. \/ told[x] = [revision |-> revision, members |-> Members]
        \/ \E d \in Conns \ {c} : WillTellPresence(d, x)
    BY <1>2, Silent DEF LInv, PresenceOnItsWay
  <2>2. \A d \in Conns \ {c} : WillTellPresence(d, x) => WillTellPresence(d, x)'
    BY <1>2, <1>4 DEF WillTellPresence
  <2> QED  BY <2>1, <2>2
<1> QED  BY <1>5, <1>6, <1>7, <1>8, <1>9, <1>10, <1>11 DEF LInv

-----------------------------------------------------------------------------
LEMMA NextLInv == LInv /\ [Next]_vars => LInv'
<1> SUFFICES ASSUME LInv, [Next]_vars PROVE LInv'
  OBVIOUS
<1>1. CASE CreateRoom
  BY <1>1, CreateRoomInv
<1>2. ASSUME NEW c \in Conns, GetRoom(c) \/ Edit(c) \/ Leave(c) PROVE LInv'
  BY <1>2, GetRoomInv, EditInv, LeaveInv
<1>3. ASSUME NEW c \in Conns, Serve(c) PROVE LInv'
  <2>1. CASE Register(c) \/ ReadState(c) \/ WriteState(c) \/ RemoveClient(c)
    BY <2>1, RegisterInv, ReadStateInv, WriteStateInv, RemoveClientInv
  <2>2. CASE Count(c) \/ DeleteRoom(c) \/ CloseConn(c) \/ Acknowledge(c) \/ Resync(c)
    BY <2>2, CountInv, DeleteRoomInv, CloseConnInv, AcknowledgeInv, ResyncInv
  <2>3. CASE TakePresence(c) \/ TakeClients(c) \/ TellNext(c)
    BY <2>3, TakePresenceInv, TakeClientsInv, TellNextInv
  <2> QED  BY <1>3, <2>1, <2>2, <2>3 DEF Serve
<1>4. ASSUME NEW c \in Conns, Reset(c) \/ Stall(c) PROVE LInv'
  BY <1>4, ResetInv, StallInv
<1>5. CASE UNCHANGED vars
  <2> USE <1>5 DEF vars
  <2>1. LocalTypeOK' /\ ClientsOK' /\ RoomOK'
    BY DEF LInv, LocalTypeOK, ClientsOK, InRoom, Members, RoomOK, Busy
  <2>2. \A x \in Conns : LocalsOK(x)' /\ PeerOK(x)'
    BY DEF LInv, LocalsOK, PeerOK, Truthful, Members
  <2>3. Members' = Members /\ Members \subseteq Conns
    BY DEF LInv, LocalTypeOK, Members
  <2>4. TextTold'
    <3>1. \A x, d \in Conns : WillTellText(d, x)' <=> WillTellText(d, x)
      BY DEF WillTellText
    <3> QED  BY <2>3, <3>1 DEF LInv, TextTold
  <2>5. PresenceOnItsWay'
    <3>1. \A x, d \in Conns : WillTellPresence(d, x)' <=> WillTellPresence(d, x)
      BY DEF WillTellPresence
    <3> QED  BY <2>3, <3>1 DEF LInv, PresenceOnItsWay
  <2> QED  BY <2>1, <2>2, <2>4, <2>5 DEF LInv
<1> QED  BY <1>1, <1>2, <1>3, <1>4, <1>5 DEF Next

(* A connection is in the list of clients exactly between AddClient and    *)
(* RemoveClient, a presence list with the current revision names the       *)
(* clients of this moment, and no goroutine holds a text or a list from    *)
(* the future, whatever order the handlers of room.go and ws.go run in.    *)
THEOREM LocalInvariant == Spec => []LInv
<1>1. Init => LInv
  BY InitLInv
<1>2. LInv /\ [Next]_vars => LInv'
  BY NextLInv
<1> QED  BY <1>1, <1>2, PTL DEF Spec

(* The Room and the locals of serveWS keep their types.                    *)
THEOREM LocalTypeCorrect == Spec => []LocalTypeOK
<1>1. LInv => LocalTypeOK
  BY DEF LInv
<1> QED  BY <1>1, LocalInvariant, PTL

(* Nobody in the room misses a text: handleContentUpdate broadcasts what   *)
(* it accepted outside the lock, to a copy of the clients, and whoever is  *)
(* added too late for that copy reads its room_state later still.  A page  *)
(* without the newest text is yet to be written it, or has shown it and    *)
(* was taken back by a room_state.                                         *)
THEOREM TextIsOnItsWay == Spec => []TextOnItsWay
<1>1. ASSUME LInv PROVE TextOnItsWay
  <2>1. \A c \in Conns : page[c].best = doc => page[c].text = doc \/ TakenBack(c)
    BY <1>1, Types DEF LInv, PeerOK, TakenBack
  <2>2. TextTold /\ Members \subseteq Conns
    BY <1>1 DEF LInv, LocalTypeOK, Members
  <2> QED  BY <2>1, <2>2 DEF TextTold, TextOnItsWay
<1> QED  BY <1>1, LocalInvariant, PTL

(* Nobody in the room is left with an old list of who is there, although   *)
(* broadcastPresenceSnapshot takes the snapshot and the clients in two     *)
(* steps and writePresence drops what is not newer than the last list.     *)
THEOREM PresenceIsOnItsWay == Spec => []PresenceOnItsWay
<1>1. LInv => PresenceOnItsWay
  BY DEF LInv
<1> QED  BY <1>1, LocalInvariant, PTL

(* The last connection to leave deletes the room: ClientCount comes after  *)
(* RemoveClient, so somebody finds that nobody is left.                    *)
THEOREM RoomsAreForgotten == Spec => []NoRoomLeaks
<1>1. LInv => NoRoomLeaks
  BY DEF LInv, RoomOK, NoRoomLeaks, Busy
<1> QED  BY <1>1, LocalInvariant, PTL
=============================================================================
