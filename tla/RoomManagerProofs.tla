-------------------------- MODULE RoomManagerProofs --------------------------
(***************************************************************************)
(* One Room for each id and backend, for any number of requests and ids    *)
(* and whatever fails, as long as generateRoomID repeats no id.            *)
(*                                                                         *)
(* IdInv is about the three maps, CallInv about what a request in progress *)
(* knows of them: while m.mu is held by CreateRoom, nobody can put another *)
(* object where the new one goes, because the id was issued to it alone    *)
(* and Install needs m.mu.                                                 *)
(***************************************************************************)
EXTENDS RoomManager, TLAPS

IdInv(i) ==
  /\ rooms[i] # Nobody \/ i \in stored => i \in issued
  /\ watchers[i] # Nobody => watchers[i] = rooms[i]
  /\ presenceWatchers[i] # Nobody => presenceWatchers[i] = rooms[i]

CallInv(c) ==
  LET k == call[c]
  IN  /\ k.pc \in {"store", "publish"} => rooms[k.id] = Nobody
      /\ k.pc \in InCreate => k.room = c /\ k.id \in issued
      /\ k.pc = "watchNew" => rooms[k.id] = c
      /\ k.pc = "install" => k.id \in issued
      /\ k.pc \in {"watch", "joining", "in"} => k.room # Nobody /\ rooms[k.id] = k.room
      /\ k.pc \in {"joining", "in"} => watchers[k.id] = k.room
      /\ k.pc = "in" => presenceWatchers[k.id] = k.room

ManagerInv ==
  /\ ManagerTypeOK
  /\ \A i \in Ids : IdInv(i)
  /\ \A c \in Callers : CallInv(c)

LEMMA InitManager == Init => ManagerInv
BY ManagerAssumption DEF Init, ManagerInv, ManagerTypeOK, IdInv, CallInv, InCreate, Pcs

-----------------------------------------------------------------------------
(* A step of c that leaves the maps alone, except that ids may be issued   *)
(* and stored, is no concern of the other requests.                        *)
LEMMA OthersKept ==
  ASSUME ManagerInv, ManagerTypeOK', NEW c \in Callers,
         \A d \in Callers : d # c => call'[d] = call[d],
         UNCHANGED <<rooms, watchers, presenceWatchers>>,
         issued \subseteq issued',
         \A i \in Ids : i \in stored' => i \in issued',
         CallInv(c)'
  PROVE  ManagerInv'
<1>1. \A i \in Ids : IdInv(i)'
  BY DEF ManagerInv, IdInv
<1>2. ASSUME NEW d \in Callers, d # c PROVE CallInv(d)'
  BY <1>2 DEF ManagerInv, CallInv
<1> QED  BY <1>1, <1>2 DEF ManagerInv

(* A request that goes on with a Room keeps the type of the locals.        *)
LEMMA HoldType ==
  ASSUME call \in [Callers -> [pc : Pcs, id : Ids, room : Callers \cup {Nobody}]],
         NEW c \in Callers, NEW pc \in Pcs, NEW room \in Callers \cup {Nobody},
         Hold(c, room, pc)
  PROVE  /\ call' \in [Callers -> [pc : Pcs, id : Ids, room : Callers \cup {Nobody}]]
         /\ call'[c].pc = pc
         /\ \A d \in Callers \ {c} : call'[d] = call[d]
<1> DEFINE k == [call[c] EXCEPT !.pc = pc, !.room = room]
<1>1. k \in [pc : Pcs, id : Ids, room : Callers \cup {Nobody}] /\ k.pc = pc
  OBVIOUS
<1>2. call' = [call EXCEPT ![c] = k]
  BY DEF Hold
<1> HIDE DEF k
<1> QED  BY <1>1, <1>2

LEMMA TypeStep ==
  ASSUME ManagerTypeOK, [Next]_vars
  PROVE  ManagerTypeOK'
<1> USE DEF ManagerTypeOK, At, Goto, Hold, InCreate, Pcs
<1>0. ASSUME NEW c \in Callers
      PROVE  /\ call[c] \in [pc : Pcs, id : Ids, room : Callers \cup {Nobody}]
             /\ call[c].id \in Ids /\ rooms[call[c].id] \in Callers \cup {Nobody}
  BY <1>0
<1>1. CASE UNCHANGED vars
  BY <1>1 DEF vars
<1>2. ASSUME NEW i \in Ids, CreateElsewhere(i) PROVE ManagerTypeOK'
  BY <1>2 DEF CreateElsewhere, Issue
<1>3. ASSUME NEW c \in Callers, BeginCreate(c) PROVE ManagerTypeOK'
  <2>1. /\ mutex = Nobody /\ mutex' = c /\ issued' \subseteq Ids
        /\ call' = [call EXCEPT ![c].pc = "store", ![c].room = c]
        /\ UNCHANGED <<rooms, watchers, presenceWatchers, stored>>
    BY <1>0, <1>3 DEF BeginCreate, Issue
  <2>2. /\ call' \in [Callers -> [pc : Pcs, id : Ids, room : Callers \cup {Nobody}]]
        /\ call'[c].pc = "store" /\ \A d \in Callers \ {c} : call'[d] = call[d]
    BY <2>1, HoldType
  <2>3. \A d \in Callers : mutex' = d <=> call'[d].pc \in InCreate
    BY <2>1, <2>2, ManagerAssumption
  <2> QED  BY <2>1, <2>2, <2>3
<1>4. ASSUME NEW c \in Callers, LookUp(c) PROVE ManagerTypeOK'
  <2>1. /\ UNCHANGED <<rooms, mutex, watchers, presenceWatchers, issued, stored>>
        /\ \E room \in Callers \cup {Nobody}, pc \in {"watch", "load"} :
             call' = [call EXCEPT ![c].pc = pc, ![c].room = room]
        /\ call[c].pc = "idle"
    BY <1>0, <1>4 DEF LookUp
  <2>2. /\ call' \in [Callers -> [pc : Pcs, id : Ids, room : Callers \cup {Nobody}]]
        /\ call'[c].pc \in {"watch", "load"}
        /\ \A d \in Callers \ {c} : call'[d] = call[d]
    BY ZenonT(40), <2>1, HoldType
  <2> QED  BY <1>0, <2>1, <2>2
<1>5. ASSUME NEW c \in Callers, Leave(c) \/ Silence(c) PROVE ManagerTypeOK'
  <2>1. CASE Leave(c)
    BY <2>1 DEF Leave
  <2>2. CASE At(c, "store") /\ Silence(c)
    BY SMTT(30), <1>0, <2>2 DEF Silence
  <2>3. CASE ~At(c, "store") /\ Silence(c)
    <3>1. UNCHANGED <<rooms, mutex, watchers, presenceWatchers, issued, stored>>
      BY <2>3 DEF Silence
    <3>2. call' = [call EXCEPT ![c].pc = "waiting"] /\ call[c].pc \notin InCreate
      BY <2>3 DEF Silence
    <3>3. /\ call' \in [Callers -> [pc : Pcs, id : Ids, room : Callers \cup {Nobody}]]
          /\ call'[c].pc = "waiting" /\ \A d \in Callers \ {c} : call'[d] = call[d]
      BY <3>2, <1>0
    <3>4. \A d \in Callers : mutex = d <=> call'[d].pc \in InCreate
      BY <3>2, <3>3
    <3> QED  BY <3>1, <3>3, <3>4
  <2> QED  BY <1>5, <2>1, <2>2, <2>3
<1>6. ASSUME NEW c \in Callers, Proceed(c) PROVE ManagerTypeOK'
  <2>1. CASE Store(c)
    BY <2>1 DEF Store
  <2>2. CASE StoreFails(c)
    BY <2>2 DEF StoreFails
  <2>3. CASE Fail(c)
    BY <2>3, ManagerAssumption DEF Fail
  <2>4. CASE Publish(c)
    BY <2>4 DEF Publish
  <2>5. CASE EndCreate(c)
    BY <2>5, ManagerAssumption DEF EndCreate, Watched
  <2>6. CASE Load(c)
    BY SMTT(30), <2>6 DEF Load
  <2>7. CASE Install(c)
    <3>1. /\ mutex = Nobody /\ UNCHANGED <<mutex, watchers, presenceWatchers, issued, stored>>
          /\ call[c].pc = "install" /\ rooms' \in [Ids -> Callers \cup {Nobody}]
          /\ call' = [call EXCEPT ![c].pc = "watch", ![c].room = rooms'[call[c].id]]
      BY <1>0, <2>7 DEF Install
    <3>2. rooms'[call[c].id] \in Callers \cup {Nobody}
      BY <1>0, <3>1
    <3>3. PICK room \in Callers \cup {Nobody} :
            call' = [call EXCEPT ![c].pc = "watch", ![c].room = room]
      BY <3>1, <3>2
    <3>4. /\ call' \in [Callers -> [pc : Pcs, id : Ids, room : Callers \cup {Nobody}]]
          /\ call'[c].pc = "watch" /\ \A d \in Callers \ {c} : call'[d] = call[d]
      BY <3>3, HoldType
    <3> QED  BY <1>0, <3>1, <3>4
  <2>8. CASE EndGet(c)
    <3>1. /\ UNCHANGED <<rooms, mutex, presenceWatchers, issued, stored>>
          /\ watchers' \in [Ids -> Callers \cup {Nobody}]
      BY <1>0, <2>8 DEF EndGet, Watched
    <3>2. PICK pc \in {"joining", "returned"} : call' = [call EXCEPT ![c].pc = pc]
      BY <2>8 DEF EndGet
    <3>3. call[c].pc = "watch"
      BY <2>8 DEF EndGet
    <3>4. /\ call' \in [Callers -> [pc : Pcs, id : Ids, room : Callers \cup {Nobody}]]
          /\ call'[c].pc = pc /\ \A d \in Callers \ {c} : call'[d] = call[d]
      BY <3>2, <1>0
    <3>5. \A d \in Callers : mutex = d <=> call'[d].pc \in InCreate
      BY <3>2, <3>3, <3>4
    <3> QED  BY <3>1, <3>4, <3>5
  <2>9. CASE Join(c)
    BY <2>9 DEF Join
  <2>10. CASE JoinFails(c) \/ DeleteRoom(c)
    BY SMTT(30), <2>10 DEF JoinFails, DeleteRoom
  <2> QED  BY <1>6, <2>1, <2>2, <2>3, <2>4, <2>5, <2>6, <2>7, <2>8, <2>9, <2>10 DEF Proceed
<1> QED  BY <1>1, <1>2, <1>3, <1>4, <1>5, <1>6 DEF Next

(* The steps after which the maps are what they were.                      *)
LEMMA QuietStep ==
  ASSUME ManagerInv, ManagerTypeOK', FreshIds, NEW c \in Callers,
         \/ BeginCreate(c) \/ Store(c) \/ StoreFails(c) \/ Fail(c)
         \/ LookUp(c) \/ Load(c) \/ JoinFails(c) \/ Leave(c) \/ DeleteRoom(c) \/ Silence(c)
  PROVE  ManagerInv'
<1> USE DEF At, Goto, Hold, InCreate
<1>1. /\ call \in [Callers -> [pc : Pcs, id : Ids, room : Callers \cup {Nobody}]]
      /\ CallInv(c) /\ \A i \in Ids : IdInv(i)
  BY DEF ManagerInv, ManagerTypeOK
<1>2. call[c].id \in Ids
  BY <1>1
<1>3. CASE BeginCreate(c)
  BY <1>1, <1>2, <1>3, OthersKept DEF BeginCreate, Issue, CallInv, IdInv
<1>4. CASE Store(c)
  BY <1>1, <1>2, <1>4, OthersKept DEF Store, CallInv, IdInv
<1>5. CASE StoreFails(c)
  BY <1>1, <1>2, <1>5, OthersKept DEF StoreFails, CallInv, IdInv
<1>6. CASE Fail(c)
  BY <1>1, <1>2, <1>6, OthersKept DEF Fail, CallInv, IdInv
<1>7. CASE LookUp(c)
  BY <1>1, <1>2, <1>7, OthersKept DEF LookUp, CallInv, IdInv
<1>8. CASE Load(c)
  BY <1>1, <1>2, <1>8, OthersKept DEF Load, CallInv, IdInv
<1>9. CASE JoinFails(c)
  BY <1>1, <1>2, <1>9, OthersKept DEF JoinFails, CallInv, IdInv
<1>10. CASE Leave(c) \/ DeleteRoom(c)
  BY <1>1, <1>2, <1>10, OthersKept DEF Leave, DeleteRoom, CallInv, IdInv
<1>11. CASE Silence(c)
  BY <1>1, <1>2, <1>11, OthersKept DEF Silence, CallInv, IdInv
<1> QED  BY <1>3, <1>4, <1>5, <1>6, <1>7, <1>8, <1>9, <1>10, <1>11

(* The steps that put an object into a map.                                *)
LEMMA MapStep ==
  ASSUME ManagerInv, ManagerTypeOK', NEW c \in Callers,
         Publish(c) \/ Install(c) \/ EndCreate(c) \/ EndGet(c) \/ Join(c)
  PROVE  ManagerInv'
<1> USE DEF At, Goto, Hold
<1>1. /\ call \in [Callers -> [pc : Pcs, id : Ids, room : Callers \cup {Nobody}]]
      /\ rooms \in [Ids -> Callers \cup {Nobody}]
      /\ watchers \in [Ids -> Callers \cup {Nobody}]
      /\ presenceWatchers \in [Ids -> Callers \cup {Nobody}]
      /\ \A d \in Callers : mutex = d <=> call[d].pc \in InCreate
      /\ \A d \in Callers : CallInv(d) /\ \A i \in Ids : IdInv(i)
      /\ Nobody \notin Callers /\ call[c].id \in Ids
  BY ManagerAssumption DEF ManagerInv, ManagerTypeOK
<1> SUFFICES (\A i \in Ids : IdInv(i)') /\ (\A d \in Callers : CallInv(d)')
  BY DEF ManagerInv
<1>2. CASE Publish(c)
  <2>1. \A d \in Callers \ {c} : call[d].pc \notin InCreate
    BY <1>1, <1>2 DEF Publish, InCreate
  <2>2. \A i \in Ids : IdInv(i)'
    BY <1>1, <1>2 DEF Publish, IdInv, CallInv, InCreate
  <2>3. \A d \in Callers : CallInv(d)'
    BY <1>1, <1>2, <2>1 DEF Publish, CallInv, InCreate
  <2> QED  BY <2>2, <2>3
<1>3. CASE Install(c)
  <2>1. \A d \in Callers : call[d].pc \notin InCreate
    BY <1>1, <1>3 DEF Install
  <2>2. \A i \in Ids : IdInv(i)'
    BY <1>1, <1>3 DEF Install, IdInv, CallInv
  <2>3. \A d \in Callers : CallInv(d)'
    BY <1>1, <1>3, <2>1 DEF Install, CallInv, InCreate
  <2> QED  BY <2>2, <2>3
<1>4. CASE EndCreate(c)
  <2>1. \A i \in Ids : IdInv(i)'
    BY <1>1, <1>4 DEF EndCreate, Watched, IdInv, CallInv, InCreate
  <2>2. \A d \in Callers : CallInv(d)'
    BY <1>1, <1>4 DEF EndCreate, Watched, IdInv, CallInv, InCreate
  <2> QED  BY <2>1, <2>2
<1>5. CASE EndGet(c)
  <2>1. \A i \in Ids : IdInv(i)'
    BY <1>1, <1>5 DEF EndGet, Watched, IdInv, CallInv
  <2>2. \A d \in Callers : CallInv(d)'
    BY <1>1, <1>5 DEF EndGet, Watched, IdInv, CallInv, InCreate
  <2> QED  BY <2>1, <2>2
<1>6. CASE Join(c)
  <2>1. \A i \in Ids : IdInv(i)'
    BY <1>1, <1>6 DEF Join, IdInv, CallInv
  <2>2. \A d \in Callers : CallInv(d)'
    BY <1>1, <1>6 DEF Join, IdInv, CallInv, InCreate
  <2> QED  BY <2>1, <2>2
<1> QED  BY <1>2, <1>3, <1>4, <1>5, <1>6

LEMMA NextManager ==
  ASSUME ManagerInv, FreshIds, [Next]_vars
  PROVE  ManagerInv'
<1>1. ManagerTypeOK'
  BY TypeStep DEF ManagerInv
<1>2. CASE UNCHANGED vars
  BY <1>2 DEF vars, ManagerInv, ManagerTypeOK, IdInv, CallInv
<1>3. ASSUME NEW i \in Ids, CreateElsewhere(i) PROVE ManagerInv'
  BY <1>1, <1>3 DEF CreateElsewhere, Issue, ManagerInv, IdInv, CallInv
<1>4. ASSUME NEW c \in Callers,
             BeginCreate(c) \/ LookUp(c) \/ Leave(c) \/ Silence(c) \/ Proceed(c)
      PROVE  ManagerInv'
  BY <1>1, <1>4, QuietStep, MapStep DEF Proceed
<1> QED  BY <1>2, <1>3, <1>4 DEF Next

-----------------------------------------------------------------------------
\* The theorems

(* The maps hold Room objects, and m.mu is held by a request exactly while *)
(* it is in CreateRoom, whether or not ids recur.                          *)
THEOREM ManagerTypeCorrect == Spec => []ManagerTypeOK
<1>1. Init => ManagerTypeOK
  BY InitManager DEF ManagerInv
<1> QED  BY <1>1, TypeStep, PTL DEF Spec

(* What the requests in progress know of the maps is inductive.            *)
THEOREM ManagerInvariant == ASSUME FreshIds PROVE Spec => []ManagerInv
<1>1. ManagerInv /\ [Next]_vars => ManagerInv'
  BY NextManager
<1> QED  BY InitManager, <1>1, PTL DEF Spec

(* A backend forwards events to its locally connected clients              *)
(* (README.md:46), for any requests that race for a room: whoever is in it *)
(* is in the Room that its watchers feed.                                  *)
THEOREM ClientsAreFed == ASSUME FreshIds PROVE Spec => []InTheRoomThatIsFed
<1>1. ManagerInv => InTheRoomThatIsFed
  BY DEF ManagerInv, CallInv, InTheRoomThatIsFed, At
<1> QED  BY <1>1, ManagerInvariant, PTL

(* The Room that is watched is the one the next request gets, for any      *)
(* requests and whatever fails (manager.go:96-110).                        *)
THEOREM WatchedIsListed == ASSUME FreshIds PROVE Spec => []WatchedRoomIsListed
<1>1. ManagerInv => WatchedRoomIsListed
  BY DEF ManagerInv, IdInv, WatchedRoomIsListed
<1> QED  BY <1>1, ManagerInvariant, PTL
=============================================================================
