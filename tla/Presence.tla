------------------------------ MODULE Presence ------------------------------
(***************************************************************************)
(* Who is in a room, over Redis: the part of serveWS (backend/ws.go) that  *)
(* joins and leaves, the heartbeat of each connection and the sweeper of   *)
(* each backend (backend/presence_lease.go), the presence watcher and the  *)
(* guarded socket write (backend/presence.go), and the reducer of the      *)
(* browser (frontend/src/presence.ts).                                     *)
(*                                                                         *)
(* Every script, critical section and socket write is a step of its own.   *)
(* A page reconnects with a new connection.  A backend that restarts is    *)
(* another backend.  What serveWS does between joining and its first       *)
(* presence snapshot (Delivery has it) is part of GetInitialPresence.      *)
(***************************************************************************)
EXTENDS PresenceStore, FiniteSets, Integers

CONSTANTS
  Backends,     \* backend processes
  Pages,        \* mounted editor pages
  PageOf,       \* the page that opens each connection
  Leavers,      \* the connections whose peer leaves or goes silent
  ReadCount,    \* XREAD COUNT of the watcher (100 in the code)
  MaxCrashes,   \* bound: backend crashes
  MaxFaults,    \* bound: Redis commands that fail
  Faults        \* whether leases run out, and peers go silent, in the run

ASSUME PresenceAssumption ==
  /\ IsFiniteSet(Conns) /\ "none" \notin Backends
  /\ PageOf \in [Conns -> Pages] /\ Leavers \subseteq Conns /\ ReadCount \in Nat \ {0}
  /\ MaxCrashes \in Nat /\ MaxFaults \in Nat
  /\ Faults \subseteq {"lapse", "vanish", "stall"}

VARIABLES
  down,         \* backends that have crashed
  clients,      \* per backend: the Clients of its Room
  watch,        \* per backend: the watchPresence goroutine
  conn,         \* per connection: serveWS and the Client struct
  due,          \* per connection: its heartbeat has a renewal to send
  screen,       \* per page: the PresenceState it shows
  faults        \* Redis commands that failed so far

processVars == <<down, clients, watch, conn, due, screen, faults>>
vars == <<registry, past, down, clients, watch, conn, due, screen, faults>>

NoPresence == [revision |-> 0, members |-> {}]
NoWatch == [pc |-> "off", cursor |-> 0, next |-> 0, snap |-> NoPresence, left |-> {}]
NoConn  == [pc |-> "new", home |-> "none", sock |-> "none", told |-> -1,
            snap |-> NoPresence, ticket |-> 0]

Init ==
  /\ StoreInit
  /\ down = {}
  /\ clients = [b \in Backends |-> {}]
  /\ watch = [b \in Backends |-> NoWatch]
  /\ conn = [c \in Conns |-> NoConn]
  /\ due = [c \in Conns |-> FALSE]
  /\ screen = [p \in Pages |-> [revision |-> -1, members |-> {}]]
  /\ faults = 0

Home(c) == conn[c].home
Goto(c, pc) == conn' = [conn EXCEPT ![c].pc = pc]

(* What is left of a connection that has ended: its place in the copies    *)
(* that were made of the room's clients.                                   *)
Ended(c) == [NoConn EXCEPT !.pc = "closed", !.sock = "closed",
                           !.ticket = conn[c].ticket]

(* A Redis command of a connection or a watcher fails: its script never    *)
(* ran, or it ran and the reply was lost.                                  *)
Fails(script) ==
  /\ faults < MaxFaults
  /\ faults' = faults + 1
  /\ script \/ UNCHANGED storeVars

-----------------------------------------------------------------------------
\* serveWS

(* A page connects to some backend once its previous socket has closed;    *)
(* the connection is upgraded and added to the room; its ticket is its     *)
(* place among the clients, which are in the order they were added.        *)
Connect(c, b) ==
  LET others == {d \in Conns \ {c} : PageOf[d] = PageOf[c]}
      added  == {d \in Conns : conn[d].ticket > 0}
  IN  /\ conn[c].pc = "new" /\ b \notin down
      /\ \A d \in others : conn[d].sock # "open"
      /\ conn' = [conn EXCEPT ![c] =
           [NoConn EXCEPT !.pc = "join", !.home = b, !.sock = "open",
                          !.ticket = Cardinality(added) + 1]]
      /\ clients' = [clients EXCEPT ![b] = @ \cup {c}]
      /\ UNCHANGED <<registry, past, down, watch, due, screen, faults>>

(* Once JoinPresence returns, ensurePresenceWatcher starts the watcher of  *)
(* the room, one per backend, and startPresenceHeartbeat the heartbeat.    *)
JoinPresence(c) ==
  LET b == Home(c)
  IN  /\ conn[c].pc = "join"
      /\ JoinScript(c)
      /\ watch' = IF watch[b].pc # "off" THEN watch
                  ELSE [watch EXCEPT ![b].pc = "read"]
      /\ Goto(c, "setUp")
      /\ UNCHANGED <<down, clients, due, screen, faults>>

(* resumeClient or the room_state of a fresh connection, which write to    *)
(* the socket, then GetPresence.                                           *)
GetInitialPresence(c) ==
  /\ conn[c].pc = "setUp" /\ conn[c].sock \in {"open", "gone"}
  /\ PruneScript
  /\ conn' = [conn EXCEPT ![c] = [@ EXCEPT !.pc = "announce",
                                           !.snap = CurrentPresence']]
  /\ UNCHANGED <<down, clients, watch, due, screen, faults>>

(* writePresence drops a snapshot at or before the last one written.       *)
Fresh(c, snap) == snap.revision > conn[c].told

(* Its write, in the same critical section of writeMu, has an error on a   *)
(* closed socket, and does not return on one whose peer stopped reading.   *)
Told(c, snap) ==
  IF Fresh(c, snap) /\ conn[c].sock # "closed" THEN snap.revision ELSE conn[c].told
Blocked(c, snap) == Fresh(c, snap) /\ conn[c].sock = "stalled"

(* applyPresenceMessage of the page that reads it: a socket keeps order,   *)
(* so the frame is read when it is written.  Only a newer revision         *)
(* replaces what the page shows.                                           *)
Shown(c, snap) ==
  LET p == PageOf[c]
  IN  IF Fresh(c, snap) /\ conn[c].sock = "open" /\ snap.revision > screen[p].revision
      THEN [screen EXCEPT ![p] = snap] ELSE screen

(* The initial snapshot is written; the read loop begins.                  *)
Announce(c) ==
  LET snap == conn[c].snap
      fails == Fresh(c, snap) /\ conn[c].sock = "closed"
  IN  /\ conn[c].pc = "announce" /\ ~Blocked(c, snap)
      /\ screen' = Shown(c, snap)
      /\ conn' = [conn EXCEPT ![c] =
           [@ EXCEPT !.pc = IF fails THEN "stop" ELSE "live",
                     !.snap = NoPresence, !.told = Told(c, snap)]]
      /\ UNCHANGED <<registry, past, down, clients, watch, due, faults>>

(* JoinPresence, the resume or GetPresence returns an error.               *)
Refused(c) ==
  /\ \/ conn[c].pc = "join" /\ Fails(JoinScript(c)) /\ Goto(c, "unjoined")
     \/ conn[c].pc = "setUp" /\ Fails(PruneScript) /\ Goto(c, "refuse")
  /\ UNCHANGED <<down, clients, watch, due, screen>>

(* The error frame is written and serveWS returns.                         *)
Refuse(c) ==
  /\ conn[c].pc \in {"unjoined", "refuse"} /\ conn[c].sock # "stalled"
  /\ Goto(c, "stop")
  /\ UNCHANGED <<registry, past, down, clients, watch, due, screen, faults>>

(* A write before the read loop, or ReadMessage in it, returns an error.   *)
ConnFails(c) ==
  /\ conn[c].pc \in {"setUp", "live"} /\ conn[c].sock = "closed"
  /\ Goto(c, "stop")
  /\ UNCHANGED <<registry, past, down, clients, watch, due, screen, faults>>

(* The deferred cleanup: stop the heartbeat and RemoveClient, then         *)
(* LeavePresence and close the socket.                                     *)
RemoveClient(c) ==
  /\ conn[c].pc = "stop"
  /\ clients' = [clients EXCEPT ![Home(c)] = @ \ {c}]
  /\ Goto(c, "leave")
  /\ UNCHANGED <<registry, past, down, watch, due, screen, faults>>

LeavePresence(c) ==
  /\ conn[c].pc = "leave"
  /\ (LeaveScript(c) /\ UNCHANGED faults) \/ Fails(LeaveScript(c))
  /\ conn' = [conn EXCEPT ![c] = Ended(c)]
  /\ UNCHANGED <<down, clients, watch, due, screen>>

Leaving == {"leave", "closed"}

-----------------------------------------------------------------------------
\* The heartbeat of a connection

(* noteActivity: the reader took a pong or a frame, and the goroutine will *)
(* renew, unless it did so lately: what is left of the lease stands for    *)
(* the time since.                                                         *)
NoteActivity(c) ==
  /\ conn[c].pc = "live" /\ conn[c].sock = "open"
  /\ registry.lease[c] < Lease
  /\ due' = [due EXCEPT ![c] = TRUE]
  /\ UNCHANGED <<registry, past, down, clients, watch, conn, screen, faults>>

\* Faulty: only an error of Redis closes the socket.
RenewUnchecked(c) ==
  /\ due[c]
  /\ RenewScript(c)
  /\ due' = [due EXCEPT ![c] = FALSE]
  /\ UNCHANGED <<down, clients, watch, conn, screen, faults>>

Hangup(c) == conn' = [conn EXCEPT ![c].sock = "closed"]

(* The renewal is made, however late: the serveWS of the connection may    *)
(* have left meanwhile.  A refused one closes the socket.                  *)
RenewPresence(c) ==
  /\ due[c]
  /\ RenewScript(c)
  /\ due' = [due EXCEPT ![c] = FALSE]
  /\ IF Renews(c) THEN UNCHANGED conn ELSE Hangup(c)
  /\ UNCHANGED <<down, clients, watch, screen, faults>>

RenewalFails(c) ==
  /\ due[c]
  /\ Fails(RenewScript(c))
  /\ due' = [due EXCEPT ![c] = FALSE]
  /\ Hangup(c)
  /\ UNCHANGED <<down, clients, watch, screen>>

(* The goroutine is stopped, or a ping it cannot write ends it, before it  *)
(* takes the activity.                                                     *)
EndHeartbeat(c) ==
  /\ due[c]
  /\ conn[c].pc \in Leaving \/ conn[c].sock = "closed"
  /\ due' = [due EXCEPT ![c] = FALSE]
  /\ UNCHANGED <<registry, past, down, clients, watch, conn, screen, faults>>

(* The peer of an open socket leaves, or its pong is late; what it has not *)
(* read is lost.                                                           *)
Drop(c) ==
  /\ c \in Leavers /\ conn[c].sock = "open"
  /\ conn' = [conn EXCEPT ![c].sock = "closed"]
  /\ UNCHANGED <<registry, past, down, clients, watch, due, screen, faults>>

(* The peer is gone and no packet says so; later what is written to it is  *)
(* no longer taken.                                                        *)
Vanish(c) ==
  /\ c \in Leavers
  /\ \/ "vanish" \in Faults /\ conn[c].sock = "open"
          /\ conn' = [conn EXCEPT ![c].sock = "gone"]
     \/ "stall" \in Faults /\ conn[c].sock = "gone"
          /\ conn' = [conn EXCEPT ![c].sock = "stalled"]
  /\ UNCHANGED <<registry, past, down, clients, watch, due, screen, faults>>

(* No pong within the lease: the read deadline passes, a ping cannot be    *)
(* written, or the activity was noted a lease ago.                         *)
GiveUp(c) ==
  /\ conn[c].sock \in {"gone", "stalled"}
  /\ conn[c].pc \in {"setUp", "announce", "live", "refuse"}
  /\ Hangup(c)
  /\ UNCHANGED <<registry, past, down, clients, watch, due, screen, faults>>

-----------------------------------------------------------------------------
\* watchPresence, and the sweeper of a backend

Follow(b, w) == watch' = [watch EXCEPT ![b] = w]
Reread(w, cursor) == [NoWatch EXCEPT !.pc = "read", !.cursor = cursor]

\* Faulty: the notification is ticked off before the snapshot is loaded.
ReadChangesAhead(b) ==
  LET w == watch[b]
      next == IF w.cursor + ReadCount < registry.changes
              THEN w.cursor + ReadCount ELSE registry.changes
  IN  /\ w.pc = "read" /\ w.cursor < registry.changes
      /\ Follow(b, [w EXCEPT !.cursor = next, !.next = next, !.pc = "get"])
      /\ UNCHANGED <<registry, past, down, clients, conn, due, screen, faults>>

(* ReadPresenceChanges returns a batch; a timeout or an error of XREAD     *)
(* leaves the cursor where it is.                                          *)
ReadChanges(b) ==
  LET w == watch[b]
      next == IF w.cursor + ReadCount < registry.changes
              THEN w.cursor + ReadCount ELSE registry.changes
  IN  /\ w.pc = "read" /\ w.cursor < registry.changes
      /\ Follow(b, [w EXCEPT !.next = next, !.pc = "get"])
      /\ UNCHANGED <<registry, past, down, clients, conn, due, screen, faults>>

GetPresence(b) ==
  /\ watch[b].pc = "get"
  /\ PruneScript
  /\ Follow(b, [watch[b] EXCEPT !.pc = "copy", !.snap = CurrentPresence'])
  /\ UNCHANGED <<down, clients, conn, due, screen, faults>>

(* The old cursor is kept, so that the notification is read again.         *)
GetPresenceFails(b) ==
  /\ watch[b].pc = "get"
  /\ Fails(PruneScript)
  /\ Follow(b, Reread(watch[b], watch[b].cursor))
  /\ UNCHANGED <<down, clients, conn, due, screen>>

(* broadcastPresenceSnapshot starts with a copy of the room's clients.     *)
CopyClients(b) ==
  LET left == clients[b]
  IN  /\ watch[b].pc = "copy"
      /\ Follow(b, IF left = {} THEN Reread(watch[b], watch[b].next)
                   ELSE [watch[b] EXCEPT !.left = left, !.pc = "send"])
      /\ UNCHANGED <<registry, past, down, clients, conn, due, screen, faults>>

(* The clients are written to in the order they were added: one whose peer *)
(* stopped reading holds up those behind it.                               *)
SendPresence(b, c) ==
  LET w == watch[b]
      left == w.left \ {c}
  IN  /\ w.pc = "send" /\ c \in w.left
      /\ \A d \in w.left : conn[c].ticket <= conn[d].ticket
      /\ ~Blocked(c, w.snap)
      /\ screen' = Shown(c, w.snap)
      /\ conn' = [conn EXCEPT ![c].told = Told(c, w.snap)]
      /\ Follow(b, IF left = {} THEN Reread(w, w.next)
                   ELSE [w EXCEPT !.left = left])
      /\ UNCHANGED <<registry, past, down, clients, due, faults>>

\* Faulty: only the rooms that have clients on this backend are swept.
SweepOwnRooms(b) ==
  /\ b \notin down /\ registry.members # {} /\ clients[b] # {}
  /\ PruneScript
  /\ UNCHANGED processVars

(* sweepPresenceOnce finds the room by its hash, whoever created it, and   *)
(* prunes it.  One that fails is made again at the next tick.              *)
Sweep(b) ==
  /\ b \notin down /\ registry.members # {}
  /\ PruneScript
  /\ UNCHANGED processVars

-----------------------------------------------------------------------------
\* Crash of a backend

Crash(b) ==
  LET lost == {c \in Conns : Home(c) = b}
  IN  /\ b \notin down /\ Cardinality(down) < MaxCrashes
      /\ down' = down \cup {b}
      /\ clients' = [clients EXCEPT ![b] = {}]
      /\ watch' = [watch EXCEPT ![b] = NoWatch]
      /\ conn' = [c \in Conns |-> IF c \in lost
                    THEN Ended(c) ELSE conn[c]]
      /\ due' = [c \in Conns |-> c \notin lost /\ due[c]]
      /\ UNCHANGED <<registry, past, screen, faults>>

(* Time passes.                                                            *)
Elapse == "lapse" \in Faults /\ Tick /\ UNCHANGED processVars

Serve(c) ==
  \/ JoinPresence(c) \/ GetInitialPresence(c) \/ Announce(c) \/ Refused(c)
  \/ Refuse(c) \/ ConnFails(c) \/ RemoveClient(c) \/ LeavePresence(c)

Beat(c) == RenewPresence(c) \/ RenewalFails(c) \/ EndHeartbeat(c)

Watch(b) ==
  \/ ReadChanges(b) \/ GetPresence(b) \/ GetPresenceFails(b) \/ CopyClients(b)
  \/ \E c \in Conns : SendPresence(b, c)

Next ==
  \/ \E c \in Conns :
       \/ \E b \in Backends : Connect(c, b)
       \/ Serve(c) \/ NoteActivity(c) \/ Beat(c)
       \/ Drop(c) \/ Vanish(c) \/ GiveUp(c)
  \/ \E b \in Backends : Watch(b) \/ Sweep(b) \/ Crash(b)
  \/ Elapse

Spec == Init /\ [][Next]_vars

(* The goroutines run and Redis answers; peers join and leave as they      *)
(* please.                                                                 *)
Goroutines ==
  /\ \A c \in Conns : WF_vars(Serve(c)) /\ WF_vars(Beat(c))
  /\ \A b \in Backends : WF_vars(Watch(b))

(* Time passes: the clock of Redis moves, the sweepers' tickers fire, a    *)
(* live peer answers pings and a silent one is given up.                   *)
Timers ==
  /\ WF_vars(Elapse)
  /\ \A b \in Backends : WF_vars(Sweep(b))
  /\ \A c \in Conns : WF_vars(NoteActivity(c)) /\ WF_vars(GiveUp(c))

FairSpec  == Spec /\ Goroutines
TimedSpec == FairSpec /\ Timers
-----------------------------------------------------------------------------
\* Properties

Pcs == {"new", "join", "setUp", "announce", "live", "unjoined", "refuse",
        "stop"} \cup Leaving

ConnType  == [pc : Pcs, home : Backends \cup {"none"},
              sock : {"none", "open", "gone", "stalled", "closed"},
              told : Nat \cup {-1}, snap : PresenceSnapshot, ticket : Nat]
WatchType == [pc : {"off", "read", "get", "copy", "send"}, cursor : Nat,
              next : Nat, snap : PresenceSnapshot, left : SUBSET Conns]

(* The variables have the types of the structs and locals they model.      *)
PresenceTypeOK ==
  /\ RegistryTypeOK
  /\ down \subseteq Backends
  /\ clients \in [Backends -> SUBSET Conns]
  /\ watch \in [Backends -> WatchType]
  /\ conn \in [Conns -> ConnType]
  /\ due \in [Conns -> BOOLEAN]
  /\ screen \in [Pages -> [revision : Nat \cup {-1}, members : SUBSET Conns]]
  /\ faults \in Nat

Truthful(snap) ==
  /\ snap.revision <= registry.revision
  /\ snap.members = MembersAt(snap.revision)

(* A revision names one list of participants, whoever reads it and when:   *)
(* expiry, like every other change of the hash, advances the revision      *)
(* before the smaller list is exposed (redis_presence.go:68).  The guards  *)
(* of the socket and of the browser drop a snapshot whose revision they    *)
(* know; were two lists to share one, a page would keep the wrong one.     *)
RevisionNamesMembers ==
  /\ Truthful(CurrentPresence)
  /\ \A b \in Backends : Truthful(watch[b].snap)
  /\ \A c \in Conns : Truthful(conn[c].snap)
  /\ \A p \in Pages : screen[p].revision # -1 => Truthful(screen[p])

(* "Delayed renewal cannot resurrect a removed connection"                 *)
(* (docs/presence-leases.md:22): the revisions at which a connection is a  *)
(* member are consecutive, whatever renewals, sweeps and leaves are late.  *)
NoResurrection ==
  \A c \in Conns, k \in 1 .. Len(past) : \A i \in 1 .. k : \A j \in i .. k :
    c \in past[i] /\ c \notin past[j] => c \notin past[k]

(* A refused peer that does not read holds up whoever writes to it: its    *)
(* connection has no heartbeat yet that would give it up (ws.go:96).       *)
HoldsUp(c) == conn[c].pc = "unjoined" /\ conn[c].sock = "stalled"

(* Every change reaches every page that stays: the watcher starts at zero  *)
(* and ticks a notification off only when its snapshot is loaded           *)
(* (presence.go:109, :137), so the page of a live connection shows the      *)
(* newest revision again and again, even if Redis fails in between and     *)
(* another peer stops reading, once it is in the room (HoldsUp).           *)
ChangesAreShown ==
  \A c \in Conns :
    conn[c].pc = "live" /\ conn[c].sock = "open"
      ~> \/ screen[PageOf[c]].revision = registry.revision
         \/ conn[c].sock # "open" \/ \E d \in Conns : HoldsUp(d)

(* A connection that ended, even with its backend and with no cleanup at   *)
(* all, leaves the room (docs/presence-leases.md:41): while any backend is *)
(* up its lease runs out and a sweep, a snapshot or its own leave removes  *)
(* it.                                                                     *)
EndedLeave ==
  \A c \in Conns :
    conn[c].sock \in {"gone", "stalled", "closed"} ~> c \notin registry.members

(* "Redis failure or lease loss closes the socket so reconnect gets a new  *)
(* identity" (docs/presence-leases.md:28): a connection that works but was *)
(* swept does not stay unlisted.                                           *)
UnlistedAreClosed ==
  \A c \in Conns :
    conn[c].pc = "live" /\ c \notin registry.members ~> conn[c].sock = "closed"
=============================================================================
