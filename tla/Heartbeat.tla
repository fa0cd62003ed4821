----------------------------- MODULE Heartbeat -----------------------------
(***************************************************************************)
(* The clocks of one connection (backend/presence_lease.go): the ticker    *)
(* that pings, the read deadline, the renewals of its lease and the lease  *)
(* itself in Redis.  Presence has what the connections of a room do to one *)
(* another and lets a lease run out at any moment; here time is counted,   *)
(* to see whether it can run out under a peer that answers.                *)
(*                                                                         *)
(* Delays have bounds: a step that is due happens before the next tick.    *)
(* Sleeping and running cost nothing.                                      *)
(***************************************************************************)
EXTENDS Integers

CONSTANTS
  ConfiguredHeartbeat, ConfiguredLease,   \* from the environment (config.go)
  DefaultHeartbeat, DefaultLease,
  PongDelay,    \* bound: ticks from a ping to its pong at the server
  RedisDelay,   \* bound: ticks from a command to its reply
  SetUpTime,    \* bound: ticks before the read loop, the replay among them
  MayVanish     \* whether the peer may stop answering

ASSUME TimingAssumption ==
  /\ ConfiguredHeartbeat \in Int /\ ConfiguredLease \in Int
  /\ DefaultHeartbeat \in Nat \ {0} /\ DefaultLease \in Nat \ {0}
  /\ PongDelay \in Nat /\ RedisDelay \in Nat /\ SetUpTime \in Nat
  /\ MayVanish \in BOOLEAN

VARIABLES
  alive,        \* the peer answers pings
  sock,         \* the socket, "open" or "closed"
  reader,       \* serveWS: "setUp", "read" (the read loop) or "gone"
  busy,         \* ticks it has been setting up
  deadline,     \* ticks until its read deadline
  unread,       \* a pong or a frame lies in the socket
  owed,         \* the ages of the pings not answered yet
  beat,         \* the goroutine: "select", "ask", "renewed", "refused", "done"
  wait,         \* ticks its Redis command has taken
  ticker,       \* ticks until the ticker fires
  fired,        \* ticker.C holds a tick
  activity,     \* the age of the time in the channel, or -1
  sinceRenewal, \* the age of lastRenewal
  lease,        \* ticks left of the lease in Redis
  failed        \* history: a renewal had an error

peerVars   == <<alive, unread, owed>>
readerVars == <<reader, busy, deadline>>
beatVars   == <<beat, wait, fired, sinceRenewal>>
vars == <<peerVars, sock, readerVars, beatVars, ticker, activity, lease, failed>>

OrDefault(ticks, default) == IF ticks <= 0 THEN default ELSE ticks

HeartbeatInterval == OrDefault(ConfiguredHeartbeat, DefaultHeartbeat)

\* Faulty: the lease is raised to two heartbeats only.
TwoBeats ==
  LET asked == OrDefault(ConfiguredLease, DefaultLease)
  IN  IF asked < 2 * HeartbeatInterval THEN 2 * HeartbeatInterval ELSE asked

LeaseDuration ==
  LET asked == OrDefault(ConfiguredLease, DefaultLease)
  IN  IF asked < 3 * HeartbeatInterval THEN 3 * HeartbeatInterval ELSE asked

(* The connection has joined; the reply took its time.                     *)
Init ==
  /\ alive = TRUE /\ unread = FALSE /\ owed = {}
  /\ sock = "open"
  /\ reader = "setUp" /\ busy = 0 /\ deadline = LeaseDuration
  /\ beat = "select" /\ wait = 0 /\ fired = FALSE /\ sinceRenewal = 0
  /\ ticker = HeartbeatInterval
  /\ activity = -1
  /\ lease \in {t \in 0 .. LeaseDuration : t >= LeaseDuration - RedisDelay}
  /\ failed = FALSE

-----------------------------------------------------------------------------
\* The goroutine of startPresenceHeartbeat

\* Faulty: the tick itself has the lease renewed.
PingAndRenew ==
  /\ beat = "select" /\ fired
  /\ fired' = FALSE /\ activity' = -1 /\ beat' = "ask" /\ wait' = 0
  /\ owed' = IF alive THEN owed \cup {0} ELSE owed
  /\ UNCHANGED <<alive, unread, sock, readerVars, sinceRenewal, ticker, lease,
                 failed>>

(* Once a tick is taken a ping is written; an error ends the goroutine.    *)
SendPing ==
  /\ beat = "select" /\ fired
  /\ fired' = FALSE
  /\ IF sock = "open"
     THEN /\ owed' = IF alive THEN owed \cup {0} ELSE owed
          /\ UNCHANGED beat
     ELSE beat' = "done" /\ UNCHANGED owed
  /\ UNCHANGED <<alive, unread, sock, readerVars, wait, sinceRenewal, ticker,
                 activity, lease, failed>>

TooSoon == sinceRenewal < HeartbeatInterval

(* An activity noted a lease ago closes the socket; one too soon after the *)
(* last renewal is passed over; any other has the lease renewed.           *)
TakeActivity ==
  /\ beat = "select" /\ activity # -1
  /\ activity' = -1
  /\ wait' = 0
  /\ IF activity >= LeaseDuration THEN beat' = "done" /\ sock' = "closed"
     ELSE /\ beat' = IF TooSoon THEN "select" ELSE "ask"
          /\ UNCHANGED sock
  /\ UNCHANGED <<peerVars, readerVars, fired, sinceRenewal, ticker, lease, failed>>

\* Faulty: the time is added to what is left.
RenewLonger ==
  /\ beat = "ask"
  /\ IF lease > 0 THEN beat' = "renewed" /\ lease' = lease + LeaseDuration
     ELSE beat' = "refused" /\ UNCHANGED lease
  /\ UNCHANGED <<peerVars, sock, readerVars, wait, fired, sinceRenewal, ticker,
                 activity, failed>>

(* renewPresenceScript runs, and only a lease that has not run out is      *)
(* renewed.                                                                *)
Renew ==
  /\ beat = "ask"
  /\ IF lease > 0 THEN beat' = "renewed" /\ lease' = LeaseDuration
     ELSE beat' = "refused" /\ UNCHANGED lease
  /\ UNCHANGED <<peerVars, sock, readerVars, wait, fired, sinceRenewal, ticker,
                 activity, failed>>

(* Redis has an error, before the script or after it: treated as a lease   *)
(* that was lost.                                                          *)
RenewFails ==
  /\ beat = "ask"
  /\ beat' = "refused" /\ failed' = TRUE
  /\ lease' \in {lease, IF lease > 0 THEN LeaseDuration ELSE 0}
  /\ UNCHANGED <<peerVars, sock, readerVars, wait, fired, sinceRenewal, ticker,
                 activity>>

RenewReturns ==
  /\ beat = "renewed"
  /\ beat' = "select" /\ sinceRenewal' = 0
  /\ UNCHANGED <<peerVars, sock, readerVars, wait, fired, ticker, activity, lease,
                 failed>>

CloseRefused ==
  /\ beat = "refused"
  /\ beat' = "done" /\ sock' = "closed"
  /\ UNCHANGED <<peerVars, readerVars, wait, fired, sinceRenewal, ticker, activity,
                 lease, failed>>

(* The deferred stopHeartbeat; select may still take something else first. *)
Stop ==
  /\ beat = "select" /\ reader = "gone"
  /\ beat' = "done"
  /\ UNCHANGED <<peerVars, sock, readerVars, wait, fired, sinceRenewal, ticker,
                 activity, lease, failed>>

-----------------------------------------------------------------------------
\* serveWS

(* The read loop begins.                                                   *)
BeginReading ==
  /\ reader = "setUp"
  /\ reader' = "read"
  /\ UNCHANGED <<peerVars, sock, busy, deadline, beatVars, ticker, activity, lease,
                 failed>>

(* A pong or a frame is read: the deadline moves, and the channel, which   *)
(* holds one time, takes the new one if it is empty.                       *)
NoteActivity ==
  /\ reader = "read" /\ sock = "open" /\ deadline > 0
  /\ unread
  /\ unread' = FALSE
  /\ deadline' = LeaseDuration
  /\ activity' = IF activity = -1 THEN 0 ELSE activity
  /\ UNCHANGED <<alive, owed, sock, reader, busy, beatVars, ticker, lease, failed>>

(* The deadline has passed or the socket is closed: serveWS returns, and   *)
(* leaves, or fails to.                                                    *)
StopReading ==
  /\ reader = "read" /\ (deadline = 0 \/ sock = "closed")
  /\ reader' = "gone" /\ sock' = "closed"
  /\ lease' \in {0, lease}
  /\ UNCHANGED <<peerVars, busy, deadline, beatVars, ticker, activity, failed>>

-----------------------------------------------------------------------------
\* The peer

(* A ping is answered.                                                     *)
Answer ==
  /\ alive /\ sock = "open"
  /\ \E age \in owed : owed' = owed \ {age}
  /\ unread' = TRUE
  /\ UNCHANGED <<alive, sock, readerVars, beatVars, ticker, activity, lease, failed>>

(* The page sends a frame of its own accord.                               *)
SendFrame ==
  /\ alive /\ sock = "open"
  /\ ~unread /\ unread' = TRUE
  /\ UNCHANGED <<alive, owed, sock, readerVars, beatVars, ticker, activity, lease,
                 failed>>

Vanish ==
  /\ MayVanish /\ alive
  /\ alive' = FALSE /\ owed' = {}
  /\ UNCHANGED <<unread, sock, readerVars, beatVars, ticker, activity, lease, failed>>

-----------------------------------------------------------------------------
\* Time

Asking == beat \in {"ask", "renewed", "refused"}

(* Something is due now.                                                   *)
Overdue ==
  \/ beat = "select" /\ (fired \/ activity # -1 \/ reader = "gone")
  \/ Asking /\ wait = RedisDelay
  \/ reader = "setUp" /\ busy = SetUpTime
  \/ reader = "read" /\ (unread \/ deadline = 0 \/ sock = "closed")
  \/ alive /\ sock = "open" /\ PongDelay \in owed

Down(ticks) == IF ticks > 0 THEN ticks - 1 ELSE 0

Tick ==
  /\ ~Overdue
  /\ sock = "open" \/ lease > 0
  /\ owed' = IF sock = "open" THEN {age + 1 : age \in owed} ELSE {}
  /\ busy' = IF reader = "setUp" THEN busy + 1 ELSE busy
  /\ deadline' = Down(deadline)
  /\ wait' = IF Asking THEN wait + 1 ELSE wait
  /\ ticker' = IF ticker = 1 THEN HeartbeatInterval ELSE ticker - 1
  /\ fired' = (fired \/ ticker = 1)
  /\ activity' = IF activity = -1 \/ beat = "done" THEN activity ELSE activity + 1
  /\ sinceRenewal' = sinceRenewal + 1
  /\ lease' = Down(lease)
  /\ UNCHANGED <<alive, unread, sock, reader, beat, failed>>

Next ==
  \/ SendPing \/ TakeActivity \/ Renew \/ RenewFails \/ RenewReturns
  \/ CloseRefused \/ Stop
  \/ BeginReading \/ NoteActivity \/ StopReading
  \/ Answer \/ SendFrame \/ Vanish
  \/ Tick

Spec == Init /\ [][Next]_vars

-----------------------------------------------------------------------------
\* Properties

(* The delays a lease of three heartbeats is enough for.                   *)
Prompt ==
  /\ PongDelay + 2 * RedisDelay <= HeartbeatInterval
  /\ SetUpTime + 2 * RedisDelay < 3 * HeartbeatInterval

(* The locals have the types of the durations and channels they model.     *)
HeartbeatTypeOK ==
  /\ alive \in BOOLEAN /\ unread \in BOOLEAN /\ owed \subseteq 0 .. PongDelay
  /\ sock \in {"open", "closed"}
  /\ reader \in {"setUp", "read", "gone"} /\ busy \in 0 .. SetUpTime
  /\ deadline \in 0 .. LeaseDuration
  /\ beat \in {"select", "ask", "renewed", "refused", "done"}
  /\ wait \in 0 .. RedisDelay /\ fired \in BOOLEAN /\ sinceRenewal \in Nat
  /\ ticker \in 1 .. HeartbeatInterval
  /\ activity \in -1 .. RedisDelay
  /\ lease \in 0 .. LeaseDuration
  /\ failed \in BOOLEAN

(* Three heartbeats are enough (presence_lease.go:32): while a peer        *)
(* answers, no delay is excessive and Redis has no error, the lease does   *)
(* not run out under it and the heartbeat does not close its socket,       *)
(* although renewals are skipped within a heartbeat of the last            *)
(* (presence_lease.go:77) and a time is dropped when the channel is full.  *)
HealthyStayListed ==
  Prompt /\ alive /\ ~failed => lease > 0 /\ sock = "open"

(* "A timer alone never renews membership" (docs/presence-leases.md:28):   *)
(* whatever the delays, the lease outlives the read deadline, which only   *)
(* the peer moves, by no more than the time of one renewal.                *)
LeaseFollowsPeer ==
  sock = "open" => lease <= deadline + RedisDelay
=============================================================================
