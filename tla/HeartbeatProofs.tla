-------------------------- MODULE HeartbeatProofs --------------------------
(***************************************************************************)
(* Three heartbeats are enough, for every heartbeat, lease and delay.      *)
(*                                                                         *)
(* ClockInv ties the read deadline and the channel to the renewals,        *)
(* whatever the delays.  Listed is about a peer that answers, with delays  *)
(* that are Prompt: at any moment a pong is on its way, or a ping will be  *)
(* sent, early enough for the renewal (PongForLease) and for the deadline  *)
(* (PongForDeadline).                                                      *)
(***************************************************************************)
EXTENDS Heartbeat, TLAPS

ClockInv ==
  /\ HeartbeatTypeOK
  /\ ~alive => owed = {}
  /\ Asking => activity <= wait
  /\ beat = "select" /\ activity # -1 => activity = 0 \/ sinceRenewal = 0
  /\ beat # "done" /\ activity # -1 => deadline >= LeaseDuration - activity
  /\ beat = "ask" => deadline >= LeaseDuration - wait
  /\ LeaseFollowsPeer

(* The longest time from a renewal to the next one that is asked for.      *)
Longest ==
  IF 2 * HeartbeatInterval + PongDelay - 1 >= SetUpTime
  THEN 2 * HeartbeatInterval + PongDelay - 1 ELSE SetUpTime

PongForLease ==
  \/ unread
  \/ activity # -1
  \/ \E age \in owed : sinceRenewal + PongDelay - age <= Longest
  \/ fired /\ sinceRenewal + PongDelay <= Longest
  \/ sinceRenewal + ticker + PongDelay <= Longest

PongForDeadline ==
  \/ unread
  \/ \E age \in owed : PongDelay - age < deadline
  \/ fired /\ ~Asking /\ PongDelay < deadline
  \/ fired /\ Asking /\ PongDelay + RedisDelay - wait < deadline
  \/ ticker + PongDelay + RedisDelay < deadline

Listed ==
  /\ sock = "open" /\ reader \in {"setUp", "read"}
  /\ beat \in {"select", "ask", "renewed"}
  /\ reader = "setUp" =>
       /\ beat = "select" /\ activity = -1
       /\ sinceRenewal = busy /\ deadline = LeaseDuration - busy
  /\ deadline > 0 /\ lease > 0
  /\ beat = "select" => sinceRenewal <= Longest /\ PongForLease
  /\ Asking => sinceRenewal <= Longest + wait
  /\ beat # "renewed" => lease >= LeaseDuration - RedisDelay - sinceRenewal
  /\ beat = "renewed" => lease >= LeaseDuration - wait
  /\ PongForDeadline

HealthyInv == Prompt /\ alive /\ ~failed => Listed

-----------------------------------------------------------------------------
(* Durations are positive, and a lease lasts three heartbeats.             *)
LEMMA Durations ==
  /\ HeartbeatInterval \in Nat /\ HeartbeatInterval >= 1
  /\ LeaseDuration \in Nat /\ LeaseDuration >= 3 * HeartbeatInterval
<1>1. HeartbeatInterval \in Nat /\ HeartbeatInterval >= 1
  BY TimingAssumption DEF HeartbeatInterval, OrDefault
<1>2. OrDefault(ConfiguredLease, DefaultLease) \in Nat
  BY TimingAssumption DEF OrDefault
<1> QED  BY <1>1, <1>2 DEF LeaseDuration

LEMMA LongestBounds ==
  /\ Longest \in Nat
  /\ Longest >= 2 * HeartbeatInterval + PongDelay - 1
  /\ Longest >= SetUpTime
  /\ Prompt => LeaseDuration - 2 * RedisDelay - Longest > 0
BY Durations, TimingAssumption DEF Longest, Prompt

LEMMA InitClock == Init => ClockInv
<1> SUFFICES ASSUME Init PROVE ClockInv
  OBVIOUS
<1>1. HeartbeatTypeOK
  <2>1. activity \in -1 .. RedisDelay /\ owed \subseteq 0 .. PongDelay
    BY TimingAssumption DEF Init
  <2>2. /\ deadline \in 0 .. LeaseDuration /\ lease \in 0 .. LeaseDuration
        /\ ticker \in 1 .. HeartbeatInterval
    BY Durations DEF Init
  <2>3. /\ busy \in 0 .. SetUpTime /\ wait \in 0 .. RedisDelay
        /\ sinceRenewal \in Nat
    BY TimingAssumption DEF Init
  <2> QED  BY <2>1, <2>2, <2>3 DEF Init, HeartbeatTypeOK
<1>2. LeaseFollowsPeer
  BY <1>1, TimingAssumption, Durations DEF Init, LeaseFollowsPeer, HeartbeatTypeOK
<1> QED  BY <1>1, <1>2, Durations DEF Init, ClockInv, Asking

LEMMA InitHealthy == Init => HealthyInv
<1> SUFFICES ASSUME Init, Prompt PROVE Listed
  BY DEF HealthyInv
<1> USE Durations, LongestBounds, TimingAssumption DEF Init, Asking
<1>1. sinceRenewal + ticker + PongDelay <= Longest
  OBVIOUS
<1>2. ticker + PongDelay + RedisDelay < deadline /\ deadline > 0 /\ lease > 0
  BY DEF Prompt
<1> QED  BY <1>1, <1>2 DEF Listed, PongForLease, PongForDeadline

-----------------------------------------------------------------------------
\* The clocks, for any delay

LEMMA Pinged ==
  ASSUME SendPing
  PROVE  owed' = owed \/ (alive /\ owed' = owed \cup {0})
<1>1. CASE alive
  BY <1>1 DEF SendPing
<1>2. CASE ~alive
  BY <1>2 DEF SendPing
<1> QED  BY <1>1, <1>2

LEMMA ClockSteps ==
  ASSUME ClockInv,
         \/ SendPing \/ TakeActivity \/ Renew \/ RenewFails \/ RenewReturns
         \/ CloseRefused \/ Stop
         \/ BeginReading \/ NoteActivity \/ StopReading
         \/ Answer \/ SendFrame \/ Vanish
  PROVE  ClockInv'
<1> USE Durations, TimingAssumption
    DEF ClockInv, HeartbeatTypeOK, LeaseFollowsPeer, Asking, readerVars, peerVars,
        beatVars
<1>1. CASE SendPing
  <2>1. owed' = owed \/ (alive /\ owed' = owed \cup {0})
    BY <1>1, Pinged
  <2>2. beat = "select" /\ fired' \in BOOLEAN
    BY <1>1, Zenon DEF SendPing
  <2>3. beat' = beat \/ beat' = "done"
    BY <1>1, Zenon DEF SendPing
  <2>4. UNCHANGED <<alive, unread, sock, reader, busy, deadline, wait, sinceRenewal,
                    ticker, activity, lease, failed>>
    BY <1>1 DEF SendPing
  <2>5. HeartbeatTypeOK'
    <3>1. owed' \subseteq 0 .. PongDelay
      <4>1. owed \subseteq 0 .. PongDelay /\ 0 \in 0 .. PongDelay
        OBVIOUS
      <4> HIDE DEF ClockInv, HeartbeatTypeOK
      <4> QED  BY <2>1, <4>1, Zenon
    <3> QED  BY <2>2, <2>3, <2>4, <3>1
  <2>6. LeaseFollowsPeer'
    BY <2>4
  <2> QED  BY <2>1, <2>2, <2>3, <2>4, <2>5, <2>6
<1>2. CASE TakeActivity
  <2>1. ~TooSoon => activity = 0
    BY <1>2 DEF TakeActivity, TooSoon
  <2>2. beat' = "ask" => deadline' >= LeaseDuration - wait'
    BY <1>2, <2>1 DEF TakeActivity
  <2> QED  BY <1>2, <2>2 DEF TakeActivity
<1>3. CASE Renew
  BY <1>3 DEF Renew
<1>11. CASE RenewFails
  BY <1>11 DEF RenewFails
<1>4. CASE RenewReturns
  BY <1>4 DEF RenewReturns
<1>5. CASE CloseRefused \/ Stop
  BY <1>5 DEF CloseRefused, Stop
<1>6. CASE BeginReading
  BY <1>6 DEF BeginReading
<1>7. CASE NoteActivity
  <2>1. /\ activity' = IF activity = -1 THEN 0 ELSE activity
        /\ deadline' = LeaseDuration /\ beat' = beat
    BY <1>7 DEF NoteActivity
  <2>2. activity' \in -1 .. RedisDelay
    BY <2>1
  <2>3. beat' # "done" /\ activity' # -1 => deadline' >= LeaseDuration - activity'
    BY <2>1
  <2>4. /\ Asking' => activity' <= wait'
        /\ beat' = "select" /\ activity' # -1 => activity' = 0 \/ sinceRenewal' = 0
        /\ beat' = "ask" => deadline' >= LeaseDuration - wait'
    BY <1>7, <2>1 DEF NoteActivity
  <2>5. LeaseFollowsPeer'
    BY <1>7, <2>1 DEF NoteActivity
  <2>6. HeartbeatTypeOK'
    <3>1. /\ unread' = FALSE
          /\ UNCHANGED <<alive, owed, sock, reader, busy, beat, wait, fired,
                         sinceRenewal, ticker, lease, failed>>
      BY <1>7 DEF NoteActivity
    <3>2. deadline' \in 0 .. LeaseDuration
      BY <2>1
    <3> QED  BY <2>2, <3>1, <3>2
  <2> QED  BY <1>7, <2>3, <2>4, <2>5, <2>6 DEF NoteActivity
<1>8. CASE StopReading
  BY <1>8 DEF StopReading
<1>9. CASE Answer
  BY <1>9 DEF Answer
<1>10. CASE SendFrame \/ Vanish
  BY <1>10 DEF SendFrame, Vanish
<1> QED
  BY <1>1, <1>2, <1>3, <1>4, <1>5, <1>6, <1>7, <1>8, <1>9, <1>10, <1>11

LEMMA ClockTick ==
  ASSUME ClockInv, Tick
  PROVE  ClockInv'
<1> USE Durations, TimingAssumption DEF ClockInv
<1>1. HeartbeatTypeOK'
  <2>1. owed' \subseteq 0 .. PongDelay
    BY DEF Tick, Overdue, HeartbeatTypeOK
  <2>2. /\ busy' \in 0 .. SetUpTime /\ wait' \in 0 .. RedisDelay
        /\ deadline' \in 0 .. LeaseDuration /\ lease' \in 0 .. LeaseDuration
        /\ ticker' \in 1 .. HeartbeatInterval
    BY DEF Tick, Overdue, HeartbeatTypeOK, Down, Asking
  <2>3. activity' \in -1 .. RedisDelay
    BY DEF Tick, Overdue, HeartbeatTypeOK, Asking
  <2> QED  BY <2>1, <2>2, <2>3 DEF Tick, HeartbeatTypeOK
<1>2. ~alive' => owed' = {}
  BY DEF Tick
<1>3. /\ Asking' => activity' <= wait'
      /\ beat' = "select" /\ activity' # -1 => activity' = 0 \/ sinceRenewal' = 0
      /\ beat' # "done" /\ activity' # -1 => deadline' >= LeaseDuration - activity'
      /\ beat' = "ask" => deadline' >= LeaseDuration - wait'
  BY DEF Tick, Overdue, HeartbeatTypeOK, Down, Asking
<1>4. LeaseFollowsPeer'
  BY DEF Tick, HeartbeatTypeOK, Down, LeaseFollowsPeer
<1> QED  BY <1>1, <1>2, <1>3, <1>4

LEMMA NextClock ==
  ASSUME ClockInv, [Next]_vars
  PROVE  ClockInv'
<1>1. CASE UNCHANGED vars
  BY <1>1 DEF vars, readerVars, peerVars, beatVars, ClockInv, HeartbeatTypeOK,
              LeaseFollowsPeer, Asking
<1> QED  BY <1>1, ClockSteps, ClockTick DEF Next

-----------------------------------------------------------------------------
\* A peer that answers, under prompt delays

LEMMA HealthySteps ==
  ASSUME ClockInv, HealthyInv,
         \/ SendPing \/ TakeActivity \/ Renew \/ RenewFails \/ RenewReturns
         \/ CloseRefused \/ Stop
         \/ BeginReading \/ NoteActivity \/ StopReading
         \/ Answer \/ SendFrame \/ Vanish
  PROVE  HealthyInv'
<1> SUFFICES ASSUME Prompt, alive', ~failed' PROVE Listed'
  BY DEF HealthyInv, Prompt
<1> USE Durations, LongestBounds, TimingAssumption DEF HeartbeatTypeOK, Asking
<1>0. alive /\ Listed /\ HeartbeatTypeOK
  BY DEF HealthyInv, SendPing, TakeActivity, Renew, RenewFails, RenewReturns,
         CloseRefused, Stop, BeginReading, NoteActivity, StopReading, Answer, SendFrame, Vanish, peerVars,
         ClockInv
<1>1. CASE SendPing
  <2>1. /\ beat = "select" /\ sock = "open" /\ beat' = beat
        /\ owed' = owed \cup {0} /\ fired' = FALSE
        /\ UNCHANGED <<alive, unread, sock, reader, busy, deadline, wait,
                       sinceRenewal, ticker, activity, lease>>
    BY <1>0, <1>1 DEF SendPing, Listed, readerVars
  <2>2. PongForLease'
    BY <1>0, <2>1 DEF Listed, PongForLease
  <2>3. PongForDeadline'
    BY <1>0, <2>1 DEF Listed, PongForDeadline
  <2> QED  BY <1>0, <2>1, <2>2, <2>3 DEF Listed
<1>2. CASE TakeActivity
  <2>1. /\ beat = "select" /\ activity # -1 /\ activity < LeaseDuration
        /\ activity' = -1 /\ wait' = 0
        /\ beat' = IF TooSoon THEN "select" ELSE "ask"
        /\ UNCHANGED <<alive, unread, owed, sock, reader, busy, deadline, fired,
                       sinceRenewal, ticker, lease>>
    BY <1>0, <1>2 DEF TakeActivity, peerVars, readerVars, Listed, ClockInv, Prompt
  <2>2. beat' = "select" => PongForLease'
    BY <1>0, <2>1 DEF TooSoon, PongForLease
  <2>3. PongForDeadline'
    <3>1. deadline >= LeaseDuration - RedisDelay
      BY <1>0, <2>1 DEF ClockInv
    <3> QED  BY <1>0, <2>1, <3>1 DEF Listed, PongForDeadline, Prompt
  <2> QED  BY <1>0, <2>1, <2>2, <2>3 DEF Listed
<1>3. CASE Renew
  BY <1>0, <1>3 DEF Renew, Listed, PongForDeadline, peerVars, readerVars
<1>10. CASE RenewFails
  BY <1>10 DEF RenewFails
<1>4. CASE RenewReturns
  <2>1. /\ beat = "renewed" /\ beat' = "select" /\ sinceRenewal' = 0
        /\ UNCHANGED <<alive, unread, owed, sock, reader, busy, deadline, wait, fired,
                       ticker, activity, lease>>
    BY <1>4 DEF RenewReturns, peerVars, readerVars
  <2>2. PongForLease'
    BY <1>0, <2>1 DEF PongForLease
  <2>3. PongForDeadline'
    BY <1>0, <2>1 DEF Listed, PongForDeadline
  <2> QED  BY <1>0, <2>1, <2>2, <2>3 DEF Listed
<1>5. CASE CloseRefused \/ Stop \/ StopReading
  BY <1>0, <1>5 DEF CloseRefused, Stop, StopReading, Listed
<1>6. CASE BeginReading
  BY <1>0, <1>6 DEF BeginReading, Listed, PongForLease, PongForDeadline, peerVars,
                    beatVars
<1>7. CASE NoteActivity
  <2>1. /\ reader = "read" /\ deadline' = LeaseDuration /\ activity' # -1
        /\ UNCHANGED <<alive, owed, sock, reader, busy, beat, wait, fired,
                       sinceRenewal, ticker, lease>>
    BY <1>0, <1>7 DEF NoteActivity, beatVars
  <2>2. PongForLease' /\ PongForDeadline'
    BY <1>0, <2>1 DEF PongForLease, PongForDeadline, Prompt
  <2> QED  BY <1>0, <2>1, <2>2 DEF Listed
<1>8. CASE Answer \/ SendFrame
  <2>1. /\ unread' = TRUE
        /\ UNCHANGED <<alive, sock, reader, busy, deadline, beat, wait, fired,
                       sinceRenewal, ticker, activity, lease>>
    BY <1>8 DEF Answer, SendFrame, readerVars, beatVars
  <2> QED  BY <1>0, <2>1 DEF Listed, PongForLease, PongForDeadline
<1>9. CASE Vanish
  BY <1>9 DEF Vanish
<1> QED  BY <1>1, <1>2, <1>3, <1>4, <1>5, <1>6, <1>7, <1>8, <1>9, <1>10

LEMMA HealthyTick ==
  ASSUME ClockInv, HealthyInv, Tick
  PROVE  HealthyInv'
<1> SUFFICES ASSUME Prompt, alive', ~failed' PROVE Listed'
  BY DEF HealthyInv, Prompt
<1> USE DEF Asking
<1>0. /\ alive /\ Listed /\ ~Overdue
      /\ fired \in BOOLEAN /\ unread \in BOOLEAN
      /\ busy \in 0 .. SetUpTime /\ wait \in 0 .. RedisDelay
      /\ sinceRenewal \in Nat /\ ticker \in Nat /\ ticker >= 1
      /\ deadline \in Nat /\ lease \in Nat /\ activity \in Int
      /\ \A age \in owed : age \in Nat /\ age <= PongDelay
      /\ PongDelay \in Nat /\ RedisDelay \in Nat /\ SetUpTime \in Nat
      /\ Longest \in Nat /\ Longest >= SetUpTime
      /\ LeaseDuration \in Nat /\ HeartbeatInterval \in Nat
      /\ LeaseDuration - 2 * RedisDelay - Longest > 0
  BY Durations, LongestBounds, TimingAssumption
     DEF HealthyInv, Tick, ClockInv, HeartbeatTypeOK
<1>1. /\ UNCHANGED <<alive, unread, sock, reader, beat>>
      /\ sinceRenewal' = sinceRenewal + 1
      /\ busy' = IF reader = "setUp" THEN busy + 1 ELSE busy
      /\ wait' = IF Asking THEN wait + 1 ELSE wait
      /\ ticker' = IF ticker = 1 THEN HeartbeatInterval ELSE ticker - 1
      /\ fired' = (fired \/ ticker = 1)
      /\ deadline' = deadline - 1 /\ lease' = lease - 1
      /\ activity = -1 => activity' = -1
      /\ activity # -1 => activity' = activity + 1
  BY <1>0 DEF Tick, Listed, Down
<1>4. owed' = {age + 1 : age \in owed}
  BY <1>0 DEF Tick, Listed
<1>2. CASE beat = "select"
  <2>1. ~fired /\ activity = -1 /\ (unread => reader = "setUp")
    BY <1>0, <1>2 DEF Overdue, Listed
  <2>2. \/ unread
        \/ \E age \in owed' : sinceRenewal' + PongDelay - age <= Longest
        \/ fired' /\ sinceRenewal' + PongDelay <= Longest
        \/ sinceRenewal' + ticker' + PongDelay <= Longest
    <3>1. ASSUME NEW age \in owed, sinceRenewal + PongDelay - age <= Longest
          PROVE  \E a \in owed' : sinceRenewal' + PongDelay - a <= Longest
      <4>1. age + 1 \in owed' /\ sinceRenewal' + PongDelay - (age + 1) <= Longest
        BY <1>0, <1>1, <1>4, <3>1
      <4> QED  BY <4>1
    <3>2. CASE sinceRenewal + ticker + PongDelay <= Longest
      <4>1. CASE ticker = 1
        <5>1. fired' /\ sinceRenewal' + PongDelay <= Longest
          BY <1>0, <1>1, <3>2, <4>1
        <5> QED  BY <5>1
      <4>2. CASE ticker # 1
        <5>1. sinceRenewal' + ticker' + PongDelay <= Longest
          BY <1>0, <1>1, <3>2, <4>2
        <5> QED  BY <5>1
      <4> QED  BY <4>1, <4>2
    <3> QED  BY <1>0, <1>2, <2>1, <3>1, <3>2 DEF Listed, PongForLease
  <2>3. PongForLease'
    BY <1>1, <2>2 DEF PongForLease
  <2>4. sinceRenewal' <= Longest
    <3>1. CASE unread
      BY <1>0, <1>1, <2>1, <3>1 DEF Listed, Overdue
    <3>2. ASSUME NEW age \in owed, sinceRenewal + PongDelay - age <= Longest
          PROVE  sinceRenewal' <= Longest
      <4>1. age # PongDelay
        BY <1>0, <3>2 DEF Overdue, Listed
      <4> QED  BY <1>0, <1>1, <3>2, <4>1
    <3>3. CASE sinceRenewal + ticker + PongDelay <= Longest
      BY <1>0, <1>1, <3>3
    <3> QED  BY <1>0, <1>2, <2>1, <3>1, <3>2, <3>3 DEF Listed, PongForLease
  <2>5. \/ unread
        \/ \E age \in owed' : PongDelay - age < deadline'
        \/ fired' /\ PongDelay < deadline'
        \/ ticker' + PongDelay + RedisDelay < deadline'
    <3>1. ASSUME NEW age \in owed, PongDelay - age < deadline
          PROVE  \E a \in owed' : PongDelay - a < deadline'
      <4>1. age + 1 \in owed' /\ PongDelay - (age + 1) < deadline'
        BY <1>0, <1>1, <1>4, <3>1
      <4> QED  BY <4>1
    <3>2. CASE ticker + PongDelay + RedisDelay < deadline
      <4>1. CASE ticker = 1
        <5>1. fired'
          BY <1>1, <4>1
        <5>2. PongDelay < deadline'
          BY <1>0, <1>1, <3>2, <4>1
        <5> QED  BY <5>1, <5>2
      <4>2. CASE ticker # 1
        <5>1. ticker' + PongDelay + RedisDelay < deadline'
          BY <1>0, <1>1, <3>2, <4>2
        <5> QED  BY <5>1
      <4> QED  BY <4>1, <4>2
    <3> QED  BY <1>0, <1>2, <2>1, <3>1, <3>2 DEF Listed, PongForDeadline
  <2>6. PongForDeadline'
    BY <1>1, <1>2, <2>5 DEF PongForDeadline
  <2>7. deadline' > 0
    <3>1. CASE unread
      BY <1>0, <1>1, <2>1, <3>1 DEF Listed, Overdue, Prompt
    <3>2. ASSUME NEW age \in owed, PongDelay - age < deadline
          PROVE  deadline' > 0
      <4>1. age # PongDelay
        BY <1>0, <3>2 DEF Overdue, Listed
      <4> QED  BY <1>0, <1>1, <3>2, <4>1
    <3>3. CASE ticker + PongDelay + RedisDelay < deadline
      BY <1>0, <1>1, <3>3
    <3> QED  BY <1>0, <1>2, <2>1, <3>1, <3>2, <3>3 DEF Listed, PongForDeadline
  <2>8. lease' > 0 /\ lease' >= LeaseDuration - RedisDelay - sinceRenewal'
    BY <1>0, <1>1, <1>2, <2>4 DEF Listed
  <2> QED  BY <1>0, <1>1, <1>2, <2>1, <2>3, <2>4, <2>6, <2>7, <2>8 DEF Listed
<1>3. CASE beat \in {"ask", "renewed"}
  <2>1. wait < RedisDelay /\ reader = "read" /\ ~unread
    BY <1>0, <1>3 DEF Overdue, Listed
  <2>2. \/ \E age \in owed' : PongDelay - age < deadline'
        \/ fired' /\ PongDelay + RedisDelay - wait' < deadline'
        \/ ticker' + PongDelay + RedisDelay < deadline'
    <3>1. ASSUME NEW age \in owed, PongDelay - age < deadline
          PROVE  \E a \in owed' : PongDelay - a < deadline'
      <4>1. age + 1 \in owed' /\ PongDelay - (age + 1) < deadline'
        BY <1>0, <1>1, <1>4, <3>1
      <4> QED  BY <4>1
    <3>2. CASE fired /\ PongDelay + RedisDelay - wait < deadline
      <4>1. fired'
        BY <1>1, <3>2
      <4>2. wait' = wait + 1 /\ deadline' = deadline - 1
        BY <1>1, <1>3
      <4>3. PongDelay + RedisDelay - wait' < deadline'
        BY <1>0, <3>2, <4>2
      <4> QED  BY <4>1, <4>3
    <3>3. CASE ticker + PongDelay + RedisDelay < deadline
      <4>1. CASE ticker = 1
        <5>1. fired'
          BY <1>1, <4>1
        <5>2. wait' = wait + 1 /\ deadline' = deadline - 1
          BY <1>1, <1>3
        <5>3. PongDelay + RedisDelay - wait' < deadline'
          BY <1>0, <3>3, <4>1, <5>2
        <5> QED  BY <5>1, <5>3
      <4>2. CASE ticker # 1
        <5>1. ticker' + PongDelay + RedisDelay < deadline'
          BY <1>0, <1>1, <3>3, <4>2
        <5> QED  BY <5>1
      <4> QED  BY <4>1, <4>2
    <3> QED  BY <1>0, <1>3, <2>1, <3>1, <3>2, <3>3 DEF Listed, PongForDeadline
  <2>3. PongForDeadline'
    BY <1>1, <1>3, <2>2 DEF PongForDeadline
  <2>4. deadline' > 0
    <3>1. ASSUME NEW age \in owed, PongDelay - age < deadline
          PROVE  deadline' > 0
      <4>1. age # PongDelay
        BY <1>0, <3>1 DEF Overdue, Listed
      <4> QED  BY <1>0, <1>1, <3>1, <4>1
    <3>2. CASE PongDelay + RedisDelay - wait < deadline
      BY <1>0, <1>1, <2>1, <3>2
    <3>3. CASE ticker + PongDelay + RedisDelay < deadline
      BY <1>0, <1>1, <3>3
    <3> QED  BY <1>0, <1>3, <2>1, <3>1, <3>2, <3>3 DEF Listed, PongForDeadline
  <2>5. sinceRenewal' <= Longest + wait'
    BY <1>0, <1>1, <1>3 DEF Listed
  <2>6. CASE beat = "ask"
    BY <1>0, <1>1, <1>3, <2>1, <2>3, <2>4, <2>5, <2>6 DEF Listed
  <2>7. CASE beat = "renewed"
    BY <1>0, <1>1, <1>3, <2>1, <2>3, <2>4, <2>5, <2>7 DEF Listed, Prompt
  <2> QED  BY <1>3, <2>6, <2>7
<1> QED  BY <1>0, <1>2, <1>3 DEF Listed

LEMMA NextHealthy ==
  ASSUME ClockInv, HealthyInv, [Next]_vars
  PROVE  HealthyInv'
<1>1. CASE UNCHANGED vars
  BY <1>1 DEF vars, readerVars, peerVars, beatVars, HealthyInv, Listed, PongForLease,
              PongForDeadline, Asking
<1> QED  BY <1>1, HealthySteps, HealthyTick DEF Next

-----------------------------------------------------------------------------
\* The theorems

(* What ties the deadline, the channel and the renewals is inductive.      *)
THEOREM ClocksAgree == Spec => []ClockInv
<1>1. ClockInv /\ [Next]_vars => ClockInv'
  BY NextClock
<1> QED  BY InitClock, <1>1, PTL DEF Spec

(* The durations and the channel keep their types, for every timing and    *)
(* every delay.                                                            *)
THEOREM HeartbeatTypeCorrect == Spec => []HeartbeatTypeOK
<1>1. ClockInv => HeartbeatTypeOK
  BY DEF ClockInv
<1> QED  BY <1>1, ClocksAgree, PTL

(* No lease is kept up without the peer, for every timing and every delay  *)
(* (docs/presence-leases.md:28).                                           *)
THEOREM OnlyThePeerRenews == Spec => []LeaseFollowsPeer
<1>1. ClockInv => LeaseFollowsPeer
  BY DEF ClockInv
<1> QED  BY <1>1, ClocksAgree, PTL

(* Three heartbeats are enough: whatever durations are configured, a peer  *)
(* that answers keeps its lease and its socket as long as a pong and two   *)
(* commands fit into a heartbeat (presence_lease.go:32).                   *)
THEOREM ThreeBeatsAreEnough == Spec => []HealthyStayListed
<1>1. HealthyInv /\ ClockInv /\ [Next]_vars => HealthyInv'
  BY NextHealthy
<1>2. HealthyInv => HealthyStayListed
  BY DEF HealthyInv, Listed, HealthyStayListed
<1> QED  BY InitHealthy, <1>1, <1>2, ClocksAgree, PTL DEF Spec
=============================================================================
