\* Delays at the limit of what a lease of three heartbeats allows; the
\* heartbeat is the default one, and the lease configured too short.
SPECIFICATION Spec
CONSTANTS
  ConfiguredHeartbeat = 0
  ConfiguredLease = 5
  DefaultHeartbeat = 6
  DefaultLease = 30
  PongDelay = 2
  RedisDelay = 2
  SetUpTime = 13
  MayVanish = TRUE
INVARIANTS HeartbeatTypeOK HealthyStayListed LeaseFollowsPeer
CHECK_DEADLOCK FALSE
