SPECIFICATION Spec
CONSTANTS
  u1 = u1  u2 = u2  a = a  b = b  f = f  g = g
  Users = {u1}
  Uids = {a}
  Daemon = daemon
  Resolvers = {r1}
  Reintegrators = {i1}
  Servers = {s1}
  Fids = {}
  NoThread = NoThread  UNSET_UID = UNSET_UID  NoFid = NoFid
  UidOf <- MCUidOf
  Parent <- MCParent
  MAX_REQUEUE = 1
  ReintLimitZero = TRUE
  SyncCalls = TRUE
  DaemonOps = {"transition", "flush"}
  MaxCML = 2  RedZone = 2  YellowZone = 1
  MaxNest = 1
  MaxEvents = 2
  MaxCrashes = 1
INVARIANTS OneReintegration NoChoke
CHECK_DEADLOCK FALSE
