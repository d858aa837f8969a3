SPECIFICATION Spec
CONSTANTS
  u1 = u1  u2 = u2  a = a  b = b  f = f  g = g
  Users = {u1, u2}
  Uids = {a, b}
  Daemon = daemon
  Resolvers = {r1}
  Reintegrators = {i1}
  Servers = {s1}
  Fids = {f}
  NoThread = NoThread  UNSET_UID = UNSET_UID  NoFid = NoFid
  UidOf <- MCUidOf
  Parent <- MCParent
  MAX_REQUEUE = 1
  ReintLimitZero = FALSE
  SyncCalls = FALSE
  DaemonOps = {"transition", "trickle", "checkpoint"}
  MaxCML = 1  RedZone = 2  YellowZone = 2
  MaxNest = 1
  MaxEvents = 1
  MaxCrashes = 0
SYMMETRY Symmetry
INVARIANTS CountsOK OneMutatingUser
PROPERTY CheckPointStable
