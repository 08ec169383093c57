SPECIFICATION FairSpec
CONSTANTS
  c1 = c1
  c2 = c2
  c3 = c3
  c4 = c4
  dA = dA
  dB = dB
  dC = dC
  u1 = u1
  u2 = u2
  Conns = {c1, c2}
  Devices = {dA}
  Users = {u1}
  Names = {n1}
  Requests = {r1}
  QueueCap = 1
  MaxFrames = 1
  DeviceOf <- MCDeviceOf
  Owner <- MCOneOwner
  RoleOf <- MCRoleOf
  OnlineAt <- MCOnlineAt
CHECK_DEADLOCK FALSE
INVARIANT EchoOnlyIfReplaced
PROPERTY ImplementsDirectory
PROPERTY BrokenConnEnds
