SPECIFICATION Spec
CONSTANTS
  c1 = c1
  c2 = c2
  c3 = c3
  c4 = c4
  dA = dA
  dB = dB
  dC = dC
  u1 = u1
  u2 = u2
  Conns = {c1, c3, c4}
  Devices = {dA, dB, dC}
  Users = {u1, u2}
  Names = {n1}
  Requests = {}
  QueueCap = 1
  MaxFrames = 2
  DeviceOf <- MCDeviceOf
  Owner <- MCTwoOwners
  RoleOf <- MCRoleOf
  OnlineAt <- MCOnlineAt
CHECK_DEADLOCK FALSE
INVARIANT NoSendOnClosedChannel
INVARIANT UserIsolation
