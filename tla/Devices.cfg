SPECIFICATION DevicesSpec
CONSTANTS
  c1 = c1
  c2 = c2
  c3 = c3
  dA = dA
  dB = dB
  Conns = {c1, c2, c3}
  Devices = {dA, dB}
  DeviceOf <- MCDeviceOf
  Requests = {r1, r2}
  Subscriber = sub
  MaxFaults = 1
  Pairs = {d1, d2, d3}
  Sizes = {0, 1}
  MaxSecond = 3
  MaxChanges = 2
SYMMETRY MCSymmetry
CHECK_DEADLOCK FALSE
INVARIANT TypeOK
INVARIANT DisabledIsOffline
INVARIANT AnswerMatchesFilter
INVARIANT WalkShowsAll
PROPERTY BanEndsByCommand
