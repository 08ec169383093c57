SPECIFICATION FairSpec
CONSTANTS
  c1 = c1
  c2 = c2
  c3 = c3
  dA = dA
  dB = dB
  Conns = {c1, c3}
  Devices = {dA, dB}
  DeviceOf <- MCDeviceOf
  TTL = 3
  MaxFaults = 1
PROPERTY GhostsExpire
