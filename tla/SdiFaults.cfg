SPECIFICATION MCSdiSpec
CONSTANTS
  i1 = i1  i2 = i2  k1 = k1  k2 = k2
  None = None
  Pack = {k1, k2}
  Index = {i1, i2}
  PackOf <- MCPackOf
  SizeOf <- MCSizeOf
  MaxVersion = 2
  SdiCalls <- MCSdiCalls
  Flaky = {"net", "disk"}
  Proc = {p1}
CHECK_DEADLOCK FALSE
INVARIANT SdiTypeOK EvictsByRecord
PROPERTY RefreshDelivers SdiTerminates
