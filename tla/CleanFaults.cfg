SPECIFICATION MCFaultsSpec
CONSTANTS
  q1 = q1  q2 = q2  q3 = q3
  d1 = d1  d2 = d2
  ipA = ipA  rawA = rawA  httpA = httpA  ipB = ipB  usb = usb
  oem1 = oem1  oem2 = oem2
  a = a  b = b
  None = None
  Queue = {q1, q2, b}
  Driver = {d1, d2}
  SystemDriver = {}
  Port = {ipA, ipB, httpA, usb}
  ManagedPort = {ipA, ipB, httpA}
  Package = {oem1, oem2}
  PackageOf <- MCPackageOf
  Ip = {a, b}
  IpPort <- MCIpPort
  AddrOf <- MCAddrOf
  Underscore = {ipA, ipB}
  Amid = {httpA}
  Longer <- MCLonger
  Containing <- MCLonger
  CleanCalls <- MCCleanCalls
  Calls = {}
  Proc = {p1}
  Lag = {0, 2}
  Flaky = {"query", "change", "disk"}
CHECK_DEADLOCK FALSE
INVARIANT TakesOnlyMatches
PROPERTY CleanKeepsPromise CleanTerminates
