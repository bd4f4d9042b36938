SPECIFICATION CleanRaceSpec
CONSTANTS
  q1 = q1  q2 = q2  q3 = q3
  d1 = d1  d2 = d2
  ipA = ipA  rawA = rawA  httpA = httpA  ipB = ipB  usb = usb
  oem1 = oem1  oem2 = oem2
  a = a  b = b
  None = None
  Queue = {q1, q2, q3}
  Driver = {d1, d2}
  SystemDriver = {}
  Port = {ipA, rawA, httpA, ipB, usb}
  ManagedPort = {ipA, ipB, httpA}
  Package = {oem1}
  PackageOf <- MCSiblings
  Ip = {a, b}
  IpPort <- MCIpPort
  AddrOf <- MCAddrOf
  Underscore = {ipA, ipB}
  Amid = {httpA}
  Longer <- MCLonger
  Containing <- MCLonger
  CleanCalls <- MCEverythingA
  Calls <- MCRemovals
  Proc = {p1, p2}
  Lag = {0, 12}
  Flaky = {}
CHECK_DEADLOCK FALSE
SYMMETRY Symmetry
INVARIANT  LastOneOut CleanTypeOK NothingLeft
