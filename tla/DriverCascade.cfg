SPECIFICATION MCDriverSpec
CONSTANTS
  q1 = q1  q2 = q2
  sys = sys  d1 = d1  d2 = d2
  ipA = ipA  http = http  usb = usb
  inbox = inbox  oem = oem
  a = a
  fuzzy = fuzzy
  None = None
  Queue = {q1, q2, a}
  Driver = {sys, d1, d2}
  SystemDriver = {sys}
  Port = {ipA, http, usb}
  ManagedPort = {ipA, http}
  Package = {inbox, oem}
  PackageOf <- MCPackageOf
  Ip = {a}
  IpPort <- MCIpPort
  DriverTarget = {sys, d1, d2, fuzzy}
  Scored <- MCScored
  DriverCalls <- MCDriverCalls
  Calls <- MCRemoveCalls
  Proc = {p1}
  Lag = {0, 2}
  Flaky = {"query", "change", "disk"}
CHECK_DEADLOCK FALSE
INVARIANT DriverTypeOK TakesOnlyDependents
PROPERTY KeepsPromise Terminates DriverRemoveTerminates
