SPECIFICATION MCAloneAddSpec
CONSTANTS
  q1 = q1  q1i = q1i  q2 = q2
  ipp = ipp  d1 = d1  d2 = d2  d3 = d3
  ipA = ipA  ipB = ipB
  inbox = inbox  oem1 = oem1  oem2 = oem2  oem3 = oem3
  a = a  b = b
  None = None
  Queue = {q1, q1i, q2}
  Driver = {ipp, d1, d2, d3}
  SystemDriver = {ipp}
  Port = {ipA, ipB}
  ManagedPort = {ipA, ipB}
  Package = {inbox, oem1, oem2, oem3}
  PackageOf <- MCPackageOf
  Cats <- MCCats
  Ip = {a, b}
  IpPort <- MCIpPort
  IppName <- MCIppName
  IppDriver = ipp
  Adds <- MCAllAdds
  Calls <- MCRemovals
  Proc = {p1}
  Lag = {0}
  Flaky = {"query", "change", "disk"}
  Offer <- MCOffer
  Manifest <- MCManifest
  Beside <- MCSharedRoot
  Hint = {d1, d3}
CHECK_DEADLOCK FALSE
INVARIANT VerifiedIsSigned
