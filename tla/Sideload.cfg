SPECIFICATION MCSideSpec
CONSTANTS
  n1 = n1  n2 = n2  d1 = d1  d2 = d2  d3 = d3
  k1 = k1  k1x = k1x  k2 = k2  k3 = k3
  up = up  sA = sA  sB = sB  u = u  f = f
  None = None
  Queue = {n1, n2}
  Driver = {d1, d2, d3}
  SystemDriver = {}
  Port = {up}
  ManagedPort = {}
  Package = {k1, k1x, k2, k3}
  PackageOf <- MCPackageOf
  Cats <- MCCats
  Lag = {0}
  Flaky = {"query", "change"}
  Dir = {sA, sB, u, f}
  StagingDir = {sA, sB, u}
  DirOf <- MCDirOf
  Base <- MCBase
  NoInf = {}
  SevenZ = {k3}
  Installer = {k3}
  Proc = {p1, p2}
  SideCalls <- MCSideCalls
  Hint = {d1, d2}
  Release <- MCRelease
  Mirror <- MCMirror
  BundleOffer = {d3}
  Device = {n1}
  Fits <- MCFits
  UsbPort <- MCUsbPort
  Polls = 2
CHECK_DEADLOCK FALSE
INVARIANT SideTypeOK SwapIsAllOrNothing
PROPERTY UrlPackIsSigned
SYMMETRY Symmetry
